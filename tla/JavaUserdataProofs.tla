------------------------ MODULE JavaUserdataProofs -------------------------
(***************************************************************************)
(* For any objects, kinds and stacks and any program: the collector never  *)
(* frees what the program can get at; between any two stores marking keeps *)
(* the rule that no traversed object refers to a white one; and a Java     *)
(* object in Lua has its global reference for as long as Lua can get at    *)
(* it, and loses it once.                                                  *)
(*                                                                         *)
(* The argument about the collector: what a live object holds is alive     *)
(* (Solid).  While marking goes on nothing is dead, and each gray object   *)
(* is on a list that atomic goes through, or is a kind that atomic knows   *)
(* (Coloured); so atomic ends with marks no strong reference leads out of, *)
(* and clears the weak ones.  From then on only the other white is dead,   *)
(* and whatever sweeping has done with has the current white (Swept),      *)
(* which is what the next cycle starts from.                               *)
(*                                                                         *)
(* The argument about the references: a reference lives until the          *)
(* finalizer of its userdata is called (Kept), which is once, since        *)
(* FINALIZEDBIT is set when the userdata is found white and never cleared, *)
(* and which no sweep forgets, since what it frees has the bit (Released). *)
(* pushJavaObject holds its userdata on the stack until it has a finalizer *)
(* (Pushed).  Without Lua finalizers and weak keys what is alive and has   *)
(* not the bit leads to nothing that has it (Unreached).                   *)
(*                                                                         *)
(* All this ends with luaC_separateudata of lua_close, which gives every   *)
(* userdata the bit.  From then on only the list of those whose finalizer  *)
(* is still to be called matters, and who is in failed or late (Closing).  *)
(***************************************************************************)
EXTENDS JavaUserdata, SequenceTheorems, FiniteSetTheorems, TLAPS

(* The collector: its invariant and that every step of it keeps it. *)

Kinds == Tables \cup Userdata \cup {"closure", "upval", "thread", "string", "unused"}
Colours == White \cup {"gray", "black"}
Marks == [marked : [All -> Colours], gray : SUBSET All, grayagain : SUBSET All, weak : SUBSET All]
Phases == {"pause", "propagate", "sweepstring", "sweep", "finalize"}

GCType ==
    /\ kind \in [All -> Kinds] /\ kind[Main] = "thread"
    /\ alloc \in SUBSET All /\ Main \in alloc
    /\ key \in [All -> All \cup {Nil}] /\ val \in [All -> All \cup {Nil}]
    /\ stack \in [All -> SUBSET All]
    /\ openOf \in [All -> All \cup {Nil}]
    /\ m \in Marks
    /\ currentwhite \in White /\ gcstate \in Phases
    /\ unswept \in SUBSET alloc

\* Who has which fields; open upvalues are in no list that gets swept.
Shape ==
    /\ \A o \in All : openOf[o] # Nil =>
           /\ kind[o] = "upval" /\ o \in alloc /\ o \notin unswept
           /\ openOf[o] \in alloc /\ kind[openOf[o]] = "thread"
    /\ \A o \in alloc : kind[o] # "unused"
    /\ \A o \in All \ alloc : key[o] = Nil /\ val[o] = Nil /\ stack[o] = {}
    /\ \A o \in All : key[o] # Nil => kind[o] \in Tables
    /\ \A o \in All : val[o] # Nil => kind[o] \notin {"string", "thread", "java", "unused"}
    /\ \A o \in All : stack[o] # {} => kind[o] = "thread"

\* Each userdata is in one of two lists, once.
Once(s) == \A i, j \in DOMAIN s : s[i] = s[j] => i = j
Lists ==
    /\ udata \in Seq(Objects) /\ Once(udata)
    /\ tmudata \in Seq(Objects) /\ Once(tmudata)
    /\ ToSet(udata) \cap ToSet(tmudata) = {}
    /\ ToSet(udata) \cup ToSet(tmudata) = {o \in alloc : kind[o] \in Userdata}

Live == {o \in alloc : ~IsDead(o)}
Solid ==
    /\ Main \in Live
    /\ ToSet(tmudata) \subseteq Live
    /\ \A o \in Live : Held(o) \subseteq Live

OpensNotBlack(mm) == \A o \in All : openOf[o] # Nil => mm.marked[o] # "black"
ListsTyped(mm) == \A o \in mm.gray \cup mm.grayagain \cup mm.weak : kind[o] \in Listed

\* Marks in the middle of a cycle, but for the objects of P.
Coloured(mm, P) ==
    /\ ListsTyped(mm)
    /\ \A o \in All \ P : openOf[o] # Nil => mm.marked[o] # "black"
    /\ \A o \in alloc : mm.marked[o] # OtherWhite
    /\ \A o \in alloc : kind[o] = "thread" \/ IsWeak(o) => mm.marked[o] # "black"
    /\ \A o \in alloc \ P : mm.marked[o] = "gray" =>
           \/ kind[o] = "string" \/ openOf[o] # Nil
           \/ o \in mm.gray \cup mm.grayagain \cup mm.weak
    /\ \A o \in alloc \ P : mm.marked[o] = "black" =>
           \A x \in Children(o) : mm.marked[x] \notin White

\* What sweeping, or the time before the next cycle, has left.
Swept ==
    /\ OpensNotBlack(m)
    /\ gcstate \in {"pause", "finalize"} => unswept = {}
    /\ \A o \in alloc \ (unswept \cup ToSet(tmudata)) :
           openOf[o] \notin unswept => m.marked[o] = currentwhite

Phase ==
    IF gcstate = "propagate"
    THEN m.marked[Main] \notin White /\ Coloured(m, ToSet(tmudata))
    ELSE Swept

GCInv == GCType /\ Shape /\ Lists /\ Solid /\ Phase
----------------------------------------------------------------------------
(* Reachability *)

\* Closure(S, next) holds S and what its members lead to, ...
LEMMA ClosureHolds ==
    ASSUME NEW S, NEW next, S \subseteq DOMAIN next,
           \A o \in DOMAIN next : next[o] \subseteq DOMAIN next
    PROVE  /\ S \subseteq Closure(S, next)
           /\ Closure(S, next) \subseteq DOMAIN next
           /\ \A o \in Closure(S, next) : next[o] \subseteq Closure(S, next)
  BY DEF Closure

\* ... and nothing that another such set leaves out.
LEMMA ClosureLeast ==
    ASSUME NEW S, NEW next, NEW R \in SUBSET DOMAIN next, S \subseteq R,
           \A o \in R : next[o] \subseteq R
    PROVE  Closure(S, next) \subseteq R
  BY DEF Closure

LEMMA ChildrenTyped ==
    ASSUME GCType, NEW o \in All
    PROVE  Children(o) \subseteq Held(o) /\ Held(o) \subseteq All
  BY DEF GCType, Children, Held, Slots, OpenIn, All, Tables

LEMMA NilFresh == Nil \notin All
  BY GCAssumption DEF All

LEMMA HoldsNothing ==
    ASSUME GCType, Shape, NEW o \in All, o \notin alloc \/ kind[o] \in {"string", "unused"}
    PROVE  Held(o) = {}
<1>1. key[o] = Nil /\ val[o] = Nil /\ (kind[o] = "thread" => stack[o] = {})
  BY DEF Shape, Tables
<1>2. ASSUME kind[o] = "thread", NEW u \in alloc, openOf[u] = o PROVE FALSE
  <2>1. u \in All /\ o # Nil BY NilFresh DEF GCType
  <2> QED BY <1>2, <2>1 DEF Shape
<1> QED BY <1>1, <1>2 DEF Held, Slots, OpenIn

\* What Reached finds, for any marks.
LEMMA ReachedFacts ==
    ASSUME GCType, NEW marked \in [All -> Colours], NEW S, NEW through,
           NEW R, R = Reached(marked, S, through)
    PROVE  /\ \A o \in R : o \in All /\ marked[o] \in White
           /\ \A o \in S \cap All : marked[o] \in White => o \in R
           /\ \A o \in R : kind[o] \in through =>
                  \A x \in Children(o) : marked[x] \in White => x \in R
<1> DEFINE W == {o \in All : marked[o] \in White}
           next == [o \in W |-> IF kind[o] \in through THEN Children(o) \cap W ELSE {}]
<1>1. R = Closure(S \cap W, next) BY DEF Reached
<1>2. DOMAIN next = W OBVIOUS
<1>3. \A o \in W : next[o] \subseteq W OBVIOUS
<1> HIDE DEF next
<1>4. /\ S \cap W \subseteq R /\ R \subseteq W
      /\ \A o \in R : next[o] \subseteq R
  <2> DEFINE T == S \cap W
  <2>1. T \subseteq DOMAIN next /\ \A o \in DOMAIN next : next[o] \subseteq DOMAIN next
    BY <1>2, <1>3
  <2> HIDE DEF T
  <2>2. /\ T \subseteq Closure(T, next) /\ Closure(T, next) \subseteq DOMAIN next
        /\ \A o \in Closure(T, next) : next[o] \subseteq Closure(T, next)
    BY <2>1, ClosureHolds
  <2> QED BY <1>1, <1>2, <2>2 DEF T
<1>5. ASSUME NEW o \in R, kind[o] \in through, NEW x \in Children(o), marked[x] \in White
      PROVE  x \in R
  BY <1>4, <1>5, ChildrenTyped DEF next
<1> QED BY <1>4, <1>5

LEMMA ReachedLeast ==
    ASSUME GCType, NEW marked \in [All -> Colours], NEW S, NEW through,
           NEW X, \A o \in X : o \in All /\ marked[o] \in White,
           \A o \in S \cap All : marked[o] \in White => o \in X,
           \A o \in X : kind[o] \in through => \A x \in Children(o) : marked[x] \in White => x \in X
    PROVE  Reached(marked, S, through) \subseteq X
<1> DEFINE W == {o \in All : marked[o] \in White}
           next == [o \in W |-> IF kind[o] \in through THEN Children(o) \cap W ELSE {}]
<1>1. Reached(marked, S, through) = Closure(S \cap W, next) BY DEF Reached
<1>2. DOMAIN next = W /\ X \subseteq W OBVIOUS
<1>3. \A o \in X : next[o] \subseteq X OBVIOUS
<1> HIDE DEF next
<1> QED BY <1>1, <1>2, <1>3, ClosureLeast

----------------------------------------------------------------------------
(* Marking *)

\* Mark gives each white object it reaches its colour, waiting for its turn if it
\* is of a kind that waits, and changes nothing else.
LEMMA MarkFacts ==
    ASSUME GCType, NEW mm \in Marks, NEW S, NEW M, M = Mark(mm, S)
    PROVE  /\ M \in Marks
           /\ M.grayagain = mm.grayagain /\ M.weak = mm.weak
           /\ \A o \in mm.gray : o \in M.gray
           /\ \A o \in M.gray \ mm.gray : kind[o] \in Listed
           /\ \A o \in All : mm.marked[o] \notin White => M.marked[o] = mm.marked[o]
           /\ \A o \in All : M.marked[o] \in White => M.marked[o] = mm.marked[o]
           /\ \A o \in S \cap All : M.marked[o] \notin White
           /\ \A o \in All : mm.marked[o] \in White /\ M.marked[o] \notin White =>
                  /\ M.marked[o] = ColourMarked(o)
                  /\ kind[o] \in Listed => o \in M.gray
                  /\ kind[o] \in Userdata \cup {"upval"} =>
                         \A x \in Children(o) : M.marked[x] \notin White
<1> DEFINE R == Reached(mm.marked, S, Userdata \cup {"upval"})
<1>1. /\ mm.marked \in [All -> Colours]
      /\ mm.gray \subseteq All /\ mm.grayagain \subseteq All /\ mm.weak \subseteq All
      /\ mm = [marked |-> mm.marked, gray |-> mm.gray, grayagain |-> mm.grayagain, weak |-> mm.weak]
  BY DEF Marks
<1>2. /\ \A o \in R : o \in All /\ mm.marked[o] \in White
      /\ \A o \in S \cap All : mm.marked[o] \in White => o \in R
      /\ \A o \in R : kind[o] \in Userdata \cup {"upval"} =>
             \A x \in Children(o) : mm.marked[x] \in White => x \in R
  <2> DEFINE marks == mm.marked
             through == Userdata \cup {"upval"}
  <2>1. marks \in [All -> Colours] /\ R = Reached(marks, S, through) BY <1>1
  <2> HIDE DEF marks, through, R
  <2>2. /\ \A o \in R : o \in All /\ marks[o] \in White
        /\ \A o \in S \cap All : marks[o] \in White => o \in R
        /\ \A o \in R : kind[o] \in through => \A x \in Children(o) : marks[x] \in White => x \in R
    BY <2>1, ReachedFacts
  <2> QED BY <2>2 DEF marks, through
<1>3. /\ M.marked = [o \in All |-> IF o \in R THEN ColourMarked(o) ELSE mm.marked[o]]
      /\ M.gray = mm.gray \cup {o \in R : kind[o] \in Listed}
      /\ M.grayagain = mm.grayagain /\ M.weak = mm.weak
      /\ M = [marked |-> M.marked, gray |-> M.gray, grayagain |-> M.grayagain, weak |-> M.weak]
  BY <1>1 DEF Mark
<1> HIDE DEF R
<1>4. \A o : ColourMarked(o) \in Colours /\ ColourMarked(o) \notin White
  BY DEF ColourMarked, Colours, White
<1>5. M \in Marks
  BY <1>1, <1>2, <1>3, <1>4 DEF Marks
<1>6. \A o \in All : M.marked[o] \notin White <=> o \in R \/ mm.marked[o] \notin White
  BY <1>2, <1>3, <1>4
<1>7. ASSUME NEW o \in R, kind[o] \in Userdata \cup {"upval"}, NEW x \in Children(o)
      PROVE  M.marked[x] \notin White
  BY <1>2, <1>6, <1>7, ChildrenTyped
<1> QED BY <1>2, <1>3, <1>4, <1>5, <1>6, <1>7
\* It marks no more than it has to.
LEMMA MarkLeast ==
    ASSUME GCType, NEW mm \in Marks, NEW S,
           NEW X, \A o \in X : o \in All /\ mm.marked[o] \in White,
           \A o \in S \cap All : mm.marked[o] \in White => o \in X,
           \A o \in X : kind[o] \in Userdata \cup {"upval"} =>
               \A x \in Children(o) : mm.marked[x] \in White => x \in X
    PROVE  /\ \A o \in All : mm.marked[o] \in White /\ Mark(mm, S).marked[o] \notin White => o \in X
           /\ \A o \in Mark(mm, S).gray \ mm.gray : o \in X /\ kind[o] \in Listed
<1> DEFINE R == Reached(mm.marked, S, Userdata \cup {"upval"})
<1>1. mm.marked \in [All -> Colours]
  BY DEF Marks
<1>2. R \subseteq X
  <2> DEFINE marks == mm.marked
             through == Userdata \cup {"upval"}
  <2>1. /\ marks \in [All -> Colours] /\ R = Reached(marks, S, through)
        /\ \A o \in X : o \in All /\ marks[o] \in White
        /\ \A o \in S \cap All : marks[o] \in White => o \in X
        /\ \A o \in X : kind[o] \in through => \A x \in Children(o) : marks[x] \in White => x \in X
    BY <1>1
  <2> HIDE DEF marks, through, R
  <2> QED BY <2>1, ReachedLeast
<1>3. /\ Mark(mm, S).marked = [o \in All |-> IF o \in R THEN ColourMarked(o) ELSE mm.marked[o]]
      /\ Mark(mm, S).gray = mm.gray \cup {o \in R : kind[o] \in Listed}
  BY <1>1 DEF Mark, Marks
<1> HIDE DEF R
<1> QED BY <1>2, <1>3

\* Nor has it anything to do where nothing is white.
LEMMA MarkNothing ==
    ASSUME GCType, NEW mm \in Marks, NEW S, \A o \in S \cap All : mm.marked[o] \notin White
    PROVE  /\ Mark(mm, S).gray = mm.gray
           /\ \A o \in All : Mark(mm, S).marked[o] = mm.marked[o]
<1> DEFINE X == {}
           M == Mark(mm, S)
<1>0. /\ \A o \in X : o \in All /\ mm.marked[o] \in White
      /\ \A o \in S \cap All : mm.marked[o] \in White => o \in X
      /\ \A o \in X : kind[o] \in Userdata \cup {"upval"} =>
             \A x \in Children(o) : mm.marked[x] \in White => x \in X
  OBVIOUS
<1> HIDE DEF X
<1>1. /\ \A o \in All : mm.marked[o] \in White /\ M.marked[o] \notin White => o \in X
      /\ \A o \in M.gray \ mm.gray : o \in X /\ kind[o] \in Listed
  BY <1>0, MarkLeast
<1>2. /\ M \in Marks /\ \A o \in mm.gray : o \in M.gray
      /\ \A o \in All : mm.marked[o] \notin White => M.marked[o] = mm.marked[o]
      /\ \A o \in All : M.marked[o] \in White => M.marked[o] = mm.marked[o]
  BY MarkFacts
<1> HIDE DEF M
<1>3. \A o \in All : M.marked[o] = mm.marked[o]
  BY <1>1, <1>2 DEF X
<1>4. M.gray = mm.gray
  BY <1>1, <1>2 DEF X
<1> QED BY <1>3, <1>4 DEF M

\* The objects V, with the colours they get when they are traversed.
Recoloured(mm, V) ==
    [mm EXCEPT !.gray = @ \ V,
               !.marked = [o \in All |-> IF o \in V THEN ColourTraversed(o) ELSE @[o]],
               !.grayagain = @ \cup {o \in V : kind[o] = "thread"},
               !.weak = @ \cup {o \in V : IsWeak(o)}]

LEMMA RecolouredFacts ==
    ASSUME GCType, NEW mm \in Marks, NEW V \in SUBSET All, NEW n, n = Recoloured(mm, V)
    PROVE  /\ n \in Marks
           /\ Traverse(mm, V) = Mark(n, UNION {Children(o) : o \in V})
           /\ n.gray = mm.gray \ V
           /\ n.grayagain = mm.grayagain \cup {o \in V : kind[o] = "thread"}
           /\ n.weak = mm.weak \cup {o \in V : IsWeak(o)}
           /\ \A o \in V : n.marked[o] = ColourTraversed(o)
           /\ \A o \in All \ V : n.marked[o] = mm.marked[o]
           /\ \A o : ColourTraversed(o) \in {"gray", "black"}
<1>1. /\ mm.marked \in [All -> Colours]
      /\ mm.gray \subseteq All /\ mm.grayagain \subseteq All /\ mm.weak \subseteq All
      /\ mm = [marked |-> mm.marked, gray |-> mm.gray, grayagain |-> mm.grayagain, weak |-> mm.weak]
  BY DEF Marks
<1>2. \A o : ColourTraversed(o) \in {"gray", "black"} /\ ColourTraversed(o) \in Colours
  BY DEF ColourTraversed, Colours
<1>3. /\ n.marked = [o \in All |-> IF o \in V THEN ColourTraversed(o) ELSE mm.marked[o]]
      /\ n.gray = mm.gray \ V
      /\ n.grayagain = mm.grayagain \cup {o \in V : kind[o] = "thread"}
      /\ n.weak = mm.weak \cup {o \in V : IsWeak(o)}
      /\ n = [marked |-> n.marked, gray |-> n.gray, grayagain |-> n.grayagain, weak |-> n.weak]
  BY <1>1 DEF Recoloured
<1>4. n \in Marks
  BY <1>1, <1>2, <1>3 DEF Marks
<1>5. Traverse(mm, V) = Mark(n, UNION {Children(o) : o \in V})
  BY DEF Traverse, Recoloured
<1> QED BY <1>1, <1>2, <1>3, <1>4, <1>5

\* Marks only become more.
Grown(mm, M) == \A o \in All :
    /\ mm.marked[o] \notin White => M.marked[o] \notin White
    /\ M.marked[o] \in White => M.marked[o] = mm.marked[o]

\* propagateall leaves no gray object to traverse; it traverses those there were and
\* whatever it marks.
LEMMA PropagateFacts ==
    ASSUME GCType, Shape, NEW mm \in Marks, ListsTyped(mm), OpensNotBlack(mm),
           NEW M, M = PropagateAll(mm)
    PROVE  /\ M \in Marks /\ ListsTyped(M) /\ OpensNotBlack(M)
           /\ M.gray = {} /\ Grown(mm, M)
           /\ \A o \in M.grayagain \ mm.grayagain : kind[o] = "thread"
           /\ \A o \in mm.grayagain : o \in M.grayagain
           /\ \A o \in mm.weak : o \in M.weak
           /\ \A o \in mm.gray : IsWeak(o) => o \in M.weak
           /\ \A o \in All : (mm.marked[o] \in White /\ M.marked[o] \notin White) \/ o \in mm.gray =>
                  /\ \A x \in Children(o) : M.marked[x] \notin White
                  /\ IsWeak(o) => o \in M.weak
<1> DEFINE S == UNION {Children(o) : o \in mm.gray}
           R == Reached(mm.marked, S, Listed \cup Userdata \cup {"upval"})
           V == mm.gray \cup {o \in R : kind[o] \in Listed}
           X == Mark(mm, R)
           n == Recoloured(X, V)
           T == UNION {Children(o) : o \in V}
<1>1. mm.marked \in [All -> Colours] /\ mm.gray \subseteq All
  BY DEF Marks
<1>2. M = Traverse(X, V)
  BY DEF PropagateAll
<1>3. S \subseteq All
  BY <1>1, ChildrenTyped
<1>4. /\ \A o \in R : o \in All /\ mm.marked[o] \in White
      /\ \A o \in S \cap All : mm.marked[o] \in White => o \in R
      /\ \A o \in R : kind[o] \in Listed \cup Userdata \cup {"upval"} =>
             \A x \in Children(o) : mm.marked[x] \in White => x \in R
  <2> DEFINE marks == mm.marked
             through == Listed \cup Userdata \cup {"upval"}
  <2>1. marks \in [All -> Colours] /\ R = Reached(marks, S, through) BY <1>1
  <2> HIDE DEF marks, through, R, S
  <2>2. /\ \A o \in R : o \in All /\ marks[o] \in White
        /\ \A o \in S \cap All : marks[o] \in White => o \in R
        /\ \A o \in R : kind[o] \in through => \A x \in Children(o) : marks[x] \in White => x \in R
    BY <2>1, ReachedFacts
  <2> QED BY <2>2 DEF marks, through
<1>5. \A o \in mm.gray : \A x \in Children(o) : x \in S
  OBVIOUS
<1> HIDE DEF S, R
<1>6. /\ X \in Marks /\ X.grayagain = mm.grayagain /\ X.weak = mm.weak
      /\ \A o \in mm.gray : o \in X.gray
      /\ \A o \in X.gray \ mm.gray : kind[o] \in Listed
      /\ \A o \in All : mm.marked[o] \notin White => X.marked[o] = mm.marked[o]
      /\ \A o \in All : X.marked[o] \in White => X.marked[o] = mm.marked[o]
      /\ \A o \in R \cap All : X.marked[o] \notin White
      /\ \A o \in All : mm.marked[o] \in White /\ X.marked[o] \notin White =>
             X.marked[o] = ColourMarked(o)
  BY MarkFacts
<1>7. /\ \A o \in All : mm.marked[o] \in White /\ X.marked[o] \notin White => o \in R
      /\ \A o \in X.gray \ mm.gray : o \in R /\ kind[o] \in Listed
  BY <1>4, MarkLeast
<1> HIDE DEF X
<1>8. V \in SUBSET All /\ \A o \in V : kind[o] \in Listed
  BY <1>1, <1>4 DEF ListsTyped
<1>9. /\ n \in Marks /\ M = Mark(n, T) /\ n.gray = X.gray \ V
      /\ n.grayagain = X.grayagain \cup {o \in V : kind[o] = "thread"}
      /\ n.weak = X.weak \cup {o \in V : IsWeak(o)}
      /\ \A o \in V : n.marked[o] = ColourTraversed(o)
      /\ \A o \in All \ V : n.marked[o] = X.marked[o]
      /\ \A o : ColourTraversed(o) \in {"gray", "black"}
  <2> HIDE DEF V
  <2>1. n = Recoloured(X, V) OBVIOUS
  <2> HIDE DEF n
  <2> QED BY <1>2, <1>6, <1>8, <2>1, RecolouredFacts
<1>10. n.gray = {}
  BY <1>6, <1>7, <1>9
<1>11. \A o \in V : \A x \in Children(o) : x \in All /\ X.marked[x] \notin White
  BY <1>1, <1>4, <1>5, <1>6, <1>8, ChildrenTyped
<1>12. \A o \in T \cap All : n.marked[o] \notin White
  BY <1>9, <1>11 DEF White
<1> HIDE DEF n, V, T
<1>13. /\ M.gray = {} /\ \A o \in All : M.marked[o] = n.marked[o]
       /\ M \in Marks /\ M.grayagain = n.grayagain /\ M.weak = n.weak
  BY <1>9, <1>10, <1>12, MarkNothing, MarkFacts
<1>14. \A o \in All : n.marked[o] \notin White <=> X.marked[o] \notin White \/ o \in V
  BY <1>9 DEF White
<1>15. Grown(mm, M)
  BY <1>6, <1>9, <1>13, <1>14 DEF Grown
<1>16. OpensNotBlack(M)
  <2> SUFFICES ASSUME NEW o \in All, openOf[o] # Nil PROVE M.marked[o] # "black"
    BY DEF OpensNotBlack
  <2>1. kind[o] = "upval" BY DEF Shape
  <2>2. o \notin V BY <1>8, <2>1 DEF Listed, Tables
  <2>3. ColourMarked(o) # "black" BY <2>1 DEF ColourMarked, Userdata
  <2> QED BY <1>6, <1>9, <1>13, <2>2, <2>3 DEF OpensNotBlack, White
<1>17. ListsTyped(M)
  BY <1>6, <1>8, <1>9, <1>13 DEF ListsTyped
<1>18. ASSUME NEW o \in All, (mm.marked[o] \in White /\ M.marked[o] \notin White) \/ o \in mm.gray,
              NEW x \in Children(o)
       PROVE  M.marked[x] \notin White
  <2>1. o \in R \/ o \in mm.gray
    BY <1>7, <1>13, <1>14, <1>18 DEF V
  <2>2. x \in All BY ChildrenTyped
  <2>3. CASE o \in V
    BY <1>11, <1>13, <1>14, <2>2, <2>3
  <2>4. CASE o \in R /\ kind[o] \in Userdata \cup {"upval"}
    BY <1>4, <1>6, <1>13, <1>14, <2>2, <2>4
  <2>5. kind[o] \notin {"string", "unused"}
    BY DEF Shape, Children, GCType, All, Tables
  <2> QED BY <2>1, <2>3, <2>4, <2>5 DEF V, GCType, Kinds, Listed
<1>19. ASSUME NEW o \in All, (mm.marked[o] \in White /\ M.marked[o] \notin White) \/ o \in mm.gray,
              IsWeak(o)
       PROVE  o \in M.weak
  <2>1. o \in R \/ o \in mm.gray
    BY <1>7, <1>13, <1>14, <1>19 DEF V
  <2>2. kind[o] \in Listed
    BY <1>19 DEF IsWeak, WeakKey, WeakValue, Listed, Tables
  <2> QED BY <1>9, <1>13, <1>19, <2>1, <2>2 DEF V
<1> QED BY <1>1, <1>6, <1>9, <1>13, <1>15, <1>16, <1>17, <1>18, <1>19
LEMMA PropagateNothing ==
    ASSUME GCType, NEW mm \in Marks, mm.gray = {}, NEW M, M = PropagateAll(mm)
    PROVE  \A o \in All : M.marked[o] = mm.marked[o]
<1> DEFINE R == Reached(mm.marked, UNION {Children(o) : o \in mm.gray},
                        Listed \cup Userdata \cup {"upval"})
           V == mm.gray \cup {o \in R : kind[o] \in Listed}
           X == Mark(mm, R)
           E == {}
<1>1. mm.marked \in [All -> Colours]
  BY DEF Marks
<1>2. R = {}
  <2> DEFINE marks == mm.marked
             through == Listed \cup Userdata \cup {"upval"}
             S == UNION {Children(o) : o \in mm.gray}
  <2>1. /\ marks \in [All -> Colours] /\ R = Reached(marks, S, through)
        /\ \A o \in E : o \in All /\ marks[o] \in White
        /\ \A o \in S \cap All : marks[o] \in White => o \in E
        /\ \A o \in E : kind[o] \in through => \A x \in Children(o) : marks[x] \in White => x \in E
    BY <1>1
  <2> HIDE DEF marks, through, S, E, R
  <2>2. R \subseteq E BY <2>1, ReachedLeast
  <2> QED BY <2>2 DEF E
<1>3. M = Traverse(X, V)
  BY DEF PropagateAll
<1> HIDE DEF R
<1>4. V = {} BY <1>2
<1>5. /\ X \in Marks /\ \A o \in All : X.marked[o] = mm.marked[o]
  BY <1>2, MarkFacts, MarkNothing
<1> HIDE DEF X, V
<1> DEFINE n == Recoloured(X, V)
           S == UNION {Children(o) : o \in V}
<1>6. V \in SUBSET All /\ S = {}
  BY <1>4
<1>7. n \in Marks /\ M = Mark(n, S) /\ \A o \in All \ V : n.marked[o] = X.marked[o]
  BY <1>3, <1>5, <1>6, RecolouredFacts
<1> HIDE DEF n, S
<1>8. \A o \in All : M.marked[o] = n.marked[o]
  BY <1>6, <1>7, MarkNothing
<1> QED BY <1>4, <1>5, <1>7, <1>8

----------------------------------------------------------------------------
(* Lists that name nothing twice *)

LEMMA ConcatOnce ==
    ASSUME NEW T, NEW s \in Seq(T), NEW t \in Seq(T), Once(s), Once(t), ToSet(s) \cap ToSet(t) = {}
    PROVE  s \o t \in Seq(T) /\ Once(s \o t) /\ ToSet(s \o t) = ToSet(s) \cup ToSet(t)
<1> DEFINE c == s \o t
<1>1. /\ Len(s) \in Nat /\ Len(t) \in Nat /\ DOMAIN s = 1 .. Len(s) /\ DOMAIN t = 1 .. Len(t)
      /\ c \in Seq(T) /\ Len(c) = Len(s) + Len(t) /\ DOMAIN c = 1 .. Len(c)
      /\ \A i \in 1 .. Len(s) + Len(t) :
             c[i] = IF i <= Len(s) THEN s[i] ELSE t[i - Len(s)]
  BY LenProperties, ConcatProperties
<1> HIDE DEF c
<1>2. \A i \in DOMAIN c : \/ i \in DOMAIN s /\ c[i] = s[i]
                          \/ i - Len(s) \in DOMAIN t /\ i > Len(s) /\ c[i] = t[i - Len(s)]
  BY <1>1
<1>3. /\ \A i \in DOMAIN s : i \in DOMAIN c /\ c[i] = s[i]
      /\ \A i \in DOMAIN t : i + Len(s) \in DOMAIN c /\ c[i + Len(s)] = t[i]
  BY <1>1
<1>4. ToSet(c) = ToSet(s) \cup ToSet(t)
  BY <1>2, <1>3 DEF ToSet
<1>5. ASSUME NEW i \in DOMAIN c, NEW j \in DOMAIN c, c[i] = c[j] PROVE i = j
  <2>1. CASE i \in DOMAIN s /\ c[i] = s[i]
    <3>1. j \in DOMAIN s /\ c[j] = s[j]
      BY <1>2, <1>5, <2>1 DEF ToSet
    <3> QED BY <1>5, <2>1, <3>1 DEF Once
  <2>2. CASE i - Len(s) \in DOMAIN t /\ i > Len(s) /\ c[i] = t[i - Len(s)]
    <3>1. j - Len(s) \in DOMAIN t /\ j > Len(s) /\ c[j] = t[j - Len(s)]
      BY <1>2, <1>5, <2>2 DEF ToSet
    <3>2. i - Len(s) = j - Len(s)
      BY <1>5, <2>2, <3>1 DEF Once
    <3> QED BY <1>1, <3>2
  <2> QED BY <1>2, <2>1, <2>2
<1> QED BY <1>1, <1>4, <1>5 DEF Once, c

LEMMA OneOnce ==
    ASSUME NEW T, NEW u \in T
    PROVE  <<u>> \in Seq(T) /\ Once(<<u>>) /\ ToSet(<<u>>) = {u}
  BY DEF Once, ToSet

LEMMA TailOnce ==
    ASSUME NEW T, NEW s \in Seq(T), Once(s), s # <<>>
    PROVE  /\ Head(s) \in ToSet(s) /\ Head(s) \in T
           /\ Tail(s) \in Seq(T) /\ Once(Tail(s)) /\ ToSet(Tail(s)) = ToSet(s) \ {Head(s)}
<1> DEFINE t == Tail(s)
<1>1. /\ Len(s) \in Nat /\ Len(s) # 0 /\ DOMAIN s = 1 .. Len(s) /\ Head(s) = s[1] /\ Head(s) \in T
      /\ t \in Seq(T) /\ Len(t) = Len(s) - 1 /\ DOMAIN t = 1 .. Len(t)
      /\ \A i \in 1 .. Len(t) : t[i] = s[i + 1]
  BY LenProperties, HeadTailProperties, EmptySeq
<1> HIDE DEF t
<1>2. \A i \in DOMAIN t : i + 1 \in DOMAIN s /\ i + 1 # 1 /\ t[i] = s[i + 1]
  BY <1>1
<1>3. \A i \in DOMAIN s : i # 1 => i - 1 \in DOMAIN t /\ t[i - 1] = s[i]
  BY <1>1
<1>4. 1 \in DOMAIN s
  BY <1>1
<1>5. Once(t)
  <2> SUFFICES ASSUME NEW i \in DOMAIN t, NEW j \in DOMAIN t, t[i] = t[j] PROVE i = j
    BY DEF Once
  <2>1. i + 1 = j + 1
    BY <1>2 DEF Once
  <2> QED BY <1>1, <2>1
<1>6. ToSet(t) = ToSet(s) \ {s[1]}
  <2>1. ASSUME NEW i \in DOMAIN t PROVE t[i] \in ToSet(s) \ {s[1]}
    BY <1>2, <1>4 DEF Once, ToSet
  <2>2. ASSUME NEW x \in ToSet(s), x # s[1] PROVE x \in ToSet(t)
    BY <1>3, <2>2 DEF ToSet
  <2> QED BY <2>1, <2>2 DEF ToSet
<1> QED BY <1>1, <1>4, <1>5, <1>6 DEF t, ToSet

LEMMA SublistFacts ==
    ASSUME NEW T, NEW s \in Seq(T), Once(s), NEW S \in SUBSET ToSet(s), NEW q \in Sublists(s, S)
    PROVE  q \in Seq(T) /\ Once(q) /\ ToSet(q) = S
<1>1. Len(s) \in Nat /\ DOMAIN s = 1 .. Len(s) /\ \A i \in DOMAIN s : s[i] \in T
  BY LenProperties, ElementOfSeq
<1>2. IsFiniteSet(ToSet(s))
  <2>1. s \in Surjection(1 .. Len(s), ToSet(s))
    BY <1>1 DEF Surjection, ToSet
  <2>2. IsFiniteSet(1 .. Len(s))
    BY <1>1, FS_Interval
  <2> QED BY <2>1, <2>2, FS_Surjection
<1>3. Cardinality(S) \in Nat
  BY <1>2, FS_Subset, FS_CardinalityType
<1>4. S \subseteq T
  BY <1>1 DEF ToSet
<1> DEFINE n == Cardinality(S)
<1>5. /\ q \in [1 .. n -> S] /\ ToSet(q) = S
      /\ \A i, j \in DOMAIN q : i < j =>
             \E a, b \in DOMAIN s : a < b /\ s[a] = q[i] /\ s[b] = q[j]
  BY DEF Sublists
<1> HIDE DEF n
<1>6. q \in Seq(T)
  BY <1>3, <1>4, <1>5, IsASeq DEF n
<1>7. ASSUME NEW i \in DOMAIN q, NEW j \in DOMAIN q, i < j, q[i] = q[j] PROVE FALSE
  <2>1. PICK a \in DOMAIN s, b \in DOMAIN s : a < b /\ s[a] = q[i] /\ s[b] = q[j]
    BY <1>5, <1>7
  <2>2. a = b BY <1>7, <2>1 DEF Once
  <2> QED BY <1>1, <2>1, <2>2
<1>8. \A i, j \in DOMAIN q : i = j \/ i < j \/ j < i
  BY <1>3, <1>5 DEF n
<1> QED BY <1>5, <1>6, <1>7, <1>8 DEF Once
----------------------------------------------------------------------------
(* A cycle's marks *)

LEMMA WhiteFacts ==
    ASSUME GCType
    PROVE  /\ OtherWhite \in White /\ OtherWhite # currentwhite
           /\ \A w \in White : w = currentwhite \/ w = OtherWhite
           /\ "gray" \notin White /\ "black" \notin White
  BY DEF GCType, White, OtherWhite

\* To mark something does no harm at any time.
LEMMA MarkColoured ==
    ASSUME GCType, Shape, NEW mm \in Marks, NEW P, Coloured(mm, P), NEW S, NEW M, M = Mark(mm, S)
    PROVE  Coloured(M, P)
<1>1. /\ M \in Marks
      /\ M.grayagain = mm.grayagain /\ M.weak = mm.weak
      /\ \A o \in mm.gray : o \in M.gray
      /\ \A o \in M.gray \ mm.gray : kind[o] \in Listed
      /\ \A o \in All : mm.marked[o] \notin White => M.marked[o] = mm.marked[o]
      /\ \A o \in All : M.marked[o] \in White => M.marked[o] = mm.marked[o]
      /\ \A o \in S \cap All : M.marked[o] \notin White
      /\ \A o \in All : mm.marked[o] \in White /\ M.marked[o] \notin White =>
             /\ M.marked[o] = ColourMarked(o)
             /\ kind[o] \in Listed => o \in M.gray
             /\ kind[o] \in Userdata \cup {"upval"} =>
                    \A x \in Children(o) : M.marked[x] \notin White
  BY MarkFacts
<1>2. alloc \subseteq All /\ kind \in [All -> Kinds]
  BY DEF GCType
<1>3. ListsTyped(M)
  BY <1>1 DEF Coloured, ListsTyped
<1>4. ASSUME NEW o \in All \ P, openOf[o] # Nil PROVE M.marked[o] # "black"
  <2>1. kind[o] = "upval" BY <1>4 DEF Shape
  <2>2. ColourMarked(o) # "black" BY <1>4, <2>1 DEF ColourMarked, Userdata
  <2>3. mm.marked[o] # "black" BY <1>4 DEF Coloured
  <2> QED BY <1>1, <2>2, <2>3 DEF White
<1>5. ASSUME NEW o \in alloc PROVE M.marked[o] # OtherWhite
  BY <1>1, <1>2, WhiteFacts DEF Coloured
<1>6. ASSUME NEW o \in alloc, kind[o] = "thread" \/ IsWeak(o) PROVE M.marked[o] # "black"
  <2>1. kind[o] \notin Userdata \cup {"upval"}
    BY <1>6 DEF IsWeak, WeakKey, WeakValue, Userdata
  <2>2. ColourMarked(o) # "black" BY <2>1 DEF ColourMarked
  <2>3. mm.marked[o] # "black" BY <1>6 DEF Coloured
  <2> QED BY <1>1, <1>2, <2>2, <2>3 DEF White
<1>7. ASSUME NEW o \in alloc \ P, M.marked[o] = "gray"
      PROVE  kind[o] = "string" \/ openOf[o] # Nil \/ o \in M.gray \cup M.grayagain \cup M.weak
  <2>1. CASE mm.marked[o] \notin White
    BY <1>1, <1>2, <1>7, <2>1 DEF Coloured
  <2>2. CASE mm.marked[o] \in White
    <3>1. ColourMarked(o) = "gray" /\ (kind[o] \in Listed => o \in M.gray)
      BY <1>1, <1>2, <1>7, <2>2, WhiteFacts
    <3>2. kind[o] \notin Userdata /\ (kind[o] = "upval" => openOf[o] # Nil)
      BY <3>1 DEF ColourMarked
    <3>3. kind[o] # "unused" BY DEF Shape
    <3> QED BY <1>2, <3>1, <3>2, <3>3 DEF Kinds, Listed
  <2> QED BY <2>1, <2>2
<1>8. ASSUME NEW o \in alloc \ P, M.marked[o] = "black", NEW x \in Children(o)
      PROVE  M.marked[x] \notin White
  <2>1. x \in All BY <1>2, ChildrenTyped
  <2>2. CASE mm.marked[o] \notin White
    <3>1. mm.marked[x] \notin White BY <1>1, <1>2, <1>8, <2>2 DEF Coloured
    <3> QED BY <1>1, <2>1, <3>1
  <2>3. CASE mm.marked[o] \in White
    <3>1. ColourMarked(o) = "black" BY <1>1, <1>2, <1>8, <2>3, WhiteFacts
    <3>2. kind[o] \in Userdata \cup {"upval"} BY <3>1 DEF ColourMarked
    <3> QED BY <1>1, <1>2, <1>8, <2>3, <3>2, WhiteFacts
  <2> QED BY <2>2, <2>3
<1> QED BY <1>3, <1>4, <1>5, <1>6, <1>7, <1>8 DEF Coloured

\* So may an object that is gray be traversed.
LEMMA TraverseColoured ==
    ASSUME GCType, Shape, NEW mm \in Marks, NEW P, Coloured(mm, P), mm.marked[Main] \notin White,
           NEW o \in mm.gray, o \notin P, NEW M, M = Traverse(mm, {o})
    PROVE  Coloured(M, P) /\ M \in Marks /\ M.marked[Main] \notin White
<1> DEFINE n == Recoloured(mm, {o})
           S == UNION {Children(p) : p \in {o}}
<1>1. o \in All /\ {o} \in SUBSET All /\ alloc \subseteq All /\ kind \in [All -> Kinds] /\ Main \in All
  BY DEF Marks, GCType, All
<1>2. /\ n \in Marks /\ M = Mark(n, S)
      /\ n.gray = mm.gray \ {o}
      /\ n.grayagain = mm.grayagain \cup {p \in {o} : kind[p] = "thread"}
      /\ n.weak = mm.weak \cup {p \in {o} : IsWeak(p)}
      /\ \A p \in {o} : n.marked[p] = ColourTraversed(p)
      /\ \A p \in All \ {o} : n.marked[p] = mm.marked[p]
      /\ \A p : ColourTraversed(p) \in {"gray", "black"}
  <2> DEFINE V == {o}
  <2>1. V \in SUBSET All /\ n = Recoloured(mm, V) /\ S = UNION {Children(p) : p \in V}
        /\ M = Traverse(mm, V)
    BY <1>1
  <2> HIDE DEF V, n, S
  <2>2. /\ n \in Marks /\ M = Mark(n, S)
        /\ n.gray = mm.gray \ V
        /\ n.grayagain = mm.grayagain \cup {p \in V : kind[p] = "thread"}
        /\ n.weak = mm.weak \cup {p \in V : IsWeak(p)}
        /\ \A p \in V : n.marked[p] = ColourTraversed(p)
        /\ \A p \in All \ V : n.marked[p] = mm.marked[p]
        /\ \A p : ColourTraversed(p) \in {"gray", "black"}
    BY <2>1, RecolouredFacts
  <2> QED BY <2>2 DEF V
<1>3. S = Children(o) OBVIOUS
<1> HIDE DEF n, S
<1>4. kind[o] \in Listed /\ openOf[o] = Nil
  BY <1>1 DEF Coloured, ListsTyped, Shape, Listed, Tables
<1>5. \A p \in All : mm.marked[p] \notin White => n.marked[p] \notin White
  BY <1>2, WhiteFacts
<1>6. Coloured(n, P \cup {o})
  <2>1. ListsTyped(n)
    BY <1>2, <1>4 DEF Coloured, ListsTyped
  <2>2. \A p \in All \ (P \cup {o}) : openOf[p] # Nil => n.marked[p] # "black"
    BY <1>2 DEF Coloured
  <2>3. \A p \in alloc : n.marked[p] # OtherWhite
    BY <1>1, <1>2, WhiteFacts DEF Coloured
  <2>4. \A p \in alloc : kind[p] = "thread" \/ IsWeak(p) => n.marked[p] # "black"
    BY <1>1, <1>2 DEF Coloured, ColourTraversed
  <2>5. \A p \in alloc \ (P \cup {o}) : n.marked[p] = "gray" =>
            kind[p] = "string" \/ openOf[p] # Nil \/ p \in n.gray \cup n.grayagain \cup n.weak
    BY <1>1, <1>2 DEF Coloured
  <2>6. ASSUME NEW p \in alloc \ (P \cup {o}), n.marked[p] = "black", NEW x \in Children(p)
        PROVE  n.marked[x] \notin White
    <3>1. x \in All BY <1>1, ChildrenTyped
    <3>2. mm.marked[p] = "black" BY <1>1, <1>2, <2>6
    <3> QED BY <1>5, <3>1, <3>2 DEF Coloured
  <2> QED BY <2>1, <2>2, <2>3, <2>4, <2>5, <2>6 DEF Coloured
<1>7. Coloured(M, P \cup {o})
  <2> DEFINE Q == P \cup {o}
  <2>1. Coloured(n, Q) BY <1>6
  <2> HIDE DEF Q
  <2>2. Coloured(M, Q) BY <1>2, <2>1, MarkColoured
  <2> QED BY <2>2 DEF Q
<1>8. /\ M \in Marks /\ M.grayagain = n.grayagain /\ M.weak = n.weak
      /\ \A p \in All : n.marked[p] \notin White => M.marked[p] = n.marked[p]
      /\ \A p \in S \cap All : M.marked[p] \notin White
  <2>1. n \in Marks /\ M = Mark(n, S) BY <1>2
  <2>2. M \in Marks /\ M.grayagain = n.grayagain /\ M.weak = n.weak BY <2>1, MarkFacts
  <2>3. \A p \in All : n.marked[p] \notin White => M.marked[p] = n.marked[p] BY <2>1, MarkFacts
  <2>4. \A p \in S \cap All : M.marked[p] \notin White BY <2>1, MarkFacts
  <2> QED BY <2>2, <2>3, <2>4
<1>9. M.marked[o] = ColourTraversed(o)
  BY <1>1, <1>2, <1>8, WhiteFacts
<1>10. M.marked[o] = "gray" => o \in M.grayagain \cup M.weak
  BY <1>2, <1>8, <1>9 DEF ColourTraversed
<1>11. \A x \in Children(o) : M.marked[x] \notin White
  BY <1>1, <1>3, <1>8, ChildrenTyped
<1>12. Coloured(M, P)
  BY <1>4, <1>7, <1>10, <1>11 DEF Coloured
<1>13. M.marked[Main] \notin White
  BY <1>1, <1>2, <1>5, <1>8
<1> QED BY <1>8, <1>12, <1>13
----------------------------------------------------------------------------
(* The end of a cycle: atomic *)

\* Of what is marked, only the gray objects and those of P may lead to a white
\* one, and only they may be weak tables that are on no list yet.
Good(mm, P) ==
    /\ ListsTyped(mm) /\ OpensNotBlack(mm)
    /\ \A o \in All : mm.marked[o] \notin White /\ o \notin mm.gray \cup P =>
           \A x \in Children(o) : mm.marked[x] \notin White
    /\ \A o \in alloc : IsWeak(o) /\ mm.marked[o] \notin White => o \in mm.gray \cup mm.weak \cup P

LEMMA MarkGood ==
    ASSUME GCType, Shape, NEW mm \in Marks, NEW P, Good(mm, P), NEW S, NEW M, M = Mark(mm, S)
    PROVE  /\ M \in Marks /\ Good(M, P) /\ Grown(mm, M)
           /\ \A o \in S \cap All : M.marked[o] \notin White
           /\ M.grayagain = mm.grayagain /\ M.weak = mm.weak
           /\ \A o \in mm.gray : o \in M.gray
<1>1. /\ M \in Marks
      /\ M.grayagain = mm.grayagain /\ M.weak = mm.weak
      /\ \A o \in mm.gray : o \in M.gray
      /\ \A o \in M.gray \ mm.gray : kind[o] \in Listed
      /\ \A o \in All : mm.marked[o] \notin White => M.marked[o] = mm.marked[o]
      /\ \A o \in All : M.marked[o] \in White => M.marked[o] = mm.marked[o]
      /\ \A o \in S \cap All : M.marked[o] \notin White
      /\ \A o \in All : mm.marked[o] \in White /\ M.marked[o] \notin White =>
             /\ M.marked[o] = ColourMarked(o)
             /\ kind[o] \in Listed => o \in M.gray
             /\ kind[o] \in Userdata \cup {"upval"} =>
                    \A x \in Children(o) : M.marked[x] \notin White
  BY MarkFacts
<1>2. alloc \subseteq All /\ kind \in [All -> Kinds]
  BY DEF GCType
<1>3. ListsTyped(M)
  BY <1>1 DEF Good, ListsTyped
<1>4. OpensNotBlack(M)
  <2> SUFFICES ASSUME NEW o \in All, openOf[o] # Nil PROVE M.marked[o] # "black"
    BY DEF OpensNotBlack
  <2>1. kind[o] = "upval" BY DEF Shape
  <2>2. ColourMarked(o) # "black" BY <2>1 DEF ColourMarked, Userdata
  <2>3. mm.marked[o] # "black" BY DEF Good, OpensNotBlack
  <2> QED BY <1>1, <2>2, <2>3 DEF White
<1>5. ASSUME NEW o \in All, M.marked[o] \notin White, o \notin M.gray \cup P, NEW x \in Children(o)
      PROVE  M.marked[x] \notin White
  <2>1. x \in All BY ChildrenTyped
  <2>2. CASE mm.marked[o] \notin White
    <3>1. mm.marked[x] \notin White BY <1>1, <1>5, <2>2 DEF Good
    <3> QED BY <1>1, <2>1, <3>1
  <2>3. CASE mm.marked[o] \in White
    <3>1. kind[o] \notin Listed BY <1>1, <1>5, <2>3
    <3>2. kind[o] \notin {"string", "unused"} BY DEF Shape, Children, GCType, All, Tables
    <3>3. kind[o] \in Userdata \cup {"upval"} BY <1>2, <3>1, <3>2 DEF Kinds, Listed
    <3> QED BY <1>1, <1>5, <2>3, <3>3
  <2> QED BY <2>2, <2>3
<1>6. ASSUME NEW o \in alloc, IsWeak(o), M.marked[o] \notin White PROVE o \in M.gray \cup M.weak \cup P
  <2>1. kind[o] \in Listed
    BY <1>6 DEF IsWeak, WeakKey, WeakValue, Listed, Tables
  <2> QED BY <1>1, <1>2, <1>6, <2>1 DEF Good
<1>7. Grown(mm, M)
  BY <1>1 DEF Grown
<1> QED BY <1>1, <1>3, <1>4, <1>5, <1>6, <1>7 DEF Good

LEMMA PropagateGood ==
    ASSUME GCType, Shape, NEW mm \in Marks, NEW P, Good(mm, P), NEW M, M = PropagateAll(mm)
    PROVE  /\ M \in Marks /\ Good(M, P) /\ Grown(mm, M)
           /\ M.gray = {}
           /\ \A o \in M.grayagain \ mm.grayagain : kind[o] = "thread"
           /\ \A o \in mm.grayagain : o \in M.grayagain
           /\ \A o \in mm.weak : o \in M.weak
<1>1. ListsTyped(mm) /\ OpensNotBlack(mm)
  BY DEF Good
<1>2. /\ M \in Marks /\ ListsTyped(M) /\ OpensNotBlack(M)
      /\ M.gray = {} /\ Grown(mm, M)
      /\ \A o \in M.grayagain \ mm.grayagain : kind[o] = "thread"
      /\ \A o \in mm.grayagain : o \in M.grayagain
      /\ \A o \in mm.weak : o \in M.weak
      /\ \A o \in mm.gray : IsWeak(o) => o \in M.weak
      /\ \A o \in All : (mm.marked[o] \in White /\ M.marked[o] \notin White) \/ o \in mm.gray =>
             /\ \A x \in Children(o) : M.marked[x] \notin White
             /\ IsWeak(o) => o \in M.weak
  BY <1>1, PropagateFacts
<1>3. ASSUME NEW o \in All, M.marked[o] \notin White, o \notin M.gray \cup P, NEW x \in Children(o)
      PROVE  M.marked[x] \notin White
  <2>1. x \in All BY ChildrenTyped
  <2>2. CASE mm.marked[o] \notin White /\ o \notin mm.gray
    <3>1. mm.marked[x] \notin White BY <1>3, <2>2 DEF Good
    <3> QED BY <1>2, <2>1, <3>1 DEF Grown
  <2> QED BY <1>2, <1>3, <2>2
<1>4. ASSUME NEW o \in alloc, IsWeak(o), M.marked[o] \notin White PROVE o \in M.gray \cup M.weak \cup P
  <2>1. o \in All BY DEF GCType
  <2> QED BY <1>2, <1>4, <2>1 DEF Good
<1> QED BY <1>2, <1>3, <1>4 DEF Good

\* What atomic starts with.
LEMMA ColouredGood ==
    ASSUME GCType, Shape, NEW mm \in Marks, NEW P, Coloured(mm, P), mm.gray = {},
           \A o \in P : kind[o] \in Userdata
    PROVE  Good(mm, P \cup mm.grayagain \cup mm.weak \cup
                    {u \in alloc : openOf[u] # Nil /\ mm.marked[u] = "gray"})
<1> DEFINE Q == P \cup mm.grayagain \cup mm.weak \cup
                {u \in alloc : openOf[u] # Nil /\ mm.marked[u] = "gray"}
<1>1. alloc \subseteq All /\ mm.marked \in [All -> Colours]
  BY DEF GCType, Marks
<1>2. ASSUME NEW o \in All, mm.marked[o] \notin White, o \notin mm.gray \cup Q, NEW x \in Children(o)
      PROVE  mm.marked[x] \notin White
  <2>1. mm.marked[o] = "gray" \/ mm.marked[o] = "black"
    BY <1>1, <1>2 DEF Colours
  <2>2. o \in alloc /\ kind[o] # "string"
    BY <1>2, HoldsNothing, ChildrenTyped
  <2>3. mm.marked[o] # "gray"
    BY <1>2, <2>2 DEF Coloured
  <2> QED BY <1>2, <2>1, <2>2, <2>3 DEF Coloured
<1>3. ASSUME NEW o \in alloc, IsWeak(o), mm.marked[o] \notin White
      PROVE  o \in mm.gray \cup mm.weak \cup Q
  <2>1. mm.marked[o] = "gray"
    BY <1>1, <1>3 DEF Coloured, Colours
  <2>2. kind[o] # "string" /\ openOf[o] = Nil
    BY <1>1, <1>3 DEF Shape, IsWeak, WeakKey, WeakValue
  <2> QED BY <2>1, <2>2 DEF Coloured
<1>4. ListsTyped(mm) /\ OpensNotBlack(mm)
  BY DEF Coloured, OpensNotBlack, Shape, Userdata
<1> HIDE DEF Q
<1>5. Good(mm, Q)
  BY <1>2, <1>3, <1>4 DEF Good
<1> QED BY <1>5 DEF Q
\* Another list of gray objects, in place of the list weak or grayagain.
LEMMA ResetFacts ==
    ASSUME NEW mm \in Marks, NEW g \in SUBSET All
    PROVE  /\ LET n == [mm EXCEPT !.gray = g, !.weak = {}]
              IN  /\ n \in Marks /\ n.gray = g /\ n.weak = {} /\ n.grayagain = mm.grayagain
                  /\ n.marked = mm.marked
           /\ LET n == [mm EXCEPT !.gray = g, !.grayagain = {}]
              IN  /\ n \in Marks /\ n.gray = g /\ n.weak = mm.weak /\ n.grayagain = {}
                  /\ n.marked = mm.marked
  BY DEF Marks

\* remarkupvals, the weak tables, the running thread, the threads and tables caught
\* by barriers: after these only the userdata to be finalized may lead to white.
LEMMA RemarkedGood ==
    ASSUME GCType, Shape, NEW P, Coloured(m, P), \A o \in P : kind[o] \in Userdata,
           m.gray = {}, NEW L, NEW M, M = Remarked(L)
    PROVE  /\ M \in Marks /\ Good(M, P) /\ Grown(m, M)
           /\ M.gray = {} /\ \A o \in M.grayagain : kind[o] = "thread"
<1> DEFINE U == {u \in alloc : openOf[u] # Nil /\ m.marked[u] = "gray"}
           V == {val[uv] : uv \in U}
           P1 == P \cup m.grayagain \cup m.weak \cup U
           P2 == P \cup m.grayagain \cup m.weak
           P3 == P \cup m.grayagain
           x1 == Mark(m, V)
           m1 == PropagateAll(x1)
           n1 == [m1 EXCEPT !.gray = m1.weak, !.weak = {}]
           x2 == Mark(n1, {L})
           m2 == PropagateAll(x2)
           n2 == [m2 EXCEPT !.gray = m2.grayagain, !.grayagain = {}]
<1>1. m \in Marks /\ alloc \subseteq All
  BY DEF GCType
<1>2. Good(m, P1)
  BY <1>1, ColouredGood
<1>3. M = PropagateAll(n2)
  BY DEF Remarked
<1>4. \A u \in U : Children(u) \subseteq V /\ u \notin m.gray
  <2> SUFFICES ASSUME NEW u \in U PROVE Children(u) \subseteq V /\ u \notin m.gray
    OBVIOUS
  <2>1. u \in All /\ kind[u] = "upval" BY <1>1 DEF Shape
  <2> QED BY <2>1 DEF Children, Tables
<1> HIDE DEF V, P1
<1>5. /\ x1 \in Marks /\ Good(x1, P1) /\ Grown(m, x1)
      /\ \A o \in V \cap All : x1.marked[o] \notin White
      /\ x1.grayagain = m.grayagain /\ x1.weak = m.weak
      /\ \A o \in m.gray : o \in x1.gray
  BY <1>1, <1>2, MarkGood
<1> HIDE DEF x1
<1>6. Good(x1, P2)
  <2>1. ASSUME NEW o \in All, x1.marked[o] \notin White, o \notin x1.gray \cup P2, NEW x \in Children(o)
        PROVE  x1.marked[x] \notin White
    <3>1. CASE o \in U
      BY <1>4, <1>5, <2>1, <3>1, ChildrenTyped
    <3>2. CASE o \notin U
      BY <1>5, <2>1, <3>2 DEF Good, P1
    <3> QED BY <3>1, <3>2
  <2>2. ASSUME NEW o \in alloc, IsWeak(o), x1.marked[o] \notin White
        PROVE  o \in x1.gray \cup x1.weak \cup P2
    <3>1. o \notin U
      BY <1>1, <2>2 DEF Shape, IsWeak, WeakKey, WeakValue
    <3> QED BY <1>5, <2>2, <3>1 DEF Good, P1
  <2>3. ListsTyped(x1) /\ OpensNotBlack(x1)
    BY <1>5 DEF Good
  <2> HIDE DEF P2
  <2> QED BY <2>1, <2>2, <2>3 DEF Good
<1> HIDE DEF U, P2
<1>7. /\ m1 \in Marks /\ Good(m1, P2) /\ Grown(x1, m1)
      /\ m1.gray = {}
      /\ \A o \in x1.grayagain : o \in m1.grayagain
      /\ \A o \in x1.weak : o \in m1.weak
  BY <1>5, <1>6, PropagateGood
<1> HIDE DEF m1
<1>8. /\ n1 \in Marks /\ n1.gray = m1.weak /\ n1.weak = {} /\ n1.grayagain = m1.grayagain
      /\ n1.marked = m1.marked
  <2>1. m1.weak \in SUBSET All BY <1>7 DEF Marks
  <2> QED BY <1>7, <2>1, ResetFacts
<1> HIDE DEF n1
<1>9. Good(n1, P3)
  <2>1. \A o \in P2 : o \in n1.gray \/ o \in P3
    BY <1>5, <1>7, <1>8 DEF P2
  <2>2. ASSUME NEW o \in All, n1.marked[o] \notin White, o \notin n1.gray \cup P3, NEW x \in Children(o)
        PROVE  n1.marked[x] \notin White
    BY <1>7, <1>8, <2>1, <2>2 DEF Good
  <2>3. ASSUME NEW o \in alloc, IsWeak(o), n1.marked[o] \notin White
        PROVE  o \in n1.gray \cup n1.weak \cup P3
    BY <1>7, <1>8, <2>1, <2>3 DEF Good
  <2>4. ListsTyped(n1) /\ OpensNotBlack(n1)
    BY <1>7, <1>8 DEF Good, ListsTyped, OpensNotBlack
  <2> HIDE DEF P3
  <2> QED BY <2>2, <2>3, <2>4 DEF Good
<1>10. /\ x2 \in Marks /\ Good(x2, P3) /\ Grown(n1, x2) /\ x2.grayagain = n1.grayagain
  <2> HIDE DEF P3
  <2> QED BY <1>8, <1>9, MarkGood
<1> HIDE DEF x2
<1>11. /\ m2 \in Marks /\ Good(m2, P3) /\ Grown(x2, m2)
       /\ m2.gray = {}
       /\ \A o \in x2.grayagain : o \in m2.grayagain
  <2> HIDE DEF P3
  <2> QED BY <1>10, PropagateGood
<1> HIDE DEF m2
<1>12. /\ n2 \in Marks /\ n2.gray = m2.grayagain /\ n2.weak = m2.weak /\ n2.grayagain = {}
       /\ n2.marked = m2.marked
  <2>1. m2.grayagain \in SUBSET All BY <1>11 DEF Marks
  <2> QED BY <1>11, <2>1, ResetFacts
<1> HIDE DEF n2
<1>13. Good(n2, P)
  <2>1. \A o \in P3 : o \in n2.gray \/ o \in P
    BY <1>5, <1>7, <1>8, <1>10, <1>11, <1>12 DEF P3
  <2>2. ASSUME NEW o \in All, n2.marked[o] \notin White, o \notin n2.gray \cup P, NEW x \in Children(o)
        PROVE  n2.marked[x] \notin White
    BY <1>11, <1>12, <2>1, <2>2 DEF Good
  <2>3. ASSUME NEW o \in alloc, IsWeak(o), n2.marked[o] \notin White
        PROVE  o \in n2.gray \cup n2.weak \cup P
    BY <1>11, <1>12, <2>1, <2>3 DEF Good
  <2>4. ListsTyped(n2) /\ OpensNotBlack(n2)
    BY <1>11, <1>12 DEF Good, ListsTyped, OpensNotBlack
  <2> QED BY <2>2, <2>3, <2>4 DEF Good
<1>14. /\ M \in Marks /\ Good(M, P) /\ Grown(n2, M)
       /\ M.gray = {} /\ \A o \in M.grayagain \ n2.grayagain : kind[o] = "thread"
  BY <1>3, <1>12, <1>13, PropagateGood
<1>15. Grown(m, M)
  BY <1>5, <1>7, <1>8, <1>10, <1>11, <1>12, <1>14 DEF Grown
<1> QED BY <1>12, <1>14, <1>15
\* marktmu: then nothing that is marked leads to white.  Where no userdata to be
\* finalized leads anywhere, only these get marked.
LEMMA PreservedGood ==
    ASSUME GCType, Shape, NEW mm \in Marks, NEW P, NEW tm \in SUBSET All, P \subseteq tm,
           Good(mm, P), mm.gray = {}, \A o \in tm : kind[o] \in Userdata,
           NEW M, M = MarkPreserved(mm, tm)
    PROVE  /\ M \in Marks /\ ListsTyped(M) /\ OpensNotBlack(M)
           /\ \A o \in All : M.marked[o] \notin White => \A x \in Children(o) : M.marked[x] \notin White
           /\ \A o \in alloc : IsWeak(o) /\ M.marked[o] \notin White => o \in M.weak
           /\ \A o \in tm : M.marked[o] \notin White
           /\ \A o \in All : mm.marked[o] \notin White => M.marked[o] \notin White
           /\ \A o \in All : M.marked[o] \in White => M.marked[o] = mm.marked[o]
           /\ (\A o \in tm : Children(o) = {}) =>
                  \A o \in All : M.marked[o] \notin White => mm.marked[o] \notin White \/ o \in tm
<1> DEFINE n == [mm EXCEPT !.marked = [o \in All |-> IF o \in tm THEN currentwhite ELSE @[o]]]
           y == Mark(n, tm)
           E == {}
<1>1. /\ mm.marked \in [All -> Colours]
      /\ mm.gray \in SUBSET All /\ mm.grayagain \in SUBSET All /\ mm.weak \in SUBSET All
      /\ mm = [marked |-> mm.marked, gray |-> mm.gray, grayagain |-> mm.grayagain, weak |-> mm.weak]
      /\ currentwhite \in White /\ currentwhite \in Colours
      /\ alloc \subseteq All /\ kind \in [All -> Kinds]
  BY DEF Marks, GCType, Colours
<1>2. M = PropagateAll(y)
  BY DEF MarkPreserved
<1>3. /\ n.marked = [o \in All |-> IF o \in tm THEN currentwhite ELSE mm.marked[o]]
      /\ n.gray = {} /\ n.grayagain = mm.grayagain /\ n.weak = mm.weak
      /\ n = [marked |-> n.marked, gray |-> n.gray, grayagain |-> n.grayagain, weak |-> n.weak]
  BY <1>1
<1> HIDE DEF n
<1>4. n \in Marks
  BY <1>1, <1>3 DEF Marks
<1>5. /\ y \in Marks
      /\ y.grayagain = n.grayagain /\ y.weak = n.weak
      /\ \A o \in y.gray \ n.gray : kind[o] \in Listed
      /\ \A o \in All : n.marked[o] \notin White => y.marked[o] = n.marked[o]
      /\ \A o \in All : y.marked[o] \in White => y.marked[o] = n.marked[o]
      /\ \A o \in tm \cap All : y.marked[o] \notin White
      /\ \A o \in All : n.marked[o] \in White /\ y.marked[o] \notin White =>
             /\ y.marked[o] = ColourMarked(o)
             /\ kind[o] \in Listed => o \in y.gray
             /\ kind[o] \in Userdata \cup {"upval"} =>
                    \A x \in Children(o) : y.marked[x] \notin White
  BY <1>4, MarkFacts
<1>6. (\A o \in tm : Children(o) = {}) =>
          /\ \A o \in All : n.marked[o] \in White /\ y.marked[o] \notin White => o \in tm
          /\ \A o \in y.gray \ n.gray : o \in tm /\ kind[o] \in Listed
  <2> SUFFICES ASSUME \A o \in tm : Children(o) = {}
               PROVE  /\ \A o \in All : n.marked[o] \in White /\ y.marked[o] \notin White => o \in tm
                      /\ \A o \in y.gray \ n.gray : o \in tm /\ kind[o] \in Listed
    OBVIOUS
  <2>1. /\ \A o \in tm : o \in All /\ n.marked[o] \in White
        /\ \A o \in tm \cap All : n.marked[o] \in White => o \in tm
        /\ \A o \in tm : kind[o] \in Userdata \cup {"upval"} =>
               \A x \in Children(o) : n.marked[x] \in White => x \in tm
    BY <1>1, <1>3
  <2> QED BY <1>4, <2>1, MarkLeast
<1> HIDE DEF y
<1>7. \A o \in All \ tm : n.marked[o] = mm.marked[o]
  BY <1>3
<1>8. \A o \in tm : o \notin P => n.marked[o] \in White
  BY <1>1, <1>3
<1>9. \A o \in tm : n.marked[o] \in White
  BY <1>1, <1>3
<1>10. Good(y, E)
  <2>1. ASSUME NEW o \in All, y.marked[o] \notin White, o \notin y.gray, NEW x \in Children(o)
        PROVE  y.marked[x] \notin White
    <3>1. x \in All BY ChildrenTyped
    <3>2. CASE n.marked[o] \notin White
      <4>1. o \notin tm /\ mm.marked[o] \notin White BY <1>7, <1>9, <3>2
      <4>2. mm.marked[x] \notin White BY <4>1, <2>1 DEF Good
      <4> QED BY <1>5, <1>7, <3>1, <4>2
    <3>3. CASE n.marked[o] \in White
      <4>1. kind[o] \notin Listed BY <1>5, <2>1, <3>3
      <4>2. kind[o] \notin {"string", "unused"} BY <2>1, HoldsNothing, ChildrenTyped
      <4>3. kind[o] \in Userdata \cup {"upval"} BY <1>1, <4>1, <4>2 DEF Kinds, Listed
      <4> QED BY <1>5, <2>1, <3>3, <4>3
    <3> QED BY <3>2, <3>3
  <2>2. ASSUME NEW o \in alloc, IsWeak(o), y.marked[o] \notin White
        PROVE  o \in y.gray \cup y.weak
    <3>1. kind[o] \in Listed /\ o \in All /\ o \notin tm
      BY <1>1, <2>2 DEF IsWeak, WeakKey, WeakValue, Listed, Tables, Userdata
    <3>2. CASE n.marked[o] \notin White
      <4>1. mm.marked[o] \notin White BY <1>7, <3>1, <3>2
      <4> QED BY <1>3, <1>5, <2>2, <3>1, <4>1 DEF Good
    <3> QED BY <1>5, <2>2, <3>1, <3>2
  <2>3. ListsTyped(y)
    BY <1>3, <1>5 DEF Good, ListsTyped
  <2>4. OpensNotBlack(y)
    <3> SUFFICES ASSUME NEW o \in All, openOf[o] # Nil PROVE y.marked[o] # "black"
      BY DEF OpensNotBlack
    <3>1. kind[o] = "upval" BY DEF Shape
    <3>2. ColourMarked(o) # "black" BY <3>1 DEF ColourMarked, Userdata
    <3>3. o \notin tm /\ mm.marked[o] # "black" BY <3>1 DEF Good, OpensNotBlack, Userdata
    <3> QED BY <1>5, <1>7, <3>2, <3>3 DEF White
  <2> QED BY <2>1, <2>2, <2>3, <2>4 DEF Good
<1>11. /\ M \in Marks /\ Good(M, E) /\ Grown(y, M) /\ M.gray = {}
  <2> HIDE DEF E
  <2> QED BY <1>2, <1>5, <1>10, PropagateGood
<1>12. ListsTyped(M) /\ OpensNotBlack(M)
  BY <1>11 DEF Good
<1>13. ASSUME NEW o \in All, mm.marked[o] \notin White PROVE M.marked[o] \notin White
  BY <1>5, <1>7, <1>11, <1>13 DEF Grown
<1>14. ASSUME NEW o \in All, M.marked[o] \in White PROVE M.marked[o] = mm.marked[o]
  <2>1. y.marked[o] \in White /\ M.marked[o] = y.marked[o] BY <1>11, <1>14 DEF Grown
  <2>2. y.marked[o] = n.marked[o] /\ o \notin tm BY <1>5, <2>1
  <2> QED BY <1>7, <2>1, <2>2
<1>15. ASSUME \A o \in tm : Children(o) = {}, NEW o \in All, M.marked[o] \notin White
       PROVE  mm.marked[o] \notin White \/ o \in tm
  <2>1. y.gray = {}
    BY <1>3, <1>6, <1>15 DEF Listed, Userdata, Tables
  <2>2. y.marked[o] \notin White
    <3>1. M.marked[o] = y.marked[o] BY <1>2, <1>5, <2>1, PropagateNothing
    <3> QED BY <1>15, <3>1
  <2> QED BY <1>6, <1>7, <1>15, <2>2
<1> QED BY <1>5, <1>11, <1>12, <1>13, <1>14, <1>15 DEF Good, Grown, E
----------------------------------------------------------------------------
(* Steps of the program *)

\* The main thread holds what is on its stack.
LEMMA OnStack ==
    ASSUME GCType
    PROVE  stack[Main] \subseteq Held(Main)
  BY NilFresh DEF GCType, Held, Slots

LEMMA SameHeap ==
    ASSUME UNCHANGED heap
    PROVE  \A o : Held(o)' = Held(o) /\ Children(o)' = Children(o)
  BY DEF heap, Held, Children, Slots, OpenIn, WeakKey, WeakValue

\* What a step of the program can store: something new, the objects it gets at, what
\* threads hold; and what is not a userdata.
Known ==
    {x \in All : x \notin alloc \/ kind[x] \notin Userdata} \cup Accessible
    \cup UNION {Held(th) : th \in {p \in Live : kind[p] = "thread"}}

\* Nothing dies, and nothing but what is known gets stored.
StoresKnown ==
    /\ Live \subseteq Live'
    /\ \A o \in Live' : \A x \in Held(o)' : x \in Known \/ (o \in Live /\ x \in Held(o))

\* Objects U come to be, or come back to life, and get linked to what is alive.
LEMMA GrowthStep ==
    ASSUME GCInv, GCType', Shape',
           UNCHANGED <<kind, currentwhite, gcstate, unswept, tmudata>>,
           NEW U \in SUBSET All, U \subseteq alloc', alloc \subseteq alloc', alloc' \ alloc \subseteq U,
           \A o \in U \cap alloc : IsDead(o),
           m'.gray = m.gray, m'.grayagain = m.grayagain, m'.weak = m.weak,
           \A o \in U : m'.marked[o] = currentwhite,
           \A o \in All \ U : m'.marked[o] = m.marked[o],
           \A o \in Live \cup U : Held(o)' \subseteq Live \cup U,
           \A o \in alloc : openOf'[o] = openOf[o] /\ (kind[o] # "thread" => Children(o)' = Children(o))
    PROVE  Solid' /\ Phase' /\ Live' = Live \cup U
<1>1. GCType /\ Shape /\ Lists /\ Solid /\ Phase
  BY DEF GCInv
<1>2. alloc \subseteq All /\ OtherWhite' = OtherWhite /\ ToSet(tmudata)' = ToSet(tmudata) /\ Main \in alloc
  BY <1>1 DEF GCType, OtherWhite
<1>3. Live' = Live \cup U
  <2>1. ASSUME NEW o \in alloc' PROVE o \in Live' <=> o \in Live \cup U
    <3>1. CASE o \in U
      BY <1>1, <1>2, <3>1, WhiteFacts DEF Live, IsDead
    <3>2. CASE o \notin U
      BY <1>2, <3>2 DEF Live, IsDead
    <3> QED BY <3>1, <3>2
  <2>2. Live' \subseteq alloc' /\ Live \subseteq alloc
    BY DEF Live
  <2> QED BY <2>1, <2>2
<1>4. Solid'
  BY <1>1, <1>2, <1>3 DEF Solid
<1>5. ASSUME gcstate = "propagate" PROVE m'.marked[Main] \notin White /\ Coloured(m, ToSet(tmudata))'
  <2>1. m.marked[Main] \notin White /\ Coloured(m, ToSet(tmudata))
    BY <1>1, <1>5 DEF Phase
  <2>2. U \cap alloc = {} /\ Live = alloc
    BY <2>1 DEF Coloured, IsDead, Live
  <2>3. \A o \in alloc : m'.marked[o] = m.marked[o]
    BY <1>2, <2>2
  <2>4. \A o \in alloc' : o \in alloc \/ (o \in U /\ m'.marked[o] = currentwhite)
    OBVIOUS
  <2>5. ListsTyped(m)'
    BY <2>1 DEF Coloured, ListsTyped
  <2>6. ASSUME NEW o \in All \ ToSet(tmudata), openOf'[o] # Nil PROVE m'.marked[o] # "black"
    <3>1. o \in alloc' BY <2>6 DEF Shape
    <3> QED BY <1>1, <2>1, <2>3, <2>4, <2>6, <3>1 DEF Coloured, GCType, White
  <2>7. \A o \in alloc' : m'.marked[o] # OtherWhite
    BY <1>1, <2>1, <2>3, <2>4, WhiteFacts DEF Coloured
  <2>8. \A o \in alloc' : kind[o] = "thread" \/ IsWeak(o) => m'.marked[o] # "black"
    BY <1>1, <2>1, <2>3, <2>4, WhiteFacts DEF Coloured, GCType
  <2>9. \A o \in alloc' \ ToSet(tmudata) : m'.marked[o] = "gray" =>
            kind[o] = "string" \/ openOf'[o] # Nil \/ o \in m.gray \cup m.grayagain \cup m.weak
    BY <1>1, <2>1, <2>3, <2>4, WhiteFacts DEF Coloured, GCType
  <2>10. ASSUME NEW o \in alloc' \ ToSet(tmudata), m'.marked[o] = "black", NEW x \in Children(o)'
         PROVE  m'.marked[x] \notin White
    <3>1. o \in alloc /\ m.marked[o] = "black"
      BY <1>1, <2>3, <2>4, <2>10, WhiteFacts DEF GCType
    <3>2. kind[o] # "thread" BY <2>1, <3>1 DEF Coloured
    <3>3. x \in Children(o) BY <2>10, <3>1, <3>2
    <3>4. x \in alloc BY <1>1, <1>2, <2>2, <3>1, <3>3, ChildrenTyped DEF Solid
    <3> QED BY <2>1, <2>3, <2>10, <3>1, <3>3, <3>4 DEF Coloured
  <2>11. m'.marked[Main] \notin White
    BY <1>2, <2>1, <2>3
  <2>12. \A o : IsWeak(o)' = IsWeak(o)
    BY DEF IsWeak, WeakKey, WeakValue
  <2> QED BY <1>2, <2>5, <2>6, <2>7, <2>8, <2>9, <2>10, <2>11, <2>12 DEF Coloured, White
<1>6. ASSUME gcstate # "propagate" PROVE Swept'
  <2>1. Swept BY <1>1, <1>6 DEF Phase
  <2>2. OpensNotBlack(m)'
    <3> SUFFICES ASSUME NEW o \in All, openOf'[o] # Nil PROVE m'.marked[o] # "black"
      BY DEF OpensNotBlack
    <3>1. o \in alloc' BY DEF Shape
    <3> QED BY <1>1, <2>1, <3>1, WhiteFacts DEF Swept, OpensNotBlack, GCType
  <2>3. ASSUME NEW o \in alloc' \ (unswept \cup ToSet(tmudata)), openOf'[o] \notin unswept
        PROVE  m'.marked[o] = currentwhite
    BY <1>2, <2>1, <2>3 DEF Swept
  <2> QED BY <1>2, <2>1, <2>2, <2>3 DEF Swept
<1>7. Phase'
  BY <1>5, <1>6 DEF Phase, White
<1> QED BY <1>3, <1>4, <1>7
\* The program gets at live objects only.
LEMMA AccessibleLive ==
    ASSUME GCInv
    PROVE  Accessible \subseteq Live /\ Live \subseteq alloc /\ alloc \subseteq All
           /\ stack[Main] \subseteq Live
<1> DEFINE next == [o \in All |-> Held(o)]
           S == {Main}
<1>1. GCType /\ Solid BY DEF GCInv
<1>2. Live \subseteq alloc /\ alloc \subseteq All BY <1>1 DEF Live, GCType
<1>3. Live \in SUBSET DOMAIN next /\ S \subseteq Live /\ \A o \in Live : next[o] \subseteq Live
  BY <1>1, <1>2 DEF Solid
<1>4. Accessible = Closure(S, next) BY DEF Accessible
<1> HIDE DEF next, S
<1>5. Accessible \subseteq Live BY <1>3, <1>4, ClosureLeast
<1>6. stack[Main] \subseteq Live
  BY <1>1, NilFresh DEF GCType, Solid, Held, Slots
<1> QED BY <1>2, <1>5, <1>6

\* What a variable holds is known.
LEMMA ValuesKnown ==
    ASSUME GCInv, NEW x \in All
    PROVE  /\ x \in Values => x \in Known
           /\ x \in Accessible => x \in Known
           /\ x \notin alloc => x \in Known
           /\ kind[x] \notin Userdata => x \in Known
           /\ \A th \in Live : kind[th] = "thread" /\ x \in Held(th) => x \in Known
<1>1. GCType /\ Main \in Live /\ kind[Main] = "thread" BY DEF GCInv, Solid, GCType
<1>2. x \in Values => x \in Held(Main) BY <1>1, OnStack, NilFresh DEF Values
<1> QED BY <1>1, <1>2 DEF Known

\* A new object that the main thread holds.
LEMMA LinkStep ==
    ASSUME GCInv, NEW o \in Objects, kind[o] # "unused", Link({o}), PushOn(Main, o),
           UNCHANGED <<kind, key, val, openOf, currentwhite, gcstate, unswept, tmudata>>
    PROVE  /\ GCType' /\ Shape' /\ Solid' /\ Phase' /\ alloc' = alloc \cup {o} /\ o \notin alloc
           /\ StoresKnown
<1>1. GCType /\ Shape /\ Lists /\ Solid BY DEF GCInv
<1>2. /\ o \notin alloc /\ o \in All /\ o # Main /\ alloc' = alloc \cup {o}
      /\ stack' = [stack EXCEPT ![Main] = @ \cup {o}]
      /\ m' = [m EXCEPT !.marked = [x \in All |-> IF x \in {o} THEN currentwhite ELSE @[x]]]
  BY <1>1 DEF Link, PushOn, All, GCType
<1>3. GCType'
  BY <1>1, <1>2 DEF GCType, Marks, Colours, All
<1>4. /\ m'.gray = m.gray /\ m'.grayagain = m.grayagain /\ m'.weak = m.weak
      /\ \A x \in {o} : m'.marked[x] = currentwhite
      /\ \A x \in All \ {o} : m'.marked[x] = m.marked[x]
  BY <1>1, <1>2 DEF GCType, Marks
<1>5. Shape'
  BY <1>1, <1>2 DEF Shape, GCType, All
<1>6. openOf[o] = Nil
  BY <1>1, <1>2 DEF Shape
<1>7. ASSUME NEW x \in All, x # Main PROVE Held(x)' = Held(x)
  <2>1. stack'[x] = stack[x] BY <1>1, <1>2, <1>7 DEF GCType
  <2>2. OpenIn(x)' = OpenIn(x)
    BY <1>2, <1>6, NilFresh DEF OpenIn
  <2> QED BY <2>1, <2>2 DEF Held, Slots
<1>8. Held(Main)' \subseteq Held(Main) \cup {o}
  <2>1. kind[Main] = "thread" /\ stack'[Main] = stack[Main] \cup {o} BY <1>1, <1>2 DEF GCType
  <2>2. OpenIn(Main)' = OpenIn(Main)
    BY <1>1, <1>2, <1>6, NilFresh DEF OpenIn, GCType
  <2> QED BY <2>1, <2>2 DEF Held, Slots
<1>9. Held(o)' = {}
  BY <1>1, <1>2, <1>7, HoldsNothing
<1>10. \A x \in Live \cup {o} : Held(x)' \subseteq Live \cup {o}
  BY <1>1, <1>7, <1>8, <1>9, AccessibleLive DEF Solid
<1>11. ASSUME NEW x \in alloc, kind[x] # "thread" PROVE Children(x)' = Children(x)
  BY <1>11 DEF Children, WeakKey, WeakValue
<1> DEFINE U == {o}
<1>12. /\ U \in SUBSET All /\ U \subseteq alloc' /\ alloc \subseteq alloc' /\ alloc' \ alloc \subseteq U
       /\ \A x \in U \cap alloc : IsDead(x)
       /\ \A x \in U : m'.marked[x] = currentwhite
       /\ \A x \in All \ U : m'.marked[x] = m.marked[x]
       /\ \A x \in Live \cup U : Held(x)' \subseteq Live \cup U
  BY <1>2, <1>4, <1>10
<1> HIDE DEF U
<1>13. Solid' /\ Phase' /\ Live' = Live \cup U
  BY <1>3, <1>4, <1>5, <1>11, <1>12, GrowthStep
<1>14. StoresKnown
  <2>1. o \in Known BY <1>2, ValuesKnown
  <2>2. Live' = Live \cup {o} /\ Live \subseteq All BY <1>13, AccessibleLive DEF U
  <2> QED BY <1>7, <1>8, <1>9, <2>1, <2>2 DEF StoresKnown
<1> QED BY <1>2, <1>3, <1>5, <1>13, <1>14

LEMMA NewKeeps ==
    ASSUME GCInv, NEW o \in Objects, New(o)
    PROVE  GCInv' /\ StoresKnown
<1>1. /\ kind[o] \in Tables \cup {"thread", "string"} /\ Link({o}) /\ PushOn(Main, o)
      /\ UNCHANGED <<kind, key, val, openOf, currentwhite, gcstate, unswept, tmudata>>
      /\ udata' = udata /\ kind[o] # "unused"
  BY DEF New, collector, Tables
<1>2. GCType' /\ Shape' /\ Solid' /\ Phase' /\ alloc' = alloc \cup {o} /\ StoresKnown
  BY <1>1, LinkStep
<1>3. kind[o] \notin Userdata
  BY <1>1 DEF Tables, Userdata
<1>4. Lists'
  BY <1>1, <1>2, <1>3 DEF GCInv, Lists
<1> QED BY <1>2, <1>4 DEF GCInv

LEMMA NewUdataKeeps ==
    ASSUME GCInv, NEW u \in Objects, NewUdata(u)
    PROVE  GCInv' /\ StoresKnown /\ ToSet(udata') = ToSet(udata) \cup {u} /\ u \notin alloc
<1>1. /\ kind[u] \in Userdata /\ Link({u}) /\ PushOn(Main, u)
      /\ UNCHANGED <<kind, key, val, openOf, currentwhite, gcstate, unswept, tmudata>>
      /\ udata' = <<u>> \o udata /\ kind[u] # "unused"
  BY DEF NewUdata, collector, Userdata
<1>2. GCType' /\ Shape' /\ Solid' /\ Phase' /\ alloc' = alloc \cup {u} /\ u \notin alloc
      /\ StoresKnown
  BY <1>1, LinkStep
<1>3. Lists BY DEF GCInv
<1> DEFINE t == <<u>>
<1>4. t \in Seq(Objects) /\ Once(t) /\ ToSet(t) = {u}
  BY OneOnce
<1> HIDE DEF t
<1>5. ToSet(t) \cap ToSet(udata) = {}
  BY <1>2, <1>3, <1>4 DEF Lists
<1>6. /\ udata' \in Seq(Objects) /\ Once(udata') /\ ToSet(udata') = {u} \cup ToSet(udata)
  <2>1. udata' = t \o udata BY <1>1 DEF t
  <2>2. udata \in Seq(Objects) /\ Once(udata) BY <1>3 DEF Lists
  <2> QED BY <1>4, <1>5, <2>1, <2>2, ConcatOnce
<1>7. Lists'
  BY <1>1, <1>2, <1>3, <1>6 DEF Lists
<1> QED BY <1>2, <1>6, <1>7 DEF GCInv

LEMMA InternKeeps ==
    ASSUME GCInv, NEW s \in Objects, Intern(s)
    PROVE  GCInv' /\ StoresKnown
<1>1. GCType /\ Shape /\ Lists /\ Solid BY DEF GCInv
<1>2. /\ kind[s] = "string" /\ s \in alloc /\ s \in All
      /\ m' = IF IsDead(s) THEN [m EXCEPT !.marked[s] = currentwhite] ELSE m
      /\ stack' = [stack EXCEPT ![Main] = @ \cup {s}]
      /\ UNCHANGED <<kind, alloc, key, val, openOf, udata, currentwhite, gcstate, unswept, tmudata>>
  BY <1>1 DEF Intern, PushOn, collector, All
<1> DEFINE U == IF IsDead(s) THEN {s} ELSE {}
<1>3. GCType'
  BY <1>1, <1>2 DEF GCType, Marks, Colours
<1>4. /\ m'.gray = m.gray /\ m'.grayagain = m.grayagain /\ m'.weak = m.weak
      /\ \A x \in U : m'.marked[x] = currentwhite
      /\ \A x \in All \ U : m'.marked[x] = m.marked[x]
  BY <1>1, <1>2 DEF GCType, Marks
<1>5. Shape'
  BY <1>1, <1>2 DEF Shape, GCType
<1>6. Lists'
  BY <1>1, <1>2 DEF Lists
<1>7. /\ \A x \in All : x # Main => Held(x)' = Held(x)
      /\ Held(Main)' \subseteq Held(Main) \cup {s}
  BY <1>1, <1>2 DEF Held, Slots, OpenIn, GCType
<1>8. s \in Live \cup U
  BY <1>2 DEF Live
<1>9. s # Main /\ Held(s) = {}
  BY <1>1, <1>2, HoldsNothing DEF GCType
<1>10. \A x \in U : x = s
  OBVIOUS
<1>11. \A x \in Live \cup U : Held(x)' \subseteq Live \cup U
  <2> HIDE DEF U
  <2> QED BY <1>1, <1>2, <1>7, <1>8, <1>9, <1>10, AccessibleLive DEF Solid
<1>12. \A x \in alloc : kind[x] # "thread" => Children(x)' = Children(x)
  BY <1>2 DEF Children, WeakKey, WeakValue
<1>13. U \in SUBSET All /\ U \subseteq alloc' /\ \A x \in U \cap alloc : IsDead(x)
  BY <1>2
<1> HIDE DEF U
<1>14. Solid' /\ Phase' /\ Live' = Live \cup U
  BY <1>2, <1>3, <1>4, <1>5, <1>11, <1>12, <1>13, GrowthStep
<1>15. StoresKnown
  <2>1. s \in Known BY <1>2, ValuesKnown DEF Userdata
  <2>2. Live \subseteq All BY AccessibleLive
  <2> QED BY <1>2, <1>7, <1>9, <1>10, <1>14, <2>1, <2>2 DEF StoresKnown
<1> QED BY <1>3, <1>5, <1>6, <1>14, <1>15 DEF GCInv
LEMMA CaptureNewKeeps ==
    ASSUME GCInv, NEW c \in Objects, NEW uv \in Objects, NEW th \in Threads, NEW v \in Values,
           CaptureNew(c, uv, th, v)
    PROVE  GCInv' /\ StoresKnown
<1>1. GCType /\ Shape /\ Lists /\ Solid BY DEF GCInv
<1>2. /\ kind[c] = "closure" /\ kind[uv] = "upval" /\ c # uv
      /\ c \in All \ alloc /\ uv \in All \ alloc /\ alloc' = alloc \cup {c, uv}
      /\ val' = [val EXCEPT ![c] = uv, ![uv] = v]
      /\ openOf' = [openOf EXCEPT ![uv] = th]
      /\ stack' = [stack EXCEPT ![th] = @ \cup {c}]
      /\ m' = [m EXCEPT !.marked = [o \in All |-> IF o \in {c, uv} THEN currentwhite ELSE @[o]]]
      /\ UNCHANGED <<kind, key, udata, currentwhite, gcstate, unswept, tmudata>>
  BY <1>1 DEF CaptureNew, Link, PushOn, collector, All
<1>3. /\ th \in Live /\ th \in alloc /\ th \in All /\ kind[th] = "thread" /\ th # c /\ th # uv
      /\ v \in Live \cup {Nil} /\ v \in All \cup {Nil} /\ Live \subseteq alloc /\ alloc \subseteq All
  BY <1>2, AccessibleLive DEF Threads, Values
<1>4. GCType'
  BY <1>1, <1>2, <1>3 DEF GCType, Marks, Colours
<1>5. /\ m'.gray = m.gray /\ m'.grayagain = m.grayagain /\ m'.weak = m.weak
      /\ \A x \in {c, uv} : m'.marked[x] = currentwhite
      /\ \A x \in All \ {c, uv} : m'.marked[x] = m.marked[x]
  BY <1>1, <1>2 DEF GCType, Marks
<1>6. /\ \A x \in All \ {c, uv} : val'[x] = val[x]
      /\ val'[c] = uv /\ val'[uv] = v
      /\ \A x \in All \ {uv} : openOf'[x] = openOf[x]
      /\ openOf'[uv] = th
      /\ \A x \in All \ {th} : stack'[x] = stack[x]
      /\ stack'[th] = stack[th] \cup {c}
  BY <1>1, <1>2, <1>3 DEF GCType
<1>7. Shape'
  BY <1>1, <1>2, <1>3, <1>6 DEF Shape, GCType, Tables
<1>8. Lists'
  BY <1>1, <1>2 DEF Lists, Userdata
<1>9. key[c] = Nil /\ key[uv] = Nil /\ openOf[uv] = Nil /\ openOf[c] = Nil
  BY <1>1, <1>2 DEF Shape
<1>10. ASSUME NEW x \in All, kind[x] = "thread" PROVE Held(x)' \subseteq Held(x) \cup ({c, v} \ {Nil})
  <2>1. \A w \in OpenIn(x)' : w = uv \/ (w \in OpenIn(x) /\ w \notin {c, uv})
    BY <1>2, <1>3, <1>6, <1>9, <1>10, NilFresh DEF OpenIn
  <2>2. \A w \in OpenIn(x)' : val'[w] = v \/ (w \in OpenIn(x) /\ val'[w] = val[w])
    BY <1>2, <1>3, <1>6, <2>1 DEF OpenIn
  <2>3. Slots(x)' \subseteq Slots(x) \cup {c, v}
    BY <1>3, <1>6, <2>2 DEF Slots
  <2>4. Held(x) = Slots(x) \ {Nil} /\ Held(x)' = Slots(x)' \ {Nil}
    BY <1>2, <1>10 DEF Held
  <2>5. c # Nil BY <1>2, NilFresh
  <2> QED BY <2>3, <2>4, <2>5
<1>11. ASSUME NEW x \in All, kind[x] # "thread", x # c, x # uv PROVE Held(x)' = Held(x)
  BY <1>2, <1>6, <1>11 DEF Held
<1>12. Held(c)' \subseteq {uv} /\ Held(uv)' \subseteq {v} \ {Nil}
  BY <1>2, <1>6, <1>9 DEF Held
<1>13. \A x \in Live \cup {c, uv} : Held(x)' \subseteq Live \cup {c, uv}
  <2> SUFFICES ASSUME NEW x \in Live \cup {c, uv} PROVE Held(x)' \subseteq Live \cup {c, uv}
    OBVIOUS
  <2>1. CASE kind[x] = "thread"
    <3>1. x \in Live BY <1>2, <2>1
    <3> QED BY <1>1, <1>3, <1>10, <2>1, <3>1 DEF Solid
  <2>2. CASE kind[x] # "thread" /\ x \in Live /\ x \notin {c, uv}
    BY <1>1, <1>3, <1>11, <2>2 DEF Solid
  <2>3. CASE x \in {c, uv}
    BY <1>3, <1>12, <2>3
  <2> QED BY <2>1, <2>2, <2>3
<1>14. ASSUME NEW x \in alloc, kind[x] # "thread" PROVE Children(x)' = Children(x)
  BY <1>2, <1>3, <1>6, <1>14 DEF Children, WeakKey, WeakValue
<1> DEFINE U == {c, uv}
<1>15. /\ U \in SUBSET All /\ U \subseteq alloc' /\ alloc \subseteq alloc' /\ alloc' \ alloc \subseteq U
       /\ \A x \in U \cap alloc : IsDead(x)
       /\ \A x \in U : m'.marked[x] = currentwhite
       /\ \A x \in All \ U : m'.marked[x] = m.marked[x]
       /\ \A x \in Live \cup U : Held(x)' \subseteq Live \cup U
       /\ \A x \in alloc : openOf'[x] = openOf[x] /\ (kind[x] # "thread" => Children(x)' = Children(x))
  BY <1>2, <1>3, <1>5, <1>6, <1>13, <1>14
<1> HIDE DEF U
<1>16. Solid' /\ Phase' /\ Live' = Live \cup U
  BY <1>2, <1>4, <1>5, <1>7, <1>15, GrowthStep
<1>17. StoresKnown
  <2>1. c \in Known /\ uv \in Known BY <1>2, ValuesKnown
  <2>2. v # Nil => v \in Known BY <1>3, ValuesKnown
  <2>3. Live' = Live \cup {c, uv} /\ Live \subseteq All /\ c \notin Live /\ uv \notin Live
    BY <1>2, <1>3, <1>16 DEF U
  <2> SUFFICES ASSUME NEW o \in Live', NEW x \in Held(o)'
               PROVE  x \in Known \/ (o \in Live /\ x \in Held(o))
    BY <2>3 DEF StoresKnown
  <2>4. CASE kind[o] = "thread"
    BY <1>2, <1>10, <2>1, <2>2, <2>3, <2>4
  <2>5. CASE o \in {c, uv}
    BY <1>12, <2>1, <2>2, <2>5
  <2>6. CASE kind[o] # "thread" /\ o \notin {c, uv}
    BY <1>11, <2>3, <2>6
  <2> QED BY <2>4, <2>5, <2>6
<1> QED BY <1>4, <1>7, <1>8, <1>16, <1>17 DEF GCInv


LEMMA CaptureOldKeeps ==
    ASSUME GCInv, NEW c \in Objects, NEW uv \in Objects, NEW th \in Threads, CaptureOld(c, uv, th)
    PROVE  GCInv' /\ StoresKnown
<1>1. GCType /\ Shape /\ Lists /\ Solid BY DEF GCInv
<1>2. /\ th \in Live /\ th \in All /\ kind[th] = "thread" /\ Live \subseteq alloc /\ alloc \subseteq All
  BY AccessibleLive DEF Threads
<1>3. /\ kind[c] = "closure" /\ kind[uv] = "upval" /\ c # uv /\ c \in All \ alloc /\ uv \in alloc
      /\ uv \in Live \/ openOf[uv] = th
      /\ alloc' = alloc \cup {c}
      /\ val' = [val EXCEPT ![c] = uv]
      /\ stack' = [stack EXCEPT ![th] = @ \cup {c}]
      /\ m' = [m EXCEPT !.marked = [x \in All |-> IF x = c \/ (x = uv /\ IsDead(uv))
                                                  THEN currentwhite ELSE @[x]]]
      /\ UNCHANGED <<kind, key, openOf, udata, currentwhite, gcstate, unswept, tmudata>>
  BY <1>1, <1>2, AccessibleLive DEF CaptureOld, PushOn, collector, All, OpenIn
<1> DEFINE U == {c} \cup (IF IsDead(uv) THEN {uv} ELSE {})
<1>4. /\ m'.gray = m.gray /\ m'.grayagain = m.grayagain /\ m'.weak = m.weak /\ m' \in Marks
      /\ \A x \in U : m'.marked[x] = currentwhite
      /\ \A x \in All \ U : m'.marked[x] = m.marked[x]
  BY <1>1, <1>2, <1>3 DEF GCType, Marks, Colours
<1>5. GCType'
  BY <1>1, <1>2, <1>3, <1>4 DEF GCType
<1>6. /\ \A x \in All \ {c} : val'[x] = val[x]
      /\ val'[c] = uv
      /\ \A x \in All \ {th} : stack'[x] = stack[x]
      /\ stack'[th] = stack[th] \cup {c}
  BY <1>1, <1>2, <1>3 DEF GCType
<1>7. Shape'
  BY <1>1, <1>2, <1>3, <1>6 DEF Shape, GCType, Tables
<1>8. Lists'
  BY <1>1, <1>3 DEF Lists, Userdata
<1>9. key[c] = Nil /\ key[uv] = Nil /\ openOf[c] = Nil
  BY <1>1, <1>2, <1>3 DEF Shape, Tables
<1>10. ASSUME NEW x \in All, kind[x] = "thread" PROVE Held(x)' \subseteq Held(x) \cup {c}
  <2>1. \A w \in OpenIn(x)' : w \in OpenIn(x) /\ w # c /\ val'[w] = val[w]
    BY <1>2, <1>3, <1>6, <1>9, <1>10, NilFresh DEF OpenIn
  <2>2. Slots(x)' \subseteq Slots(x) \cup {c}
    BY <1>2, <1>6, <2>1 DEF Slots
  <2>3. Held(x) = Slots(x) \ {Nil} /\ Held(x)' = Slots(x)' \ {Nil}
    BY <1>3, <1>10 DEF Held
  <2> QED BY <2>2, <2>3
<1>11. ASSUME NEW x \in All, kind[x] # "thread", x # c PROVE Held(x)' = Held(x)
  BY <1>3, <1>6, <1>11 DEF Held
<1>12. Held(c)' \subseteq {uv}
  BY <1>3, <1>6, <1>9 DEF Held
<1>13. uv \in Live \cup U
  BY <1>3 DEF Live
<1>14. Held(uv) \subseteq Live /\ (uv \in Live \/ Held(uv) \subseteq Held(th))
  <2>1. CASE uv \in Live BY <1>1, <2>1 DEF Solid
  <2>2. CASE openOf[uv] = th
    <3>1. val[uv] \in Slots(th) BY <1>3, <2>2 DEF Slots, OpenIn
    <3>2. Slots(th) \ {Nil} \subseteq Live /\ Held(th) = Slots(th) \ {Nil} BY <1>1, <1>2 DEF Solid, Held
    <3> QED BY <1>3, <1>9, <3>1, <3>2 DEF Held
  <2> QED BY <1>3, <2>1, <2>2
<1>15. \A x \in U : x = c \/ x = uv
  OBVIOUS
<1>16. \A x \in Live \cup U : Held(x)' \subseteq Live \cup U
  <2> SUFFICES ASSUME NEW x \in Live \cup U PROVE Held(x)' \subseteq Live \cup U
    OBVIOUS
  <2>1. c \in U OBVIOUS
  <2> HIDE DEF U
  <2>2. CASE kind[x] = "thread"
    <3>1. x \in Live BY <1>3, <1>15, <2>2
    <3> QED BY <1>1, <1>2, <1>10, <2>1, <2>2, <3>1 DEF Solid
  <2>3. CASE kind[x] # "thread" /\ x # c
    <3>1. x \in All /\ Held(x) \subseteq Live BY <1>1, <1>2, <1>3, <1>14, <1>15, <2>3 DEF Solid
    <3> QED BY <1>11, <2>3, <3>1
  <2>4. CASE x = c
    BY <1>12, <1>13, <2>4
  <2> QED BY <2>2, <2>3, <2>4
<1>17. ASSUME NEW x \in alloc, kind[x] # "thread" PROVE Children(x)' = Children(x)
  BY <1>2, <1>3, <1>6, <1>17 DEF Children, WeakKey, WeakValue
<1>18. /\ U \in SUBSET All /\ U \subseteq alloc' /\ alloc \subseteq alloc' /\ alloc' \ alloc \subseteq U
       /\ \A x \in U \cap alloc : IsDead(x)
       /\ \A x \in alloc : openOf'[x] = openOf[x]
  BY <1>2, <1>3
<1> HIDE DEF U
<1>19. Solid' /\ Phase' /\ Live' = Live \cup U
  BY <1>3, <1>4, <1>5, <1>7, <1>16, <1>17, <1>18, GrowthStep
<1>20. StoresKnown
  <2>1. c \in Known /\ uv \in Known /\ uv \in All BY <1>2, <1>3, ValuesKnown DEF Userdata
  <2> SUFFICES ASSUME NEW o \in Live', NEW x \in Held(o)'
               PROVE  x \in Known \/ (o \in Live /\ x \in Held(o))
    BY <1>19 DEF StoresKnown
  <2>2. (o \in Live \/ o = c \/ o = uv) /\ o \in All
    BY <1>2, <1>3, <1>15, <1>19
  <2>3. CASE kind[o] = "thread"
    BY <1>3, <1>10, <2>1, <2>2, <2>3
  <2>4. CASE o = c
    BY <1>12, <2>1, <2>4
  <2>5. CASE kind[o] # "thread" /\ o # c
    <3>1. Held(o)' = Held(o) BY <1>11, <2>2, <2>5
    <3>2. CASE o \in Live BY <3>1, <3>2
    <3>3. CASE o = uv /\ o \notin Live
      <4>1. x \in Held(th) /\ x \in All BY <1>1, <1>2, <1>14, <3>1, <3>3, ChildrenTyped
      <4> QED BY <1>2, <4>1, ValuesKnown
    <3> QED BY <2>2, <2>5, <3>2, <3>3
  <2> QED BY <2>3, <2>4, <2>5
<1> QED BY <1>5, <1>7, <1>8, <1>19, <1>20 DEF GCInv

\* Stacks have no barrier, and need none.
LEMMA StackStep ==
    ASSUME GCInv, stack' \in [All -> SUBSET All], Shape',
           \A x \in Live : kind[x] = "thread" => stack'[x] \subseteq stack[x] \cup (Live \cap Known),
           UNCHANGED <<kind, alloc, key, val, openOf, udata, currentwhite, gcstate, unswept, tmudata, m>>
    PROVE  GCInv' /\ StoresKnown
<1>1. GCType /\ Shape /\ Lists /\ Solid BY DEF GCInv
<1>2. GCType' BY <1>1 DEF GCType
<1>3. Lists' BY <1>1 DEF Lists
<1>4. \A x : OpenIn(x)' = OpenIn(x) BY DEF OpenIn
<1>5. ASSUME NEW x \in Live PROVE Held(x)' \subseteq Live /\ Held(x)' \subseteq Held(x) \cup Known
  <2>1. Held(x) \subseteq Live BY <1>1 DEF Solid
  <2>2. Slots(x)' = stack'[x] \cup {val[uv] : uv \in OpenIn(x)} BY <1>4 DEF Slots
  <2>3. CASE kind[x] = "thread"
    <3>1. Held(x)' = Slots(x)' \ {Nil} /\ Held(x) = Slots(x) \ {Nil} BY <2>3 DEF Held
    <3> QED BY <2>1, <2>2, <2>3, <3>1 DEF Slots
  <2>4. CASE kind[x] # "thread"
    BY <2>1, <2>4 DEF Held
  <2> QED BY <2>3, <2>4
<1>6. \A x \in alloc : kind[x] # "thread" => Children(x)' = Children(x)
  BY DEF Children, WeakKey, WeakValue
<1> DEFINE U == {}
<1>7. /\ U \in SUBSET All /\ U \subseteq alloc' /\ \A x \in U \cap alloc : IsDead(x)
      /\ \A x \in U : m'.marked[x] = currentwhite
      /\ \A x \in All \ U : m'.marked[x] = m.marked[x]
      /\ \A x \in Live \cup U : Held(x)' \subseteq Live \cup U
      /\ alloc \subseteq alloc' /\ alloc' \ alloc \subseteq U
  BY <1>5
<1> HIDE DEF U
<1>8. Solid' /\ Phase' /\ Live' = Live \cup U
  BY <1>2, <1>6, <1>7, GrowthStep
<1>9. StoresKnown BY <1>5, <1>8 DEF StoresKnown, U
<1> QED BY <1>2, <1>3, <1>8, <1>9 DEF GCInv

LEMMA LoadKeeps ==
    ASSUME GCInv, NEW th \in Threads, NEW x \in Loadable, Load(th, x)
    PROVE  GCInv' /\ StoresKnown
<1>1. GCType /\ Shape BY DEF GCInv
<1>2. th \in All /\ kind[th] = "thread" /\ th \in alloc /\ x \in Live /\ x \in All
  BY AccessibleLive DEF Threads, Loadable
<1>3. /\ stack' = [stack EXCEPT ![th] = @ \cup {x}]
      /\ UNCHANGED <<kind, alloc, key, val, openOf, udata, currentwhite, gcstate, unswept, tmudata, m>>
  BY DEF Load, PushOn, collector
<1>4. stack' \in [All -> SUBSET All] /\ \A y \in Live : stack'[y] \subseteq stack[y] \cup (Live \cap Known)
  <2>1. x \in Known BY <1>2, ValuesKnown DEF Loadable
  <2> QED BY <1>1, <1>2, <1>3, <2>1, AccessibleLive DEF GCType
<1>5. Shape'
  BY <1>1, <1>2, <1>3 DEF Shape, GCType
<1> QED BY <1>3, <1>4, <1>5, StackStep

LEMMA DropKeeps ==
    ASSUME GCInv, NEW th \in Threads, NEW x \in stack[th], Drop(th, x)
    PROVE  GCInv' /\ StoresKnown
<1>1. GCType /\ Shape BY DEF GCInv
<1>2. th \in All /\ kind[th] = "thread" /\ th \in alloc
  BY AccessibleLive DEF Threads
<1>3. /\ stack' = [stack EXCEPT ![th] = @ \ {x}]
      /\ UNCHANGED <<kind, alloc, key, val, openOf, udata, currentwhite, gcstate, unswept, tmudata, m>>
  BY DEF Drop, collector
<1>4. stack' \in [All -> SUBSET All] /\ \A y \in Live : stack'[y] \subseteq stack[y] \cup (Live \cap Known)
  BY <1>1, <1>2, <1>3, AccessibleLive DEF GCType
<1>5. Shape'
  BY <1>1, <1>2, <1>3 DEF Shape, GCType
<1> QED BY <1>3, <1>4, <1>5, StackStep
\* A step that frees nothing and gives nothing the colour of the dead.
LEMMA LiveSame ==
    ASSUME GCInv, UNCHANGED <<currentwhite, gcstate, tmudata>>,
           Live' = Live,
           \A o \in Live : Held(o)' \subseteq Live,
           gcstate = "propagate" => m'.marked[Main] \notin White /\ Coloured(m, ToSet(tmudata))',
           gcstate # "propagate" => Swept'
    PROVE  Solid' /\ Phase'
<1>1. Solid BY DEF GCInv
<1>2. Solid' BY <1>1 DEF Solid
<1>3. Phase' BY DEF Phase, White
<1> QED BY <1>2, <1>3

\* While marking goes on, p gets another value, which is not white if p is black.
LEMMA ColouredStored ==
    ASSUME GCType, GCType', NEW n, n = m', NEW p \in alloc,
           Coloured(n, ToSet(tmudata) \cup {p}),
           UNCHANGED <<kind, alloc, currentwhite, tmudata>>,
           \A o \in All : o # p => openOf'[o] = openOf[o],
           \A o \in alloc : o # p /\ kind[o] # "thread" => Children(o)' = Children(o),
           p \notin ToSet(tmudata) =>
               /\ n.marked[p] = "black" => openOf'[p] = Nil
               /\ n.marked[p] = "black" => \A x \in Children(p)' : n.marked[x] \notin White
               /\ n.marked[p] = "gray" => \/ kind[p] = "string" \/ openOf'[p] # Nil
                                          \/ p \in n.gray \cup n.grayagain \cup n.weak
    PROVE  Coloured(m, ToSet(tmudata))'
<1>1. ListsTyped(m)'
  BY DEF Coloured, ListsTyped
<1>2. ASSUME NEW o \in All \ ToSet(tmudata), openOf'[o] # Nil PROVE m'.marked[o] # "black"
  BY <1>2 DEF Coloured
<1>3. \A o \in alloc : m'.marked[o] # OtherWhite'
  BY DEF Coloured, OtherWhite
<1>4. \A o \in alloc : kind[o] = "thread" \/ IsWeak(o)' => m'.marked[o] # "black"
  BY DEF Coloured, IsWeak, WeakKey, WeakValue
<1>5. ASSUME NEW o \in alloc \ ToSet(tmudata), m'.marked[o] = "gray"
      PROVE  kind[o] = "string" \/ openOf'[o] # Nil \/ o \in m'.gray \cup m'.grayagain \cup m'.weak
  <2>1. o \in All BY DEF GCType
  <2> QED BY <1>5, <2>1 DEF Coloured
<1>6. ASSUME NEW o \in alloc \ ToSet(tmudata), m'.marked[o] = "black", NEW x \in Children(o)'
      PROVE  m'.marked[x] \notin White
  <2>1. kind[o] # "thread" BY <1>6 DEF Coloured
  <2> QED BY <1>6, <2>1 DEF Coloured
<1> QED BY <1>1, <1>2, <1>3, <1>4, <1>5, <1>6 DEF Coloured, White

\* What is coloured but for P is coloured but for more.
LEMMA ColouredMore ==
    ASSUME NEW mm, NEW P, NEW p, Coloured(mm, P)
    PROVE  Coloured(mm, P \cup {p})
  BY DEF Coloured

LEMMA BarrierBackFacts ==
    ASSUME NEW mm \in Marks, NEW p \in All, NEW v, NEW n, n = BarrierBack(mm, p, v)
    PROVE  /\ n \in Marks /\ n.gray = mm.gray /\ n.weak = mm.weak
           /\ n.grayagain \subseteq mm.grayagain \cup {p} /\ mm.grayagain \subseteq n.grayagain
           /\ \A o \in All \ {p} : n.marked[o] = mm.marked[o]
           /\ n.marked[p] # mm.marked[p] =>
                  mm.marked[p] = "black" /\ n.marked[p] = "gray" /\ p \in n.grayagain
           /\ n.marked[p] = "black" => v = Nil \/ mm.marked[v] \notin White
<1>1. CASE n = mm /\ (v = Nil \/ mm.marked[p] # "black" \/ mm.marked[v] \notin White)
  BY <1>1
<1>2. CASE mm.marked[p] = "black" /\ n = [mm EXCEPT !.marked[p] = "gray", !.grayagain = @ \cup {p}]
  <2>1. /\ mm.marked \in [All -> Colours]
        /\ mm.gray \subseteq All /\ mm.grayagain \subseteq All /\ mm.weak \subseteq All
        /\ mm = [marked |-> mm.marked, gray |-> mm.gray, grayagain |-> mm.grayagain, weak |-> mm.weak]
    BY DEF Marks
  <2>2. /\ n.marked = [mm.marked EXCEPT ![p] = "gray"]
        /\ n.gray = mm.gray /\ n.weak = mm.weak /\ n.grayagain = mm.grayagain \cup {p}
        /\ n = [marked |-> n.marked, gray |-> n.gray, grayagain |-> n.grayagain, weak |-> n.weak]
    BY <1>2, <2>1
  <2>3. n \in Marks
    BY <2>1, <2>2 DEF Marks, Colours
  <2>4. n.marked[p] = "gray" /\ \A o \in All \ {p} : n.marked[o] = mm.marked[o]
    BY <2>1, <2>2
  <2> QED BY <1>2, <2>2, <2>3, <2>4
<1> QED BY <1>1, <1>2 DEF BarrierBack
\* A table gets another node.
LEMMA SetTableKeeps ==
    ASSUME GCInv, NEW t \in stack[Main], NEW k \in Values, NEW v \in Values, SetTable(t, k, v)
    PROVE  GCInv' /\ StoresKnown
<1>1. GCType /\ Shape /\ Lists /\ Solid /\ Phase BY DEF GCInv
<1>2. /\ t \in Live /\ t \in All /\ t \in alloc /\ kind[t] \in Tables /\ alloc \subseteq All
      /\ k \in Live \cup {Nil} /\ v \in Live \cup {Nil} /\ k \in All \cup {Nil} /\ v \in All \cup {Nil}
  BY AccessibleLive DEF SetTable, Values
<1>3. /\ key' = [key EXCEPT ![t] = k] /\ val' = [val EXCEPT ![t] = v]
      /\ m' = BarrierBack(BarrierBack(m, t, k), t, v)
      /\ UNCHANGED <<kind, alloc, stack, openOf, udata, currentwhite, gcstate, unswept, tmudata>>
  BY DEF SetTable, collector
<1> DEFINE n == BarrierBack(m, t, k)
           q == BarrierBack(n, t, v)
<1>4. m \in Marks BY <1>1 DEF GCType
<1>5. /\ n \in Marks /\ n.gray = m.gray /\ n.weak = m.weak
      /\ n.grayagain \subseteq m.grayagain \cup {t} /\ m.grayagain \subseteq n.grayagain
      /\ \A o \in All \ {t} : n.marked[o] = m.marked[o]
      /\ n.marked[t] # m.marked[t] =>
             m.marked[t] = "black" /\ n.marked[t] = "gray" /\ t \in n.grayagain
      /\ n.marked[t] = "black" => k = Nil \/ m.marked[k] \notin White
  BY <1>2, <1>4, BarrierBackFacts
<1> HIDE DEF n
<1>6. /\ q \in Marks /\ q.gray = n.gray /\ q.weak = n.weak
      /\ q.grayagain \subseteq n.grayagain \cup {t} /\ n.grayagain \subseteq q.grayagain
      /\ \A o \in All \ {t} : q.marked[o] = n.marked[o]
      /\ q.marked[t] # n.marked[t] =>
             n.marked[t] = "black" /\ q.marked[t] = "gray" /\ t \in q.grayagain
      /\ q.marked[t] = "black" => v = Nil \/ n.marked[v] \notin White
  BY <1>2, <1>5, BarrierBackFacts
<1>7. m' = q BY <1>3 DEF n
<1> HIDE DEF q
<1>8. /\ q.gray = m.gray /\ q.weak = m.weak
      /\ q.grayagain \subseteq m.grayagain \cup {t} /\ m.grayagain \subseteq q.grayagain
      /\ \A o \in All \ {t} : q.marked[o] = m.marked[o]
      /\ q.marked[t] # m.marked[t] =>
             m.marked[t] = "black" /\ q.marked[t] = "gray" /\ t \in q.grayagain
  BY <1>5, <1>6
<1>9. q.marked[t] = "black" =>
          /\ k = Nil \/ q.marked[k] \notin White
          /\ v = Nil \/ q.marked[v] \notin White
  BY <1>1, <1>2, <1>5, <1>6, WhiteFacts
<1>10. GCType'
  BY <1>1, <1>2, <1>3, <1>6, <1>7 DEF GCType
<1>11. Shape'
  BY <1>1, <1>2, <1>3 DEF Shape, GCType, Tables
<1>12. Lists'
  BY <1>1, <1>3 DEF Lists
<1>13. ASSUME NEW o \in All, o # t PROVE Held(o)' = Held(o) /\ Children(o)' = Children(o)
  <2>1. key'[o] = key[o] /\ val'[o] = val[o] BY <1>1, <1>3, <1>13 DEF GCType
  <2>2. \A u \in OpenIn(o) : u # t
    BY <1>1, <1>2, <1>13, NilFresh DEF OpenIn, Shape, Tables
  <2>3. OpenIn(o)' = OpenIn(o) /\ \A u \in OpenIn(o) : u \in All BY <1>2, <1>3 DEF OpenIn
  <2>4. \A u \in OpenIn(o) : val'[u] = val[u] BY <1>1, <1>3, <2>2, <2>3 DEF GCType
  <2>5. Slots(o)' = Slots(o) BY <1>3, <2>3, <2>4 DEF Slots
  <2> QED BY <1>3, <2>1, <2>5 DEF Held, Children, WeakKey, WeakValue
<1>14. Held(t)' = {k, v} \ {Nil} /\ Children(t)' \subseteq {k, v} \ {Nil}
  <2>1. key'[t] = k /\ val'[t] = v BY <1>1, <1>2, <1>3 DEF GCType
  <2> QED BY <1>2, <1>3, <2>1 DEF Held, Children, Tables
<1>15. \A o \in alloc : m'.marked[o] = OtherWhite <=> m.marked[o] = OtherWhite
  BY <1>1, <1>2, <1>7, <1>8, WhiteFacts
<1>16. Live' = Live
  <2>1. OtherWhite' = OtherWhite BY <1>3 DEF OtherWhite
  <2> QED BY <1>3, <1>15, <2>1 DEF Live, IsDead
<1>17. \A o \in Live : Held(o)' \subseteq Live
  BY <1>1, <1>2, <1>13, <1>14 DEF Solid, Live
<1>18. ASSUME gcstate = "propagate" PROVE m'.marked[Main] \notin White /\ Coloured(m, ToSet(tmudata))'
  <2> DEFINE P == ToSet(tmudata)
             Q == P \cup {t}
  <2>1. m.marked[Main] \notin White /\ Coloured(m, P)
    BY <1>1, <1>18 DEF Phase
  <2>2. Main \in All /\ Main # t BY <1>1, <1>2 DEF GCType, Tables
  <2>3. ListsTyped(q)
    BY <1>2, <1>8, <2>1 DEF Coloured, ListsTyped, Listed
  <2>4. openOf[t] = Nil BY <1>1, <1>2 DEF Shape, Tables
  <2>5. \A o \in All \ Q : openOf[o] # Nil => q.marked[o] # "black"
    BY <1>8, <2>1 DEF Coloured
  <2>6. \A o \in alloc : q.marked[o] # OtherWhite
    BY <1>7, <1>15, <2>1 DEF Coloured
  <2>7. \A o \in alloc : kind[o] = "thread" \/ IsWeak(o) => q.marked[o] # "black"
    BY <1>2, <1>8, <2>1 DEF Coloured
  <2>8. \A o \in alloc \ Q : q.marked[o] = "gray" =>
            kind[o] = "string" \/ openOf[o] # Nil \/ o \in q.gray \cup q.grayagain \cup q.weak
    BY <1>2, <1>8, <2>1 DEF Coloured
  <2>9. \A o \in All : m.marked[o] \notin White => q.marked[o] \notin White
    BY <1>1, <1>8, WhiteFacts
  <2>10. ASSUME NEW o \in alloc \ Q, q.marked[o] = "black", NEW x \in Children(o)
         PROVE  q.marked[x] \notin White
    <3>1. x \in All BY <1>1, <1>2, ChildrenTyped
    <3> QED BY <1>2, <1>8, <2>1, <2>9, <2>10, <3>1 DEF Coloured
  <2>11. Coloured(q, Q)
    <3> HIDE DEF P
    <3> QED BY <2>3, <2>5, <2>6, <2>7, <2>8, <2>10 DEF Coloured
  <2>12. t \notin P => (q.marked[t] = "gray" => t \in q.gray \cup q.grayagain \cup q.weak)
    <3> HIDE DEF P
    <3> QED BY <1>2, <1>8, <2>1, <2>4 DEF Coloured, Tables
  <2>13. q.marked[t] = "black" => \A x \in Children(t)' : q.marked[x] \notin White
    BY <1>9, <1>14
  <2>14. UNCHANGED <<kind, alloc, currentwhite, tmudata>> /\ openOf' = openOf /\ q = m'
    BY <1>3, <1>7
  <2>15. \A o \in alloc : o # t /\ kind[o] # "thread" => Children(o)' = Children(o)
    BY <1>2, <1>13
  <2>16. Coloured(m, ToSet(tmudata))'
    BY <1>1, <1>2, <1>10, <2>4, <2>11, <2>12, <2>13, <2>14, <2>15, ColouredStored
  <2> QED BY <1>7, <1>8, <2>1, <2>2, <2>16
<1>19. ASSUME gcstate # "propagate" PROVE Swept'
  <2>1. Swept BY <1>1, <1>19 DEF Phase
  <2>2. OpensNotBlack(m)'
    BY <1>3, <1>7, <1>8, <2>1 DEF Swept, OpensNotBlack
  <2>3. \A o \in All : m.marked[o] = currentwhite => q.marked[o] = currentwhite
    BY <1>1, <1>8, WhiteFacts DEF GCType
  <2> QED BY <1>2, <1>3, <1>7, <2>1, <2>2, <2>3 DEF Swept
<1>20. Solid' /\ Phase'
  BY <1>3, <1>16, <1>17, <1>18, <1>19, LiveSame
<1>21. StoresKnown
  <2>1. {k, v} \ {Nil} \subseteq Known BY <1>2, ValuesKnown
  <2> QED BY <1>2, <1>13, <1>14, <1>16, <2>1 DEF StoresKnown, Live
<1> QED BY <1>10, <1>11, <1>12, <1>20, <1>21 DEF GCInv
\* The forward barrier marks what a black object gets to hold, ...
LEMMA ForwardMarks ==
    ASSUME GCType, Shape, gcstate = "propagate", NEW mm \in Marks, NEW Q, Coloured(mm, Q),
           NEW p \in All, NEW v \in All \cup {Nil}, NEW n, n = BarrierForward(mm, p, v)
    PROVE  /\ n \in Marks /\ Coloured(n, Q) /\ n.marked[p] = mm.marked[p]
           /\ \A o \in All : mm.marked[o] \notin White => n.marked[o] \notin White
           /\ n.marked[p] = "black" => v = Nil \/ n.marked[v] \notin White
<1>1. CASE n = mm /\ (v = Nil \/ mm.marked[p] # "black" \/ mm.marked[v] \notin White)
  BY <1>1
<1>2. CASE mm.marked[p] = "black" /\ v # Nil /\ n = Mark(mm, {v})
  <2> DEFINE S == {v}
  <2>1. n = Mark(mm, S) BY <1>2
  <2> HIDE DEF S
  <2>2. Coloured(n, Q) BY <2>1, MarkColoured
  <2>3. n \in Marks BY <2>1, MarkFacts
  <2>4. \A o \in All : mm.marked[o] \notin White => n.marked[o] = mm.marked[o] BY <2>1, MarkFacts
  <2>5. \A o \in S \cap All : n.marked[o] \notin White BY <2>1, MarkFacts
  <2>6. n.marked[v] \notin White BY <1>2, <2>5 DEF S
  <2> QED BY <1>2, <2>2, <2>3, <2>4, <2>6, WhiteFacts
<1> QED BY <1>1, <1>2 DEF BarrierForward

\* ... or, once nothing gets marked any more, makes the object white.
LEMMA ForwardWhitens ==
    ASSUME GCType, gcstate # "propagate", NEW mm \in Marks,
           NEW p \in All, NEW v, NEW n, n = BarrierForward(mm, p, v)
    PROVE  /\ n \in Marks
           /\ \A o \in All \ {p} : n.marked[o] = mm.marked[o]
           /\ n.marked[p] # mm.marked[p] => mm.marked[p] = "black" /\ n.marked[p] = currentwhite
<1>1. CASE n = mm
  BY <1>1
<1>2. CASE mm.marked[p] = "black" /\ n = [mm EXCEPT !.marked[p] = currentwhite]
  <2>1. n \in Marks
    BY <1>2 DEF Marks, GCType, Colours
  <2>2. n.marked[p] = currentwhite /\ \A o \in All \ {p} : n.marked[o] = mm.marked[o]
    BY <1>2 DEF Marks
  <2> QED BY <1>2, <2>1, <2>2
<1> QED BY <1>1, <1>2 DEF BarrierForward

\* An upvalue or a proxy gets another value.
LEMMA SetHeldKeeps ==
    ASSUME GCInv, NEW p \in Accessible, NEW v \in Values, SetHeld(p, v)
    PROVE  GCInv' /\ StoresKnown
<1>1. GCType /\ Shape /\ Lists /\ Solid /\ Phase BY DEF GCInv
<1>2. /\ p \in Live /\ p \in All /\ p \in alloc /\ kind[p] \in {"proxy", "upval"} /\ alloc \subseteq All
      /\ v \in Live \cup {Nil} /\ v \in All \cup {Nil} /\ Live \subseteq alloc
  BY AccessibleLive DEF SetHeld, Values
<1>3. /\ val' = [val EXCEPT ![p] = v]
      /\ m' = BarrierForward(m, p, v)
      /\ UNCHANGED <<kind, alloc, key, stack, openOf, udata, currentwhite, gcstate, unswept, tmudata>>
  BY DEF SetHeld, collector
<1> DEFINE n == BarrierForward(m, p, v)
<1>4. m \in Marks BY <1>1 DEF GCType
<1>5. key[p] = Nil /\ val'[p] = v /\ \A o \in All \ {p} : val'[o] = val[o]
  BY <1>1, <1>2, <1>3 DEF Shape, Tables, GCType
<1>6. gcstate = "propagate" =>
          /\ n \in Marks /\ Coloured(n, ToSet(tmudata)) /\ n.marked[p] = m.marked[p]
          /\ \A o \in All : m.marked[o] \notin White => n.marked[o] \notin White
          /\ n.marked[p] = "black" => v = Nil \/ n.marked[v] \notin White
  <2> SUFFICES ASSUME gcstate = "propagate"
               PROVE  /\ n \in Marks /\ Coloured(n, ToSet(tmudata)) /\ n.marked[p] = m.marked[p]
                      /\ \A o \in All : m.marked[o] \notin White => n.marked[o] \notin White
                      /\ n.marked[p] = "black" => v = Nil \/ n.marked[v] \notin White
    OBVIOUS
  <2> DEFINE Q == ToSet(tmudata)
  <2>1. Coloured(m, Q) BY <1>1 DEF Phase
  <2> HIDE DEF Q
  <2>2. n = BarrierForward(m, p, v) OBVIOUS
  <2> HIDE DEF n
  <2>3. /\ n \in Marks /\ Coloured(n, Q) /\ n.marked[p] = m.marked[p]
        /\ \A o \in All : m.marked[o] \notin White => n.marked[o] \notin White
        /\ n.marked[p] = "black" => v = Nil \/ n.marked[v] \notin White
    BY <1>1, <1>2, <1>4, <2>1, <2>2, ForwardMarks
  <2> QED BY <2>3 DEF Q
<1>7. gcstate # "propagate" =>
          /\ n \in Marks
          /\ \A o \in All \ {p} : n.marked[o] = m.marked[o]
          /\ n.marked[p] # m.marked[p] => m.marked[p] = "black" /\ n.marked[p] = currentwhite
  BY <1>1, <1>2, <1>4, ForwardWhitens
<1>8. m' = n BY <1>3
<1> HIDE DEF n
<1>9. GCType'
  BY <1>1, <1>2, <1>3, <1>6, <1>7, <1>8 DEF GCType
<1>10. Shape'
  BY <1>1, <1>2, <1>3, <1>5 DEF Shape, GCType, Tables
<1>11. Lists'
  BY <1>1, <1>3 DEF Lists
<1>12. ASSUME NEW o \in All, o # p, kind[o] # "thread"
       PROVE Held(o)' = Held(o) /\ Children(o)' = Children(o)
  BY <1>3, <1>5, <1>12 DEF Held, Children, WeakKey, WeakValue
<1>13. ASSUME NEW o \in All, kind[o] = "thread" PROVE Held(o)' \subseteq Held(o) \cup ({v} \ {Nil})
  <2>1. OpenIn(o)' = OpenIn(o) /\ OpenIn(o) \subseteq All BY <1>2, <1>3 DEF OpenIn
  <2>2. Slots(o)' \subseteq Slots(o) \cup {v} BY <1>3, <1>5, <2>1 DEF Slots
  <2>3. Held(o) = Slots(o) \ {Nil} /\ Held(o)' = Slots(o)' \ {Nil} BY <1>3, <1>13 DEF Held
  <2> QED BY <2>2, <2>3
<1>14. Held(p)' \subseteq {v} \ {Nil} /\ Children(p)' \subseteq {v} \ {Nil}
  BY <1>2, <1>3, <1>5 DEF Held, Children, Tables
<1>15. \A o \in Live : Held(o)' \subseteq Live
  <2> SUFFICES ASSUME NEW o \in Live PROVE Held(o)' \subseteq Live
    OBVIOUS
  <2>1. Held(o) \subseteq Live /\ o \in All BY <1>1, <1>2 DEF Solid
  <2>2. CASE o = p BY <1>2, <1>14, <2>2
  <2>3. CASE o # p /\ kind[o] # "thread" BY <1>12, <2>1, <2>3
  <2>4. CASE kind[o] = "thread" BY <1>2, <1>13, <2>1, <2>4
  <2> QED BY <2>2, <2>3, <2>4
<1>16. OtherWhite' = OtherWhite BY <1>3 DEF OtherWhite
<1>19. Live' = Live => StoresKnown
  <2>1. {v} \ {Nil} \subseteq Known BY <1>2, ValuesKnown
  <2>2. \A o \in Live : Held(o)' \subseteq Held(o) \cup Known
    <3> SUFFICES ASSUME NEW o \in Live PROVE Held(o)' \subseteq Held(o) \cup Known
      OBVIOUS
    <3>1. o \in All BY <1>2
    <3>2. CASE o = p BY <1>14, <2>1, <3>2
    <3>3. CASE o # p /\ kind[o] # "thread" BY <1>12, <3>1, <3>3
    <3>4. CASE kind[o] = "thread" BY <1>13, <2>1, <3>1, <3>4
    <3> QED BY <3>2, <3>3, <3>4
  <2> QED BY <2>2 DEF StoresKnown
<1>17. CASE gcstate = "propagate"
  <2>1. m.marked[Main] \notin White /\ Coloured(m, ToSet(tmudata)) /\ Main \in All
    BY <1>1, <1>2, <1>17 DEF Phase, GCType
  <2>2. Live' = Live
    <3>1. \A o \in alloc : m.marked[o] # OtherWhite /\ m'.marked[o] # OtherWhite
      BY <1>6, <1>8, <1>17, <2>1 DEF Coloured
    <3> QED BY <1>3, <1>16, <3>1 DEF Live, IsDead
  <2>3. Coloured(n, ToSet(tmudata) \cup {p})
    <3> DEFINE Q == ToSet(tmudata)
    <3>1. Coloured(n, Q) BY <1>6, <1>17
    <3> HIDE DEF Q
    <3>2. Coloured(n, Q \cup {p}) BY <3>1, ColouredMore
    <3> QED BY <3>2 DEF Q
  <2>4. p \notin ToSet(tmudata) =>
            /\ n.marked[p] = "black" => openOf'[p] = Nil
            /\ n.marked[p] = "gray" => \/ kind[p] = "string" \/ openOf'[p] # Nil
                                       \/ p \in n.gray \cup n.grayagain \cup n.weak
    BY <1>2, <1>3, <1>6, <1>17 DEF Coloured
  <2>5. n.marked[p] = "black" => \A x \in Children(p)' : n.marked[x] \notin White
    BY <1>6, <1>14, <1>17
  <2>6. UNCHANGED <<kind, alloc, currentwhite, tmudata>> /\ openOf' = openOf /\ n = m'
    BY <1>3, <1>8
  <2>7. \A o \in alloc : o # p /\ kind[o] # "thread" => Children(o)' = Children(o)
    BY <1>2, <1>12
  <2>8. Coloured(m, ToSet(tmudata))'
    BY <1>1, <1>2, <1>9, <2>3, <2>4, <2>5, <2>6, <2>7, ColouredStored
  <2>9. m'.marked[Main] \notin White
    BY <1>6, <1>8, <1>17, <2>1
  <2>10. Solid' /\ Phase'
    BY <1>3, <1>15, <1>17, <2>2, <2>8, <2>9, LiveSame
  <2> QED BY <1>9, <1>10, <1>11, <1>19, <2>2, <2>10 DEF GCInv
<1>18. CASE gcstate # "propagate"
  <2>1. Swept /\ currentwhite \in White /\ currentwhite # "black" BY <1>1, <1>18, WhiteFacts DEF Phase, GCType
  <2>2. OpensNotBlack(m)'
    BY <1>3, <1>7, <1>8, <1>18, <2>1 DEF Swept, OpensNotBlack
  <2>3. \A o \in All : m.marked[o] = currentwhite => n.marked[o] = currentwhite
    BY <1>7, <1>18, <2>1
  <2>4. Swept' BY <1>2, <1>3, <1>8, <2>1, <2>2, <2>3 DEF Swept
  <2>5. \A o \in alloc : m'.marked[o] = OtherWhite <=> m.marked[o] = OtherWhite
    BY <1>1, <1>2, <1>7, <1>8, <1>18, WhiteFacts
  <2>6. Live' = Live
    BY <1>3, <1>16, <2>5 DEF Live, IsDead
  <2>7. Solid' /\ Phase'
    BY <1>3, <1>15, <1>18, <2>4, <2>6, LiveSame
  <2> QED BY <1>9, <1>10, <1>11, <1>19, <2>6, <2>7 DEF GCInv
<1> QED BY <1>17, <1>18
\* An upvalue that no live closure has dies with the variable, ...
LEMMA DeadUpvalKeeps ==
    ASSUME GCInv, NEW uv \in Objects, CloseUpval(uv), IsDead(uv)
    PROVE  GCInv' /\ StoresKnown
<1>1. GCType /\ Shape /\ Lists /\ Solid /\ Phase BY DEF GCInv
<1>2. /\ uv \in alloc /\ uv \in All /\ uv # Main /\ openOf[uv] \in Threads
      /\ openOf' = [openOf EXCEPT ![uv] = Nil] /\ val' = [val EXCEPT ![uv] = Nil]
      /\ alloc' = alloc \ {uv} /\ m' = m
      /\ UNCHANGED <<kind, key, stack, udata, currentwhite, gcstate, unswept, tmudata>>
  BY GCAssumption DEF CloseUpval, collector, All
<1>3. openOf[uv] # Nil /\ kind[uv] = "upval" /\ uv \notin unswept /\ key[uv] = Nil /\ stack[uv] = {}
  <2>1. openOf[uv] \in All
    BY <1>2, AccessibleLive DEF Threads
  <2>2. openOf[uv] # Nil BY <2>1, NilFresh
  <2> QED BY <1>1, <1>2, <2>2 DEF Shape, Tables
<1>4. /\ \A o \in All \ {uv} : val'[o] = val[o] /\ openOf'[o] = openOf[o]
      /\ val'[uv] = Nil /\ openOf'[uv] = Nil
  BY <1>1, <1>2 DEF GCType
<1>5. GCType'
  BY <1>1, <1>2, <1>3 DEF GCType
<1>6. Shape'
  BY <1>1, <1>2, <1>3, <1>4 DEF Shape, GCType
<1>7. Lists'
  BY <1>1, <1>2, <1>3 DEF Lists, Userdata
<1>8. OtherWhite' = OtherWhite BY <1>2 DEF OtherWhite
<1>9. Live' = Live
  BY <1>2, <1>8 DEF Live, IsDead
<1>10. ASSUME NEW o \in All PROVE Held(o)' \subseteq Held(o)
  <2>1. OpenIn(o)' \subseteq OpenIn(o) /\ OpenIn(o) \subseteq All /\ uv \notin OpenIn(o)'
    BY <1>1, <1>2, <1>4, <1>10, NilFresh DEF OpenIn, GCType
  <2>2. Slots(o)' \subseteq Slots(o)
    BY <1>2, <1>4, <2>1 DEF Slots
  <2>3. val'[o] = val[o] \/ val'[o] = Nil
    BY <1>4
  <2> QED BY <1>2, <2>2, <2>3 DEF Held
<1>11. \A o \in Live : Held(o)' \subseteq Live
  BY <1>1, <1>10, AccessibleLive DEF Solid
<1>12. gcstate # "propagate"
  BY <1>1, <1>2 DEF Phase, Coloured, IsDead
<1>13. Swept'
  BY <1>1, <1>2, <1>4, <1>12 DEF Phase, Swept, OpensNotBlack, GCType
<1>14. Solid' /\ Phase'
  BY <1>2, <1>9, <1>11, <1>12, <1>13, LiveSame
<1>15. StoresKnown BY <1>9, <1>10, AccessibleLive DEF StoresKnown
<1> QED BY <1>5, <1>6, <1>7, <1>14, <1>15 DEF GCInv

\* ... and another one gets closed.
LEMMA LiveUpvalKeeps ==
    ASSUME GCInv, NEW uv \in Objects, CloseUpval(uv), ~IsDead(uv)
    PROVE  GCInv' /\ StoresKnown
<1>1. GCType /\ Shape /\ Lists /\ Solid /\ Phase BY DEF GCInv
<1>2. /\ uv \in alloc /\ uv \in All /\ uv # Main /\ openOf[uv] \in Threads /\ alloc \subseteq All
      /\ openOf' = [openOf EXCEPT ![uv] = Nil]
      /\ m' = LinkUpval(uv)
      /\ UNCHANGED <<kind, alloc, key, val, stack, udata, currentwhite, gcstate, unswept, tmudata>>
  BY <1>1, GCAssumption DEF CloseUpval, collector, All, GCType
<1>3. openOf[uv] # Nil /\ kind[uv] = "upval" /\ uv \notin unswept /\ key[uv] = Nil
  <2>1. openOf[uv] \in All
    BY <1>2, AccessibleLive DEF Threads
  <2>2. openOf[uv] # Nil BY <2>1, NilFresh
  <2> QED BY <1>1, <1>2, <2>2 DEF Shape, Tables
<1>4. openOf'[uv] = Nil /\ \A o \in All \ {uv} : openOf'[o] = openOf[o]
  BY <1>1, <1>2 DEF GCType
<1>5. m \in Marks /\ val[uv] \in All \cup {Nil} /\ uv \notin ToSet(tmudata)
  BY <1>1, <1>2, <1>3 DEF GCType, Lists, Userdata
<1>6. Shape'
  BY <1>1, <1>2, <1>3, <1>4 DEF Shape, GCType
<1>7. Lists'
  BY <1>1, <1>2 DEF Lists
<1>8. OtherWhite' = OtherWhite BY <1>2 DEF OtherWhite
<1>9. ASSUME NEW o \in All PROVE Held(o)' \subseteq Held(o)
  <2>1. OpenIn(o)' \subseteq OpenIn(o)
    BY <1>1, <1>2, <1>4, <1>9, NilFresh DEF OpenIn, GCType
  <2>2. Slots(o)' \subseteq Slots(o)
    BY <1>2, <2>1 DEF Slots
  <2> QED BY <1>2, <2>2 DEF Held
<1>10. \A o \in Live : Held(o)' \subseteq Live
  BY <1>1, <1>9, AccessibleLive DEF Solid
<1>11. \A o \in All : kind[o] # "thread" => Children(o)' = Children(o)
  BY <1>2 DEF Children, WeakKey, WeakValue
<1>12. Children(uv) \subseteq {val[uv]} \ {Nil}
  BY <1>3 DEF Children, Tables
<1>13. CASE gcstate = "propagate"
  <2> DEFINE n == [m EXCEPT !.marked[uv] = "black"]
             Q == ToSet(tmudata) \cup {uv}
  <2>1. m.marked[Main] \notin White /\ Coloured(m, ToSet(tmudata)) /\ Main \in All
    BY <1>1, <1>2, <1>13 DEF Phase, GCType
  <2>2. Coloured(m, Q)
    <3> DEFINE P == ToSet(tmudata)
    <3>1. Coloured(m, P) BY <2>1
    <3> HIDE DEF P
    <3>2. Coloured(m, P \cup {uv}) BY <3>1, ColouredMore
    <3> QED BY <3>2 DEF P
  <2>3. /\ n \in Marks /\ n.marked[uv] = "black" /\ \A o \in All \ {uv} : n.marked[o] = m.marked[o]
        /\ n.gray = m.gray /\ n.grayagain = m.grayagain /\ n.weak = m.weak
    BY <1>2, <1>5 DEF Marks, Colours
  <2>4. gcstate = "propagate" /\ (m.marked[uv] = "gray" => m' = BarrierForward(n, uv, val[uv]))
        /\ (m.marked[uv] # "gray" => m' = m)
    BY <1>2, <1>13 DEF LinkUpval
  <2> HIDE DEF n
  <2>5. m.marked[uv] = "gray" => Coloured(n, Q)
    <3> SUFFICES ASSUME m.marked[uv] = "gray" PROVE Coloured(n, Q)
      OBVIOUS
    <3>1. \A o \in All : m.marked[o] \notin White => n.marked[o] \notin White
      BY <2>3, WhiteFacts, <1>1
    <3>2. \A o \in alloc \ Q : n.marked[o] = "black" => \A x \in Children(o) : n.marked[x] \notin White
      <4> SUFFICES ASSUME NEW o \in alloc \ Q, n.marked[o] = "black", NEW x \in Children(o)
                   PROVE  n.marked[x] \notin White
        OBVIOUS
      <4>1. o \in All /\ x \in All /\ m.marked[o] = "black"
        BY <1>1, <1>2, <2>3, ChildrenTyped
      <4> QED BY <2>2, <3>1, <4>1 DEF Coloured
    <3>3. \A o \in alloc : n.marked[o] # OtherWhite
      BY <1>1, <1>2, <2>2, <2>3, WhiteFacts DEF Coloured
    <3>4. \A o \in alloc : kind[o] = "thread" \/ IsWeak(o) => n.marked[o] # "black"
      BY <1>2, <1>3, <2>2, <2>3 DEF Coloured, IsWeak, WeakKey, WeakValue
    <3>5. \A o \in alloc \ Q : n.marked[o] = "gray" =>
              kind[o] = "string" \/ openOf[o] # Nil \/ o \in n.gray \cup n.grayagain \cup n.weak
      BY <1>2, <2>2, <2>3 DEF Coloured
    <3>6. \A o \in All \ Q : openOf[o] # Nil => n.marked[o] # "black"
      BY <2>2, <2>3 DEF Coloured
    <3>7. ListsTyped(n)
      BY <2>2, <2>3 DEF Coloured, ListsTyped
    <3> HIDE DEF Q
    <3> QED BY <3>2, <3>3, <3>4, <3>5, <3>6, <3>7 DEF Coloured
  <2>6. /\ m' \in Marks /\ Coloured(m', Q) /\ m'.marked[Main] \notin White
        /\ m.marked[uv] = "gray" => m'.marked[uv] = "black" /\
               (val[uv] = Nil \/ m'.marked[val[uv]] \notin White)
    <3>1. CASE m.marked[uv] # "gray"
      <4>1. m' = m BY <2>4, <3>1
      <4> HIDE DEF Q
      <4> QED BY <1>5, <2>1, <2>2, <3>1, <4>1
    <3>2. CASE m.marked[uv] = "gray"
      <4> DEFINE q == BarrierForward(n, uv, val[uv])
      <4>1. q = m' BY <2>4, <3>2
      <4>2. Coloured(n, Q) BY <2>5, <3>2
      <4> HIDE DEF Q
      <4>3. q = BarrierForward(n, uv, val[uv]) OBVIOUS
      <4> HIDE DEF q
      <4>4. /\ q \in Marks /\ Coloured(q, Q) /\ q.marked[uv] = n.marked[uv]
            /\ \A o \in All : n.marked[o] \notin White => q.marked[o] \notin White
            /\ q.marked[uv] = "black" => val[uv] = Nil \/ q.marked[val[uv]] \notin White
        BY <1>1, <1>2, <1>5, <1>13, <2>3, <4>2, <4>3, ForwardMarks
      <4>5. q.marked[Main] \notin White BY <1>2, <2>1, <2>3, <4>4
      <4> QED BY <2>3, <4>1, <4>4, <4>5
    <3> QED BY <3>1, <3>2
  <2>7. GCType'
    BY <1>1, <1>2, <2>6 DEF GCType
  <2>8. m.marked[uv] # "gray" => m'.marked[uv] = m.marked[uv] /\ m.marked[uv] # "black"
    BY <1>2, <1>3, <1>5, <2>1, <2>4 DEF Coloured
  <2>9. m'.marked[uv] # "gray"
        /\ (m'.marked[uv] = "black" => \A x \in Children(uv)' : m'.marked[x] \notin White)
    BY <1>2, <1>11, <1>12, <1>3, <2>6, <2>8
  <2>10. Coloured(m, ToSet(tmudata))'
    <3> DEFINE q == m'
    <3>1. /\ q = m' /\ Coloured(q, ToSet(tmudata) \cup {uv})
          /\ q.marked[uv] # "gray"
          /\ q.marked[uv] = "black" => \A x \in Children(uv)' : q.marked[x] \notin White
      BY <2>6, <2>9
    <3> HIDE DEF q
    <3>2. /\ uv \in alloc /\ UNCHANGED <<kind, alloc, currentwhite, tmudata>>
          /\ \A o \in All : o # uv => openOf'[o] = openOf[o]
          /\ \A o \in alloc : o # uv /\ kind[o] # "thread" => Children(o)' = Children(o)
          /\ openOf'[uv] = Nil
      BY <1>2, <1>4, <1>11
    <3> QED BY <1>1, <2>7, <3>1, <3>2, ColouredStored
  <2>11. Live' = Live
    <3>1. \A o \in alloc : m.marked[o] # OtherWhite /\ m'.marked[o] # OtherWhite
      BY <2>2, <2>6 DEF Coloured
    <3> QED BY <1>2, <1>8, <3>1 DEF Live, IsDead
  <2>12. Solid' /\ Phase'
    BY <1>2, <1>10, <1>13, <2>6, <2>10, <2>11, LiveSame
  <2>13. StoresKnown BY <1>9, <2>11, AccessibleLive DEF StoresKnown
  <2> QED BY <1>6, <1>7, <2>7, <2>12, <2>13 DEF GCInv
<1>14. CASE gcstate # "propagate"
  <2>1. Swept /\ m.marked[uv] # "black" /\ m.marked[uv] # OtherWhite
    BY <1>1, <1>2, <1>3, <1>14 DEF Phase, Swept, OpensNotBlack, IsDead, CloseUpval
  <2>2. m' = IF m.marked[uv] # "gray" THEN m ELSE [m EXCEPT !.marked[uv] = currentwhite]
    BY <1>2, <1>14 DEF LinkUpval
  <2>3. m.marked[uv] \in Colours /\ currentwhite \in Colours
    BY <1>1, <1>2 DEF GCType, Marks, Colours
  <2>4. /\ m' \in Marks
        /\ \A o \in All \ {uv} : m'.marked[o] = m.marked[o]
        /\ m.marked[uv] = "gray" => m'.marked[uv] = currentwhite
        /\ m.marked[uv] # "gray" => m'.marked[uv] = m.marked[uv]
    BY <1>2, <1>5, <2>2, <2>3 DEF Marks
  <2>5. m'.marked[uv] = currentwhite
    BY <1>1, <2>1, <2>3, <2>4, WhiteFacts DEF Colours
  <2>6. GCType'
    BY <1>1, <1>2, <2>4 DEF GCType
  <2>7. OpensNotBlack(m)'
    BY <1>4, <2>1, <2>4 DEF Swept, OpensNotBlack
  <2>8. Swept'
    <3>1. ASSUME NEW o \in alloc \ (unswept \cup ToSet(tmudata)), openOf'[o] \notin unswept
          PROVE  m'.marked[o] = currentwhite
      BY <1>2, <1>4, <2>1, <2>4, <2>5, <3>1 DEF Swept
    <3> QED BY <1>2, <2>1, <2>7, <3>1 DEF Swept
  <2>9. \A o \in alloc : m'.marked[o] = OtherWhite <=> m.marked[o] = OtherWhite
    BY <1>1, <1>2, <2>1, <2>4, <2>5, WhiteFacts
  <2>10. Live' = Live
    BY <1>2, <1>8, <2>9 DEF Live, IsDead
  <2>11. Solid' /\ Phase'
    BY <1>2, <1>10, <1>14, <2>8, <2>10, LiveSame
  <2>12. StoresKnown BY <1>9, <2>10, AccessibleLive DEF StoresKnown
  <2> QED BY <1>6, <1>7, <2>6, <2>11, <2>12 DEF GCInv
<1> QED BY <1>13, <1>14
\* Whatever the program does.
LEMMA ProgramKeeps ==
    ASSUME GCInv, Program
    PROVE  GCInv' /\ StoresKnown
<1>1. ASSUME NEW o \in Objects, New(o) PROVE GCInv' /\ StoresKnown
  BY <1>1, NewKeeps
<1>2. ASSUME NEW o \in Objects, NewProxy(o) PROVE GCInv' /\ StoresKnown
  BY <1>2, NewUdataKeeps DEF NewProxy
<1>3. ASSUME NEW o \in Objects, Intern(o) PROVE GCInv' /\ StoresKnown
  BY <1>3, InternKeeps
<1>4. ASSUME NEW o \in Objects, CloseUpval(o) PROVE GCInv' /\ StoresKnown
  BY <1>4, DeadUpvalKeeps, LiveUpvalKeeps
<1>5. ASSUME NEW th \in Threads, NEW x \in Loadable, Load(th, x) PROVE GCInv' /\ StoresKnown
  BY <1>5, LoadKeeps
<1>6. ASSUME NEW th \in Threads, NEW x \in stack[th], Drop(th, x) PROVE GCInv' /\ StoresKnown
  BY <1>6, DropKeeps
<1>7. ASSUME NEW c \in Objects, NEW uv \in Objects, NEW th \in Threads, CaptureOld(c, uv, th) PROVE GCInv' /\ StoresKnown
  BY <1>7, CaptureOldKeeps
<1>8. ASSUME NEW c \in Objects, NEW uv \in Objects, NEW th \in Threads, NEW v \in Values,
             CaptureNew(c, uv, th, v)
      PROVE  GCInv' /\ StoresKnown
  BY <1>8, CaptureNewKeeps
<1>9. ASSUME NEW o \in Accessible, NEW v \in Values, SetHeld(o, v) PROVE GCInv' /\ StoresKnown
  BY <1>9, SetHeldKeeps
<1>10. ASSUME NEW t \in stack[Main], NEW k \in Values, NEW v \in Values, SetTable(t, k, v) PROVE GCInv' /\ StoresKnown
  BY <1>10, SetTableKeeps
<1> QED BY <1>1, <1>2, <1>3, <1>4, <1>5, <1>6, <1>7, <1>8, <1>9, <1>10 DEF Program

----------------------------------------------------------------------------
(* Steps of the collector *)

\* A step of marking, which nothing is dead at.
LEMMA MarkingStep ==
    ASSUME GCInv, UNCHANGED <<heap, udata, currentwhite, unswept, tmudata>>,
           \A o \in alloc : m.marked[o] # OtherWhite, gcstate' = "propagate",
           NEW n \in Marks, n = m', n.marked[Main] \notin White, Coloured(n, ToSet(tmudata))
    PROVE  GCInv' /\ Live' = Live
<1>1. GCType /\ Shape /\ Lists /\ Solid BY DEF GCInv
<1>2. GCType' BY <1>1 DEF GCType, heap, Phases
<1>3. Shape' BY <1>1 DEF Shape, heap
<1>4. Lists' BY <1>1 DEF Lists, heap
<1>5. \A o \in alloc : n.marked[o] # OtherWhite BY DEF Coloured
<1>6. Live = alloc /\ Live' = alloc
  BY <1>5 DEF Live, IsDead, OtherWhite, heap
<1>7. Solid'
  BY <1>1, <1>6, SameHeap DEF Solid, heap
<1>8. Coloured(m, ToSet(tmudata))'
  <2>1. \A o : Children(o)' = Children(o) /\ (IsWeak(o)' <=> IsWeak(o))
    BY SameHeap DEF heap, IsWeak, WeakKey, WeakValue
  <2>2. kind' = kind /\ alloc' = alloc /\ openOf' = openOf /\ tmudata' = tmudata /\ OtherWhite' = OtherWhite
    BY DEF heap, OtherWhite
  <2>3. ListsTyped(m)' BY <2>2 DEF Coloured, ListsTyped
  <2>4. \A o \in All \ ToSet(tmudata) : openOf[o] # Nil => n.marked[o] # "black" BY DEF Coloured
  <2>5. \A o \in alloc : kind[o] = "thread" \/ IsWeak(o) => n.marked[o] # "black" BY DEF Coloured
  <2>6. \A o \in alloc \ ToSet(tmudata) : n.marked[o] = "gray" =>
            \/ kind[o] = "string" \/ openOf[o] # Nil
            \/ o \in n.gray \cup n.grayagain \cup n.weak
    BY DEF Coloured
  <2>7. \A o \in alloc \ ToSet(tmudata) : n.marked[o] = "black" =>
            \A x \in Children(o)' : n.marked[x] \notin White
    BY <2>1 DEF Coloured
  <2> QED BY <1>5, <2>1, <2>2, <2>3, <2>4, <2>5, <2>6, <2>7 DEF Coloured, White
<1>9. Phase' BY <1>8 DEF Phase, White
<1> QED BY <1>2, <1>3, <1>4, <1>6, <1>7, <1>9 DEF GCInv

\* A new cycle starts with the main thread.
LEMMA BeginKeeps ==
    ASSUME GCInv, gcstate \in {"pause", "finalize"}, m' = MarkRoot(m.marked), gcstate' = "propagate",
           UNCHANGED <<heap, udata, currentwhite, unswept, tmudata>>
    PROVE  GCInv' /\ Live' = Live
<1>1. GCType /\ Shape /\ Lists /\ Solid /\ Swept BY DEF GCInv, Phase
<1> DEFINE r == [marked |-> m.marked, gray |-> {}, grayagain |-> {}, weak |-> {}]
           P == ToSet(tmudata)
           S == {Main}
<1>2. r \in Marks /\ r.marked = m.marked /\ r.gray = {} /\ r.grayagain = {} /\ r.weak = {}
  BY <1>1 DEF GCType, Marks
<1>3. alloc \subseteq All /\ Main \in All /\ P \subseteq Live
  BY <1>1 DEF GCType, Solid
<1>4. \A o \in alloc \ P : m.marked[o] = currentwhite
  BY <1>1 DEF Swept
<1>5. \A o \in alloc : m.marked[o] # OtherWhite
  BY <1>1, <1>3, <1>4, WhiteFacts DEF Live, IsDead
<1>6. \A o \in P : kind[o] \in Userdata
  BY <1>1 DEF Lists
<1> HIDE DEF r, P
<1>7. currentwhite # "black" /\ currentwhite # "gray"
  BY <1>1 DEF GCType, White
<1>8. Coloured(r, P)
  <2>1. ListsTyped(r) BY <1>2 DEF ListsTyped
  <2>2. \A o \in All \ P : openOf[o] # Nil => r.marked[o] # "black"
    BY <1>1, <1>2 DEF Swept, OpensNotBlack
  <2>3. \A o \in alloc : r.marked[o] # OtherWhite BY <1>2, <1>5
  <2>4. \A o \in alloc : kind[o] = "thread" \/ IsWeak(o) => r.marked[o] # "black"
    BY <1>2, <1>4, <1>6, <1>7 DEF Userdata, IsWeak, WeakKey, WeakValue
  <2> QED BY <1>2, <1>4, <1>7, <2>1, <2>2, <2>3, <2>4 DEF Coloured
<1> DEFINE n == Mark(r, S)
<1>9. n = m' BY DEF MarkRoot, r
<1>10. n = Mark(r, S) OBVIOUS
<1> HIDE DEF n, S
<1>11. Coloured(n, P) BY <1>1, <1>2, <1>8, <1>10, MarkColoured
<1>12. n \in Marks /\ \A o \in S \cap All : n.marked[o] \notin White BY <1>1, <1>2, <1>10, MarkFacts
<1>13. n.marked[Main] \notin White BY <1>3, <1>12 DEF S
<1> QED BY <1>5, <1>9, <1>11, <1>12, <1>13, MarkingStep DEF P

LEMMA PropagateMarkKeeps ==
    ASSUME GCInv, NEW o \in All, PropagateMark(o)
    PROVE  GCInv' /\ Live' = Live
<1>1. GCType /\ Shape /\ Lists /\ gcstate = "propagate" /\ o \in m.gray /\ m \in Marks
      /\ UNCHANGED <<heap, udata, currentwhite, gcstate, unswept, tmudata>>
  BY DEF GCInv, PropagateMark, program, collector, GCType
<1> DEFINE P == ToSet(tmudata)
           n == Traverse(m, {o})
<1>2. m.marked[Main] \notin White /\ Coloured(m, P)
  BY <1>1 DEF GCInv, Phase
<1>3. o \notin P
  BY <1>1, <1>2 DEF Coloured, ListsTyped, Lists, Listed, Tables, Userdata
<1>4. n = m' /\ n = Traverse(m, {o}) BY DEF PropagateMark
<1> HIDE DEF P, n
<1>5. Coloured(n, P) /\ n \in Marks /\ n.marked[Main] \notin White
  BY <1>1, <1>2, <1>3, <1>4, TraverseColoured
<1>6. \A x \in alloc : m.marked[x] # OtherWhite BY <1>2 DEF Coloured
<1> QED BY <1>1, <1>4, <1>5, <1>6, MarkingStep DEF P

LEMMA EndCycleKeeps ==
    ASSUME GCInv, EndCycle
    PROVE  GCInv' /\ Live' = Live
<1>1. GCType /\ Shape /\ Lists /\ Solid /\ Swept /\ gcstate = "finalize" /\ gcstate' = "pause"
      /\ UNCHANGED <<heap, udata, m, currentwhite, unswept, tmudata>>
  BY DEF GCInv, EndCycle, Phase, program
<1>2. GCType' /\ Shape' /\ Lists' BY <1>1 DEF GCType, Shape, Lists, heap, Phases
<1>3. Live' = Live BY <1>1 DEF Live, IsDead, OtherWhite, heap
<1>4. Solid' BY <1>1, <1>3, SameHeap DEF Solid
<1>5. Swept' BY <1>1 DEF Swept, OpensNotBlack, heap
<1> QED BY <1>1, <1>2, <1>3, <1>4, <1>5 DEF GCInv, Phase

\* Each object is in the list that gets swept, or an open upvalue of a thread that is,
\* or a userdata that waits for its finalizer.
LEMMA RootListFacts ==
    ASSUME GCType, Shape, NEW tm, \A o \in tm : kind[o] \in Userdata,
           NEW o \in alloc, o \notin RootList(tm) \cup tm
    PROVE  openOf[o] \in RootList(tm)
<1>1. openOf[o] # Nil /\ o \in All BY DEF RootList, GCType
<1>2. openOf[o] \in alloc /\ kind[openOf[o]] = "thread" BY <1>1 DEF Shape
<1>3. openOf[openOf[o]] = Nil BY <1>2 DEF Shape, GCType
<1>4. openOf[o] \notin tm BY <1>2 DEF Userdata
<1> QED BY <1>2, <1>3, <1>4 DEF RootList

\* The marks of a running cycle are thrown away.
LEMMA FullGCSweepKeeps ==
    ASSUME GCInv, FullGCSweep
    PROVE  GCInv' /\ Live' = Live
<1>1. GCType /\ Shape /\ Lists /\ Solid /\ gcstate = "propagate" /\ gcstate' = "sweepstring"
      /\ UNCHANGED <<heap, udata, currentwhite, tmudata>>
      /\ m' = [m EXCEPT !.gray = {}, !.grayagain = {}, !.weak = {}]
      /\ unswept' = RootList(ToSet(tmudata))
  BY DEF GCInv, FullGCSweep, program
<1>2. m.marked[Main] \notin White /\ Coloured(m, ToSet(tmudata)) BY <1>1 DEF GCInv, Phase
<1>3. m' \in Marks /\ m'.marked = m.marked BY <1>1 DEF GCType, Marks
<1>4. GCType' BY <1>1, <1>3 DEF GCType, heap, RootList, Phases
<1>5. Shape' BY <1>1 DEF Shape, heap, RootList
<1>6. Lists' BY <1>1 DEF Lists, heap
<1>7. Live' = Live BY <1>1, <1>3 DEF Live, IsDead, OtherWhite, heap
<1>8. Solid' BY <1>1, <1>7, SameHeap DEF Solid
<1>9. OpensNotBlack(m)'
  BY <1>1, <1>2, <1>3 DEF Coloured, OpensNotBlack, Shape, Lists, Userdata, heap
<1>10. ASSUME NEW o \in alloc, o \notin RootList(ToSet(tmudata)) \cup ToSet(tmudata)
       PROVE  openOf[o] \in RootList(ToSet(tmudata))
  <2>1. \A u \in ToSet(tmudata) : kind[u] \in Userdata BY <1>1 DEF Lists
  <2> QED BY <1>1, <1>10, <2>1, RootListFacts
<1>11. Swept' BY <1>1, <1>9, <1>10 DEF Swept, heap
<1> QED BY <1>1, <1>4, <1>5, <1>6, <1>7, <1>8, <1>11 DEF GCInv, Phase
\* The dead objects D are freed.
Freed(D) ==
    /\ D \subseteq alloc \ Live /\ alloc' = alloc \ D /\ Live' = Live
    /\ ToSet(udata') = ToSet(udata) \ D /\ hasgc' = hasgc \ D /\ finalized' = finalized \ D
    /\ stack[Main] \subseteq stack'[Main]
    /\ \A o \in Live : Held(o)' \subseteq Held(o)

\* Sweeping frees what is dead, and makes white what is not.
LEMMA SweepKeeps ==
    ASSUME GCInv, gcstate \in {"sweepstring", "sweep"}, NEW S \in SUBSET unswept, Sweep(S),
           gcstate' \in {"sweepstring", "sweep", "finalize"}, gcstate' = "finalize" => unswept' = {},
           UNCHANGED <<kind, currentwhite, tmudata>>
    PROVE  GCInv' /\ \E D : Freed(D)
<1>1. GCType /\ Shape /\ Lists /\ Solid /\ Swept BY DEF GCInv, Phase
<1> DEFINE opened == UNION {OpenIn(th) : th \in S}
           dead == {o \in S \cup opened : IsDead(o) /\ o # Main}
           X == S \cup opened
<1>2. /\ alloc' = alloc \ dead
      /\ key' = [o \in All |-> IF o \in dead THEN Nil ELSE key[o]]
      /\ val' = [o \in All |-> IF o \in dead THEN Nil ELSE val[o]]
      /\ stack' = [o \in All |-> IF o \in dead THEN {} ELSE
                       stack[o] \cup ({val[uv] : uv \in dead \cap OpenIn(o)} \ {Nil})]
      /\ openOf' = [o \in All |-> IF {o, openOf[o]} \cap dead # {} THEN Nil ELSE openOf[o]]
      /\ udata' \in Sublists(udata, ToSet(udata) \ dead)
      /\ m' = [m EXCEPT !.marked = [o \in All |-> IF o \in X THEN currentwhite ELSE @[o]]]
      /\ unswept' = unswept \ S /\ hasgc' = hasgc \ dead /\ finalized' = finalized \ dead
  BY DEF Sweep
<1>3. /\ \A u \in opened : u \in alloc /\ openOf[u] \in S
      /\ \A u \in alloc : openOf[u] \in S => u \in opened
  BY DEF OpenIn
<1>4. /\ dead \subseteq X /\ S \subseteq X /\ opened \subseteq X /\ \A o \in X : o \in S \/ o \in opened
      /\ \A o \in X : o \in dead <=> IsDead(o) /\ o # Main
  OBVIOUS
<1> HIDE DEF opened, dead, X
<1>5. alloc \subseteq All /\ S \subseteq alloc /\ Main \in All /\ ~IsDead(Main) /\ currentwhite \in White
      /\ unswept \subseteq alloc
  BY <1>1 DEF GCType, Solid, Live
<1>6. X \subseteq alloc
  BY <1>3, <1>4, <1>5
<1>7. \A u \in opened : openOf[u] # Nil /\ kind[u] = "upval" /\ u \notin unswept
  <2>1. \A u \in opened : openOf[u] # Nil
    BY <1>3, <1>5, NilFresh
  <2> QED BY <1>1, <1>3, <1>5, <2>1 DEF Shape
<1>8. m' \in Marks /\ (\A o \in X : m'.marked[o] = currentwhite)
      /\ \A o \in All \ X : m'.marked[o] = m.marked[o]
  BY <1>1, <1>2, <1>5, <1>6 DEF GCType, Marks, Colours
<1>9. \A o \in All : \A u \in OpenIn(o) : u \in alloc /\ openOf[u] = o /\ val[u] \in All \cup {Nil}
  BY <1>1, <1>5 DEF OpenIn, GCType
<1>10. GCType'
  <2>1. stack' \in [All -> SUBSET All]
    BY <1>1, <1>2, <1>9 DEF GCType
  <2>2. key' \in [All -> All \cup {Nil}] /\ val' \in [All -> All \cup {Nil}] /\ openOf' \in [All -> All \cup {Nil}]
    BY <1>1, <1>2 DEF GCType
  <2>3. Main \in alloc' BY <1>1, <1>2, <1>4 , <1>5 DEF GCType
  <2>4. unswept' \subseteq alloc' BY <1>2, <1>4, <1>5, <1>7
  <2>5. alloc' \subseteq All /\ gcstate' \in Phases BY <1>2, <1>5 DEF Phases
  <2>6. kind' = kind /\ currentwhite' = currentwhite OBVIOUS
  <2> QED BY <1>1, <1>8, <2>1, <2>2, <2>3, <2>4, <2>5, <2>6 DEF GCType
<1>11. \A o \in All : o \notin dead /\ (o \notin alloc \/ kind[o] # "thread") => stack'[o] = stack[o]
  <2> SUFFICES ASSUME NEW o \in All, o \notin dead, o \notin alloc \/ kind[o] # "thread"
               PROVE  stack'[o] = stack[o]
    OBVIOUS
  <2>1. OpenIn(o) = {}
    BY <1>1, <1>5, <1>9, NilFresh DEF Shape
  <2> QED BY <1>2, <2>1
<1>12. \A o \in All : openOf'[o] # Nil => openOf'[o] = openOf[o] /\ o \notin dead /\ openOf[o] \notin dead
  BY <1>2
<1>13. \A o \in dead : key'[o] = Nil /\ val'[o] = Nil /\ stack'[o] = {} /\ openOf'[o] = Nil
  BY <1>2, <1>4, <1>5, <1>6
<1>14. \A o \in All \ dead : key'[o] = key[o] /\ val'[o] = val[o]
  BY <1>2
<1>15. Shape'
  <2>1. ASSUME NEW o \in All, openOf'[o] # Nil
        PROVE  /\ kind[o] = "upval" /\ o \in alloc' /\ o \notin unswept'
               /\ openOf'[o] \in alloc' /\ kind[openOf'[o]] = "thread"
    BY <1>1, <1>2, <1>12, <2>1 DEF Shape
  <2>2. \A o \in alloc' : kind[o] # "unused" BY <1>1, <1>2 DEF Shape
  <2>3. ASSUME NEW o \in All, o \notin alloc' PROVE key'[o] = Nil /\ val'[o] = Nil /\ stack'[o] = {}
    <3>1. CASE o \in dead BY <1>13, <3>1
    <3>2. CASE o \notin dead
      <4>1. o \notin alloc BY <1>2, <2>3, <3>2
      <4> QED BY <1>1, <1>11, <1>14, <3>2, <4>1 DEF Shape
    <3> QED BY <3>1, <3>2
  <2>4. \A o \in All : key'[o] # Nil => kind[o] \in Tables
    BY <1>1, <1>13, <1>14 DEF Shape
  <2>5. \A o \in All : val'[o] # Nil => kind[o] \notin {"string", "thread", "java", "unused"}
    BY <1>1, <1>13, <1>14 DEF Shape
  <2>6. \A o \in All : stack'[o] # {} => kind[o] = "thread"
    BY <1>1, <1>11, <1>13 DEF Shape
  <2> QED BY <2>1, <2>2, <2>3, <2>4, <2>5, <2>6 DEF Shape
<1>16. \A o \in alloc : o \in alloc' /\ m'.marked[o] # OtherWhite <=> o \in Live
  <2> SUFFICES ASSUME NEW o \in alloc
               PROVE  o \in alloc' /\ m'.marked[o] # OtherWhite <=> o \in Live
    OBVIOUS
  <2>1. CASE o \in X
    BY <1>1, <1>2, <1>4, <1>5, <1>8, <2>1, WhiteFacts DEF Live
  <2>2. CASE o \notin X
    BY <1>2, <1>4, <1>5, <1>8, <2>2 DEF Live, IsDead
  <2> QED BY <2>1, <2>2
<1>17. Live' = Live
  <2>1. OtherWhite' = OtherWhite BY DEF OtherWhite
  <2>2. alloc' \subseteq alloc BY <1>2
  <2> QED BY <1>16, <2>1, <2>2 DEF Live, IsDead
<1>18. ToSet(tmudata) \cap dead = {}
  BY <1>1, <1>4, <1>5, <1>6 DEF Solid, Live
<1>19. Lists' /\ ToSet(udata') = ToSet(udata) \ dead
  <2> DEFINE T == ToSet(udata) \ dead
  <2>1. T \in SUBSET ToSet(udata) /\ udata \in Seq(Objects) /\ Once(udata) BY <1>1 DEF Lists
  <2>2. udata' \in Sublists(udata, T) BY <1>2
  <2> HIDE DEF T
  <2>3. udata' \in Seq(Objects) /\ Once(udata') /\ ToSet(udata') = T BY <2>1, <2>2, SublistFacts
  <2>4. ToSet(udata') = ToSet(udata) \ dead BY <2>3 DEF T
  <2>5. ToSet(udata') \cup ToSet(tmudata) = {o \in alloc' : kind[o] \in Userdata}
    BY <1>1, <1>2, <1>18, <2>4 DEF Lists
  <2> QED BY <1>1, <2>3, <2>4, <2>5 DEF Lists
<1>20. ASSUME NEW o \in Live PROVE Held(o)' \subseteq Held(o)
  <2>1. o \in All /\ o \notin dead
    BY <1>4, <1>5, <1>20 DEF Live
  <2>2. CASE kind[o] # "thread"
    BY <1>14, <2>1, <2>2 DEF Held
  <2>3. CASE kind[o] = "thread"
    <3>1. stack'[o] \subseteq Slots(o)
      BY <1>2, <2>1 DEF Slots
    <3>2. \A u \in OpenIn(o)' : u \in OpenIn(o) /\ val'[u] = val[u]
      <4> SUFFICES ASSUME NEW u \in OpenIn(o)' PROVE u \in OpenIn(o) /\ val'[u] = val[u]
        OBVIOUS
      <4>1. u \in alloc /\ u \in All /\ openOf'[u] = o /\ openOf'[u] # Nil
        BY <1>2, <1>5, <2>1, NilFresh DEF OpenIn
      <4> QED BY <1>12, <1>14, <4>1 DEF OpenIn
    <3>3. Slots(o)' \subseteq Slots(o)
      BY <3>1, <3>2 DEF Slots
    <3> QED BY <2>3, <3>3 DEF Held
  <2> QED BY <2>2, <2>3
<1>21. Solid'
  BY <1>1, <1>17, <1>20 DEF Solid
<1>22. OpensNotBlack(m)'
  BY <1>1, <1>5, <1>8, <1>12, WhiteFacts DEF Swept, OpensNotBlack
<1>23. ASSUME NEW o \in alloc', o \notin unswept' \cup ToSet(tmudata), openOf'[o] \notin unswept'
       PROVE  m'.marked[o] = currentwhite
  <2>1. CASE o \in X
    BY <1>8, <2>1
  <2>2. CASE o \notin X
    <3>1. o \in alloc /\ o \in All /\ o \notin unswept /\ o \notin dead /\ openOf[o] \notin S
      BY <1>2, <1>3, <1>4, <1>5, <1>23, <2>2
    <3>2. openOf[o] \notin dead
      <4>1. ASSUME openOf[o] \in dead PROVE FALSE
        <5>1. openOf[o] \in opened /\ openOf[o] \in All
          BY <1>4, <1>5, <1>6, <3>1, <4>1
        <5>2. kind[openOf[o]] = "upval" /\ openOf[o] # Nil BY <1>7, <5>1, NilFresh
        <5>3. kind[openOf[o]] = "thread" BY <1>1, <3>1, <5>2 DEF Shape
        <5> QED BY <5>2, <5>3
      <4> QED BY <4>1
    <3>3. openOf'[o] = openOf[o] BY <1>2, <3>1, <3>2
    <3>4. openOf[o] \notin unswept BY <1>2, <1>23, <3>1, <3>3
    <3> QED BY <1>1, <1>8, <1>23, <2>2, <3>1, <3>4 DEF Swept
  <2> QED BY <2>1, <2>2
<1>24. Swept'
  BY <1>22, <1>23 DEF Swept
<1>25. Freed(dead)
  <2>1. dead \subseteq alloc \ Live BY <1>4, <1>6 DEF Live
  <2>2. stack[Main] \subseteq stack'[Main] BY <1>2, <1>4, <1>5
  <2> QED BY <1>2, <1>17, <1>19, <1>20, <2>1, <2>2 DEF Freed
<1> QED BY <1>10, <1>15, <1>19, <1>21, <1>24, <1>25 DEF GCInv, Phase

LEMMA SweepStepsKeep ==
    ASSUME GCInv,
           (\E S \in SUBSET Objects : SweepString(S)) \/ (\E o \in All : SweepObject(o))
    PROVE  GCInv' /\ \E D : Freed(D)
<1>1. ASSUME NEW S \in SUBSET Objects, SweepString(S) PROVE GCInv' /\ \E D : Freed(D)
  <2>1. S \in SUBSET unswept BY <1>1 DEF SweepString, Strings
  <2> QED BY <1>1, <2>1, SweepKeeps DEF SweepString
<1>2. ASSUME NEW o \in All, SweepObject(o) PROVE GCInv' /\ \E D : Freed(D)
  <2> DEFINE S == {o}
  <2>1. S \in SUBSET unswept /\ Sweep(S) /\ gcstate = "sweep"
        /\ gcstate' = (IF unswept = S THEN "finalize" ELSE gcstate)
        /\ UNCHANGED <<kind, currentwhite, tmudata>>
    BY <1>2 DEF SweepObject
  <2>2. unswept' = unswept \ S BY <2>1 DEF Sweep
  <2> HIDE DEF S
  <2> QED BY <2>1, <2>2, SweepKeeps
<1> QED BY <1>1, <1>2

\* The finalizer of the first userdata in the list tmudata gets called.
LEMMA GCTMKeeps ==
    ASSUME GCInv, NEW u \in Objects, GCTM(u), gcstate = "finalize"
    PROVE  /\ GCInv' /\ Live' = Live
           /\ u \in ToSet(tmudata)
           /\ ToSet(tmudata') = ToSet(tmudata) \ {u} /\ ToSet(udata') = ToSet(udata) \cup {u}
<1>1. GCType /\ Shape /\ Lists /\ Solid /\ Swept BY DEF GCInv, Phase, GCTM
<1>2. /\ gcstate = "finalize" /\ tmudata # <<>> /\ u = Head(tmudata)
      /\ tmudata' = Tail(tmudata) /\ udata' = <<u>> \o udata
      /\ m' = [m EXCEPT !.marked[u] = currentwhite]
      /\ stack' = IF kind[u] = "proxy" THEN [stack EXCEPT ![Main] = @ \cup {u}] ELSE stack
      /\ UNCHANGED <<kind, alloc, key, val, openOf, currentwhite, gcstate, unswept>>
  BY DEF GCTM
<1>3. /\ u \in ToSet(tmudata) /\ tmudata' \in Seq(Objects) /\ Once(tmudata')
      /\ ToSet(tmudata') = ToSet(tmudata) \ {u}
  BY <1>1, <1>2, TailOnce DEF Lists
<1> DEFINE t == <<u>>
<1>4. t \in Seq(Objects) /\ Once(t) /\ ToSet(t) = {u} BY OneOnce
<1> HIDE DEF t
<1>5. /\ udata' \in Seq(Objects) /\ Once(udata') /\ ToSet(udata') = {u} \cup ToSet(udata)
  <2>1. udata' = t \o udata BY <1>2 DEF t
  <2>2. udata \in Seq(Objects) /\ Once(udata) /\ ToSet(t) \cap ToSet(udata) = {}
    BY <1>1, <1>3, <1>4 DEF Lists
  <2> QED BY <1>4, <2>1, <2>2, ConcatOnce
<1>6. /\ u \in Live /\ u \in alloc /\ u \in All /\ u # Main /\ alloc \subseteq All /\ Main \in All
      /\ kind[u] \in Userdata /\ currentwhite \in White
  BY <1>1, <1>3 DEF Solid, Live, GCType, Lists, Userdata
<1>7. m' \in Marks /\ m'.marked[u] = currentwhite /\ \A o \in All \ {u} : m'.marked[o] = m.marked[o]
  BY <1>1, <1>2, <1>6 DEF GCType, Marks, Colours
<1>8. /\ stack' \in [All -> SUBSET All] /\ \A o \in All \ {Main} : stack'[o] = stack[o]
      /\ stack'[Main] \subseteq stack[Main] \cup {u}
  BY <1>1, <1>2, <1>6 DEF GCType
<1>9. GCType'
  BY <1>1, <1>2, <1>7, <1>8 DEF GCType
<1>10. Shape'
  BY <1>1, <1>2, <1>8 DEF Shape, GCType
<1>11. Lists'
  BY <1>1, <1>2, <1>3, <1>5 DEF Lists
<1>12. Live' = Live
  <2>1. OtherWhite' = OtherWhite BY <1>2 DEF OtherWhite
  <2>2. \A o \in alloc : m'.marked[o] = OtherWhite <=> m.marked[o] = OtherWhite
    BY <1>1, <1>6, <1>7, WhiteFacts DEF Live, IsDead
  <2> QED BY <1>2, <2>1, <2>2 DEF Live, IsDead
<1>13. ASSUME NEW o \in Live PROVE Held(o)' \subseteq Live
  <2>1. o \in All /\ Held(o) \subseteq Live BY <1>1, <1>6, <1>13 DEF Solid, Live
  <2>2. OpenIn(o)' = OpenIn(o) BY <1>2 DEF OpenIn
  <2>3. CASE kind[o] = "thread"
    <3>1. Slots(o)' \subseteq Slots(o) \cup {u} BY <1>2, <1>8, <2>1, <2>2 DEF Slots
    <3>2. Held(o) = Slots(o) \ {Nil} /\ Held(o)' = Slots(o)' \ {Nil} BY <1>2, <2>3 DEF Held
    <3> QED BY <1>6, <2>1, <3>1, <3>2
  <2>4. CASE kind[o] # "thread"
    BY <1>2, <2>1, <2>4 DEF Held
  <2> QED BY <2>3, <2>4
<1>14. Solid'
  BY <1>1, <1>3, <1>12, <1>13 DEF Solid
<1>15. Swept'
  <2>1. OpensNotBlack(m)' BY <1>1, <1>2, <1>6, <1>7, WhiteFacts DEF Swept, OpensNotBlack
  <2>2. ASSUME NEW o \in alloc, o \notin unswept \cup ToSet(tmudata'), openOf[o] \notin unswept
        PROVE  m'.marked[o] = currentwhite
    BY <1>1, <1>3, <1>6, <1>7, <2>2 DEF Swept
  <2> QED BY <1>1, <1>2, <2>1, <2>2 DEF Swept
<1> QED BY <1>2, <1>3, <1>5, <1>9, <1>10, <1>11, <1>12, <1>14, <1>15 DEF GCInv, Phase

LEMMA InitHolds ==
    ASSUME Init
    PROVE  GCInv
<1>1. /\ alloc = {Main} /\ key = [o \in All |-> Nil] /\ val = [o \in All |-> Nil]
      /\ stack = [o \in All |-> {}] /\ openOf = [o \in All |-> Nil]
      /\ m = [marked |-> [o \in All |-> "white0"], gray |-> {}, grayagain |-> {}, weak |-> {}]
      /\ currentwhite = "white0" /\ gcstate = "pause" /\ unswept = {}
      /\ udata = <<>> /\ tmudata = <<>>
  BY DEF Init
<1>2. Main \in All BY DEF All
<1>3. kind \in [All -> Kinds] /\ kind[Main] = "thread"
  <2>1. PICK plan \in Plans : kind = [o \in All |-> IF o = Main THEN "thread" ELSE plan[o]]
    BY DEF Init
  <2>2. plan \in [Objects -> Tables \cup Userdata \cup {"closure", "upval", "thread", "string", "unused"}]
    BY GCAssumption
  <2> QED BY <1>2, <2>1, <2>2 DEF Kinds, All
<1>4. m \in Marks /\ m.marked = [o \in All |-> "white0"]
  BY <1>1 DEF Marks, Colours, White
<1>5. GCType
  BY <1>1, <1>2, <1>3, <1>4 DEF GCType, Phases, White
<1>6. Shape BY <1>1, <1>2, <1>3 DEF Shape
<1>7. ToSet(udata) = {} /\ ToSet(tmudata) = {} /\ udata \in Seq(Objects) /\ Once(udata)
  BY <1>1 DEF ToSet, Once
<1>8. Lists BY <1>1, <1>3, <1>7 DEF Lists, Userdata
<1>9. Live = {Main} BY <1>1, <1>2, <1>4 DEF Live, IsDead, OtherWhite
<1>10. OpenIn(Main) = {} BY <1>1, <1>2, NilFresh DEF OpenIn
<1>11. Held(Main) = {} BY <1>1, <1>2, <1>3, <1>10 DEF Held, Slots
<1>12. Solid BY <1>7, <1>9, <1>11 DEF Solid
<1>13. Swept BY <1>1, <1>2, <1>4 DEF Swept, OpensNotBlack
<1> QED BY <1>1, <1>5, <1>6, <1>8, <1>12, <1>13 DEF GCInv, Phase
\* What atomic does, step by step.  The userdata it finds, those to be finalized, and
\* the marks after marktmu:
Separated(L) == Separate(FALSE, Remarked(L).marked)
ToFinalize(L) == ToSet(tmudata) \cup Separated(L)
Preserved(L) == MarkPreserved(Remarked(L), ToFinalize(L))

LEMMA AtomicFacts ==
    ASSUME GCInv, NEW L, Atomic(L), NEW x1, x1 = Remarked(L), NEW sep, sep = Separated(L),
           NEW tm, tm = ToFinalize(L), NEW x2, x2 = Preserved(L)
    PROVE  /\ x1 \in Marks /\ Good(x1, ToSet(tmudata)) /\ Grown(m, x1) /\ x1.gray = {}
           /\ tm \in SUBSET All /\ \A o \in tm : kind[o] \in Userdata /\ o \in alloc
           /\ \A o \in sep : o \in ToSet(udata) /\ x1.marked[o] \in White
           /\ x2 \in Marks /\ OpensNotBlack(x2)
           /\ \A o \in All : x2.marked[o] \notin White => \A x \in Children(o) : x2.marked[x] \notin White
           /\ \A o \in alloc : IsWeak(o) /\ x2.marked[o] \notin White => o \in x2.weak
           /\ \A o \in tm : x2.marked[o] \notin White
           /\ \A o \in All : m.marked[o] \notin White => x2.marked[o] \notin White
           /\ \A o \in All : x2.marked[o] \in White => x1.marked[o] = x2.marked[o] /\ m.marked[o] = x2.marked[o]
           /\ (\A o \in tm : Children(o) = {}) =>
                  \A o \in All : x2.marked[o] \notin White => x1.marked[o] \notin White \/ o \in tm
<1>1. GCType /\ Shape /\ Lists /\ m \in Marks /\ gcstate = "propagate" /\ m.gray = {} /\ alloc \subseteq All
  BY DEF GCInv, Atomic, GCType
<1> DEFINE P == ToSet(tmudata)
<1>2. Coloured(m, P) BY <1>1 DEF GCInv, Phase
<1>3. \A o \in P : kind[o] \in Userdata /\ o \in alloc BY <1>1 DEF Lists
<1>4. \A o \in sep : o \in ToSet(udata) /\ x1.marked[o] \in White BY DEF Separate, Separated
<1>5. P \subseteq tm /\ \A o \in tm : o \in P \/ o \in sep
  BY DEF ToFinalize, Separated
<1>6. \A o \in tm : kind[o] \in Userdata /\ o \in alloc
  BY <1>1, <1>4, <1>5 DEF Lists
<1>7. tm \in SUBSET All BY <1>1, <1>6
<1>8. Good(x1, ToSet(tmudata))
  <2> HIDE DEF P
  <2>1. Good(x1, P) BY <1>1, <1>2, <1>3, RemarkedGood
  <2> QED BY <2>1 DEF P
<1> HIDE DEF P
<1>9. x1 \in Marks /\ Good(x1, P) /\ Grown(m, x1) /\ x1.gray = {}
  BY <1>1, <1>2, <1>3, RemarkedGood
<1>10. /\ x2 \in Marks /\ ListsTyped(x2) /\ OpensNotBlack(x2)
       /\ \A o \in All : x2.marked[o] \notin White => \A x \in Children(o) : x2.marked[x] \notin White
       /\ \A o \in alloc : IsWeak(o) /\ x2.marked[o] \notin White => o \in x2.weak
       /\ \A o \in tm : x2.marked[o] \notin White
       /\ \A o \in All : x1.marked[o] \notin White => x2.marked[o] \notin White
       /\ \A o \in All : x2.marked[o] \in White => x2.marked[o] = x1.marked[o]
       /\ (\A o \in tm : Children(o) = {}) =>
              \A o \in All : x2.marked[o] \notin White => x1.marked[o] \notin White \/ o \in tm
  <2>1. /\ GCType /\ Shape /\ x1 \in Marks /\ tm \in SUBSET All /\ P \subseteq tm
        /\ Good(x1, P) /\ x1.gray = {} /\ \A o \in tm : kind[o] \in Userdata
    BY <1>1, <1>5, <1>6, <1>7, <1>9
  <2>2. x2 = MarkPreserved(x1, tm) BY DEF Preserved
  <2> QED BY <2>1, <2>2, PreservedGood
<1>11. /\ \A o \in All : m.marked[o] \notin White => x2.marked[o] \notin White
       /\ \A o \in All : x2.marked[o] \in White => x1.marked[o] = x2.marked[o] /\ m.marked[o] = x2.marked[o]
  BY <1>9, <1>10 DEF Grown
<1> QED BY <1>4, <1>6, <1>7, <1>8, <1>9, <1>10, <1>11

\* What goes over from the list udata to the list tmudata.
LEMMA AppendOnce ==
    ASSUME Lists, NEW S \in SUBSET ToSet(udata), NEW t,
           \E list \in Sublists(udata, S) : t = tmudata \o list
    PROVE  t \in Seq(Objects) /\ Once(t) /\ ToSet(t) = ToSet(tmudata) \cup S
<1>1. PICK list \in Sublists(udata, S) : t = tmudata \o list OBVIOUS
<1>2. udata \in Seq(Objects) /\ Once(udata)
      /\ tmudata \in Seq(Objects) /\ Once(tmudata) /\ ToSet(udata) \cap ToSet(tmudata) = {}
  BY DEF Lists
<1>3. list \in Seq(Objects) /\ Once(list) /\ ToSet(list) = S BY <1>2, SublistFacts
<1>4. ToSet(tmudata) \cap ToSet(list) = {} BY <1>2, <1>3
<1>5. /\ tmudata \o list \in Seq(Objects) /\ Once(tmudata \o list)
      /\ ToSet(tmudata \o list) = ToSet(tmudata) \cup ToSet(list)
  BY <1>2, <1>3, <1>4, ConcatOnce
<1> QED BY <1>1, <1>3, <1>5

\* The strings in weak tables get marked, what else is white leaves them.
LEMMA AtomicClears ==
    ASSUME GCInv, NEW L, Atomic(L), NEW x1, x1 = Remarked(L), NEW sep, sep = Separated(L),
           NEW tm, tm = ToFinalize(L), NEW x2, x2 = Preserved(L),
           x2 \in Marks, \A o \in sep : o \in ToSet(udata)
    PROVE  /\ m' \in Marks /\ \A o \in All : m'.marked[o] = x2.marked[o] \/ (kind[o] = "string" /\ m'.marked[o] = "gray")
           /\ key' \in [All -> All \cup {Nil}] /\ val' \in [All -> All \cup {Nil}]
           /\ \A o \in All : key'[o] \in {key[o], Nil} /\ val'[o] \in {val[o], Nil}
           /\ \A o \in x2.weak : key'[o] # Nil => m'.marked[key'[o]] \notin White
           /\ \A o \in x2.weak : val'[o] # Nil =>
                  /\ m'.marked[val'[o]] \notin White
                  /\ kind[val'[o]] \in Userdata => val'[o] \notin finalized'
           /\ finalized' = finalized \cup {u \in ToSet(udata) : x1.marked[u] \in White}
           /\ udata' \in Seq(Objects) /\ Once(udata') /\ ToSet(udata') = ToSet(udata) \ sep
           /\ tmudata' \in Seq(Objects) /\ Once(tmudata') /\ ToSet(tmudata') = tm
           /\ unswept' = RootList(tm) /\ currentwhite' = OtherWhite /\ gcstate' = "sweepstring"
           /\ UNCHANGED <<kind, alloc, stack, openOf, hasgc>>
<1> DEFINE final == finalized \cup {u \in ToSet(udata) : Remarked(L).marked[u] \in White}
           keyGone(t) == IsCleared(Preserved(L).marked, key[t], TRUE, final)
           gone(t) == keyGone(t) \/ IsCleared(Preserved(L).marked, val[t], FALSE, final)
           strings == {s \in All : /\ kind[s] = "string"
                                   /\ \E t \in Preserved(L).weak : s = key[t] \/ (s = val[t] /\ ~keyGone(t))}
<1>0. /\ \E list \in Sublists(udata, Separated(L)) : tmudata' = tmudata \o list
      /\ finalized' = final
      /\ udata' \in Sublists(udata, ToSet(udata) \ Separated(L))
      /\ key' = [o \in All |-> IF o \in Preserved(L).weak /\ gone(o) THEN Nil ELSE key[o]]
      /\ val' = [o \in All |-> IF o \in Preserved(L).weak /\ gone(o) THEN Nil ELSE val[o]]
      /\ m' = [marked |-> [o \in All |-> IF o \in strings THEN "gray" ELSE Preserved(L).marked[o]],
               gray |-> {}, grayagain |-> {}, weak |-> {}]
      /\ unswept' = RootList(ToFinalize(L))
  BY DEF Atomic, Separated, ToFinalize, Preserved
<1>1. /\ \E list \in Sublists(udata, sep) : tmudata' = tmudata \o list
      /\ finalized' = final
      /\ udata' \in Sublists(udata, ToSet(udata) \ sep)
      /\ key' = [o \in All |-> IF o \in x2.weak /\ gone(o) THEN Nil ELSE key[o]]
      /\ val' = [o \in All |-> IF o \in x2.weak /\ gone(o) THEN Nil ELSE val[o]]
      /\ m' = [marked |-> [o \in All |-> IF o \in strings THEN "gray" ELSE x2.marked[o]],
               gray |-> {}, grayagain |-> {}, weak |-> {}]
      /\ unswept' = RootList(tm) /\ currentwhite' = OtherWhite /\ gcstate' = "sweepstring"
      /\ UNCHANGED <<kind, alloc, stack, openOf, hasgc>>
  <2> HIDE DEF final, gone, strings
  <2> QED BY <1>0 DEF Atomic
<1>2. GCType /\ Shape /\ Lists BY DEF GCInv
<1>3. \A o \in strings : kind[o] = "string" OBVIOUS
<1>4. \A t \in x2.weak : ~gone(t) =>
          /\ key[t] \in All /\ kind[key[t]] = "string" => key[t] \in strings
          /\ val[t] \in All /\ kind[val[t]] = "string" => val[t] \in strings
  <2>1. \A t : ~gone(t) => ~keyGone(t) OBVIOUS
  <2> HIDE DEF keyGone
  <2> QED BY <2>1
<1>5. \A t : ~gone(t) =>
          /\ key[t] # Nil /\ kind[key[t]] # "string" => x2.marked[key[t]] \notin White
          /\ val[t] # Nil /\ kind[val[t]] # "string" =>
                 x2.marked[val[t]] \notin White /\ (kind[val[t]] \in Userdata => val[t] \notin final)
  BY DEF IsCleared
<1> HIDE DEF keyGone, gone, strings
<1>6. x2.marked \in [All -> Colours] /\ x2.weak \subseteq All BY DEF Marks
<1>7. m' \in Marks BY <1>1, <1>6 DEF Marks, Colours
<1>8. \A o \in All : m'.marked[o] = IF o \in strings THEN "gray" ELSE x2.marked[o]
  BY <1>1
<1>9. \A o \in All : m'.marked[o] = x2.marked[o] \/ (kind[o] = "string" /\ m'.marked[o] = "gray")
  BY <1>3, <1>8
<1>10. key' \in [All -> All \cup {Nil}] /\ val' \in [All -> All \cup {Nil}]
  BY <1>1, <1>2 DEF GCType
<1>11. \A o \in All : key'[o] \in {key[o], Nil} /\ val'[o] \in {val[o], Nil}
  BY <1>1
<1>12. \A o \in x2.weak : (key'[o] # Nil \/ val'[o] # Nil) => ~gone(o)
  BY <1>1, <1>6
<1>13. ASSUME NEW o \in x2.weak, key'[o] # Nil PROVE m'.marked[key'[o]] \notin White
  <2>1. ~gone(o) /\ key'[o] = key[o] /\ key[o] \in All BY <1>6, <1>10, <1>11, <1>12, <1>13
  <2>2. kind[key[o]] = "string" => m'.marked[key[o]] = "gray" BY <1>4, <1>8, <1>13, <2>1
  <2>3. kind[key[o]] # "string" => m'.marked[key[o]] \notin White BY <1>5, <1>9, <1>13, <2>1
  <2> QED BY <1>2, <2>1, <2>2, <2>3, WhiteFacts
<1>14. ASSUME NEW o \in x2.weak, val'[o] # Nil
       PROVE  m'.marked[val'[o]] \notin White /\ (kind[val'[o]] \in Userdata => val'[o] \notin final)
  <2>1. ~gone(o) /\ val'[o] = val[o] /\ val[o] \in All BY <1>6, <1>10, <1>11, <1>12, <1>14
  <2>2. kind[val[o]] = "string" => m'.marked[val[o]] = "gray" /\ kind[val[o]] \notin Userdata
    BY <1>4, <1>8, <1>14, <2>1 DEF Userdata
  <2>3. kind[val[o]] # "string" =>
            m'.marked[val[o]] \notin White /\ (kind[val[o]] \in Userdata => val[o] \notin final)
    BY <1>5, <1>9, <1>14, <2>1
  <2> QED BY <1>2, <2>1, <2>2, <2>3, WhiteFacts
<1>15. udata' \in Seq(Objects) /\ Once(udata') /\ ToSet(udata') = ToSet(udata) \ sep
  <2> DEFINE T == ToSet(udata) \ sep
  <2>1. T \in SUBSET ToSet(udata) /\ udata \in Seq(Objects) /\ Once(udata) BY <1>2 DEF Lists
  <2>2. udata' \in Sublists(udata, T) BY <1>1
  <2> HIDE DEF T
  <2>3. udata' \in Seq(Objects) /\ Once(udata') /\ ToSet(udata') = T BY <2>1, <2>2, SublistFacts
  <2> QED BY <2>3 DEF T
<1>16. tmudata' \in Seq(Objects) /\ Once(tmudata') /\ ToSet(tmudata') = tm
  <2>1. sep \in SUBSET ToSet(udata) /\ tm = ToSet(tmudata) \cup sep
    BY DEF ToFinalize
  <2> QED BY <1>1, <1>2, <2>1, AppendOnce
<1> HIDE DEF final
<1>17. finalized' = final BY <1>1
<1>18. ASSUME NEW o \in x2.weak, val'[o] # Nil
       PROVE  kind[val'[o]] \in Userdata => val'[o] \notin finalized'
  BY <1>14, <1>17, <1>18
<1> QED BY <1>1, <1>7, <1>9, <1>10, <1>11, <1>13, <1>14, <1>15, <1>16, <1>17, <1>18 DEF final
\* Atomic leaves what is marked alive; nothing alive leads to what is not.
LEMMA AtomicKeeps ==
    ASSUME GCInv, NEW L, Atomic(L)
    PROVE  /\ GCInv' /\ \A o \in All : Held(o)' \subseteq Held(o)
           /\ \A o \in alloc : o \in Live' <=> \/ kind[o] = "string" /\ m'.marked[o] = "gray"
                                            \/ Preserved(L).marked[o] \notin White
<1> DEFINE x1 == Remarked(L)
           sep == Separated(L)
           tm == ToFinalize(L)
           x2 == Preserved(L)
<1>1. GCType /\ Shape /\ Lists /\ Solid /\ alloc \subseteq All /\ Main \in alloc
      /\ m.marked[Main] \notin White /\ Coloured(m, ToSet(tmudata))
  BY DEF GCInv, GCType, Phase, Atomic
<1>2. /\ \A o \in tm : kind[o] \in Userdata /\ o \in alloc
      /\ \A o \in sep : o \in ToSet(udata) /\ x1.marked[o] \in White
      /\ x2 \in Marks /\ OpensNotBlack(x2)
      /\ \A o \in All : x2.marked[o] \notin White => \A x \in Children(o) : x2.marked[x] \notin White
      /\ \A o \in alloc : IsWeak(o) /\ x2.marked[o] \notin White => o \in x2.weak
      /\ \A o \in tm : x2.marked[o] \notin White
      /\ \A o \in All : m.marked[o] \notin White => x2.marked[o] \notin White
      /\ \A o \in All : x2.marked[o] \in White => m.marked[o] = x2.marked[o]
  BY AtomicFacts
<1>3. /\ m' \in Marks /\ \A o \in All : m'.marked[o] = x2.marked[o] \/ (kind[o] = "string" /\ m'.marked[o] = "gray")
      /\ key' \in [All -> All \cup {Nil}] /\ val' \in [All -> All \cup {Nil}]
      /\ \A o \in All : key'[o] \in {key[o], Nil} /\ val'[o] \in {val[o], Nil}
      /\ \A o \in x2.weak : key'[o] # Nil => m'.marked[key'[o]] \notin White
      /\ \A o \in x2.weak : val'[o] # Nil => m'.marked[val'[o]] \notin White
      /\ udata' \in Seq(Objects) /\ Once(udata') /\ ToSet(udata') = ToSet(udata) \ sep
      /\ tmudata' \in Seq(Objects) /\ Once(tmudata') /\ ToSet(tmudata') = tm
      /\ unswept' = RootList(tm) /\ currentwhite' = OtherWhite /\ gcstate' = "sweepstring"
      /\ UNCHANGED <<kind, alloc, stack, openOf, hasgc>>
  BY <1>2, AtomicClears
<1>4. tm = ToSet(tmudata) \cup sep BY DEF ToFinalize
<1> HIDE DEF x1, sep, tm, x2
<1>5. GCType'
  <2>1. currentwhite' \in White BY <1>1, <1>3, WhiteFacts
  <2> QED BY <1>1, <1>3, <2>1 DEF GCType, RootList, Phases
<1>6. Shape'
  <2>1. \A o \in All \ alloc : key'[o] = Nil /\ val'[o] = Nil /\ stack'[o] = {}
    BY <1>1, <1>3 DEF Shape
  <2>2. \A o \in All : key'[o] # Nil => key[o] # Nil BY <1>3
  <2>3. \A o \in All : val'[o] # Nil => val[o] # Nil BY <1>3
  <2> QED BY <1>1, <1>3, <2>1, <2>2, <2>3 DEF Shape, RootList
<1>7. Lists'
  <2>1. ToSet(udata') \cup ToSet(tmudata') = {o \in alloc' : kind'[o] \in Userdata}
    BY <1>1, <1>2, <1>3, <1>4 DEF Lists
  <2>2. ToSet(udata') \cap ToSet(tmudata') = {} BY <1>1, <1>3, <1>4 DEF Lists
  <2> QED BY <1>3, <2>1, <2>2 DEF Lists
<1>8. \A o \in All : x2.marked[o] \notin White => m'.marked[o] \notin White
  BY <1>1, <1>3, WhiteFacts
<1>9. currentwhite' = OtherWhite /\ OtherWhite' = currentwhite
  BY <1>1, <1>3 DEF OtherWhite, GCType, White
<1>10. \A o \in alloc : o \in Live' <=> m'.marked[o] \notin White
  <2> SUFFICES ASSUME NEW o \in alloc PROVE o \in Live' <=> m'.marked[o] \notin White
    OBVIOUS
  <2>1. ASSUME m'.marked[o] \in White PROVE m'.marked[o] = currentwhite
    <3>1. m'.marked[o] = m.marked[o] BY <1>1, <1>2, <1>3, <2>1, WhiteFacts
    <3>2. m'.marked[o] # OtherWhite BY <1>1, <3>1 DEF Coloured
    <3> QED BY <1>1, <2>1, <3>2, WhiteFacts
  <2>2. currentwhite \in White BY <1>1 DEF GCType
  <2> QED BY <1>3, <1>9, <2>1, <2>2 DEF Live, IsDead
<1>11. ASSUME NEW o \in All PROVE Held(o)' \subseteq Held(o)
  <2>1. OpenIn(o)' = OpenIn(o) /\ OpenIn(o) \subseteq All BY <1>1, <1>3 DEF OpenIn
  <2>2. Slots(o)' \subseteq Slots(o) \cup {Nil} BY <1>3, <2>1 DEF Slots
  <2>3. key'[o] \in {key[o], Nil} /\ val'[o] \in {val[o], Nil} BY <1>3
  <2> QED BY <1>3, <2>2, <2>3 DEF Held
<1>12. ASSUME NEW o \in alloc, m'.marked[o] \notin White, NEW x \in Held(o)' PROVE m'.marked[x] \notin White
  <2>1. o \in All /\ x \in Held(o) /\ x \in All BY <1>1, <1>11, <1>12, ChildrenTyped
  <2>2. kind[o] \notin {"string", "unused"} BY <1>1, <2>1, HoldsNothing
  <2>3. x2.marked[o] \notin White BY <1>3, <1>12, <2>1, <2>2
  <2>4. CASE IsWeak(o)
    <3>1. o \in x2.weak BY <1>2, <2>3, <2>4
    <3>2. kind[o] # "thread" BY <2>4 DEF IsWeak, WeakKey, WeakValue
    <3>3. x # Nil /\ (x = key'[o] \/ x = val'[o]) BY <1>3, <1>12, <3>2 DEF Held
    <3> QED BY <1>3, <3>1, <3>3
  <2>5. CASE ~IsWeak(o)
    <3>1. kind[o] \notin Tables => key[o] = Nil BY <1>1, <2>1 DEF Shape
    <3>2. ~WeakKey(o) /\ ~WeakValue(o) BY <2>5 DEF IsWeak
    <3>3. x \in Children(o) BY <2>1, <3>1, <3>2, NilFresh DEF Held, Children, Tables
    <3> QED BY <1>2, <1>8, <2>1, <2>3, <3>3
  <2> QED BY <2>4, <2>5
<1>13. Solid'
  <2>1. Main \in Live' BY <1>1, <1>2, <1>8, <1>10
  <2>2. ToSet(tmudata') \subseteq Live' BY <1>1, <1>2, <1>3, <1>8, <1>10
  <2>3. ASSUME NEW o \in Live' PROVE Held(o)' \subseteq Live'
    <3>1. o \in alloc /\ m'.marked[o] \notin White BY <1>3, <1>10, <2>3 DEF Live
    <3>2. Held(o)' \subseteq alloc
      <4>1. Live = alloc BY <1>1 DEF Live, IsDead, Coloured
      <4> QED BY <1>1, <1>11, <3>1, <4>1 DEF Solid
    <3> QED BY <1>10, <1>12, <3>1, <3>2
  <2> QED BY <2>1, <2>2, <2>3 DEF Solid
<1>14. OpensNotBlack(m)'
  BY <1>2, <1>3 DEF OpensNotBlack
<1>15. ASSUME NEW o \in alloc, o \notin unswept' \cup ToSet(tmudata') PROVE openOf'[o] \in unswept'
  BY <1>1, <1>2, <1>3, <1>15, RootListFacts
<1>16. Swept' BY <1>3, <1>14, <1>15 DEF Swept
<1>17. GCInv' BY <1>3, <1>5, <1>6, <1>7, <1>13, <1>16 DEF GCInv, Phase
<1>18. \A o \in alloc : m'.marked[o] \notin White <=>
           (kind[o] = "string" /\ m'.marked[o] = "gray") \/ x2.marked[o] \notin White
  BY <1>1, <1>3, <1>8, WhiteFacts
<1>19. \A o \in alloc : o \in Live' <=> \/ kind[o] = "string" /\ m'.marked[o] = "gray"
                                     \/ x2.marked[o] \notin White
  BY <1>10, <1>18
<1> QED BY <1>11, <1>17, <1>19 DEF x2

----------------------------------------------------------------------------
(* What the invariant says *)

\* What the program can get at is allocated, and not about to be freed.
LEMMA GCInvSafe ==
    ASSUME phase = "open" => GCInv
    PROVE  Safe
  BY AccessibleLive DEF Safe, GCInv, Solid, Live

\* Marking leaves no traversed object that leads to a white one.
LEMMA GCInvTriColour ==
    ASSUME phase = "open" => GCInv
    PROVE  TriColour
  BY DEF GCInv, Phase, TriColour, Coloured

\* A step that does not concern the collector.
LEMMA UnchangedKeeps ==
    ASSUME GCInv, UNCHANGED <<heap, m, udata, currentwhite, gcstate, unswept, tmudata>>
    PROVE  GCInv' /\ Live' = Live /\ \A o : Held(o)' = Held(o)
<1>1. UNCHANGED <<heap, m, udata, currentwhite, gcstate, unswept, tmudata>>
  OBVIOUS
<1>2. GCType /\ Shape /\ Lists /\ Solid /\ Phase BY DEF GCInv
<1>3. GCType' /\ Shape' /\ Lists' BY <1>1, <1>2 DEF GCType, Shape, Lists, heap
<1>4. Live' = Live BY <1>1 DEF Live, IsDead, OtherWhite, heap
<1>5. \A o : Held(o)' = Held(o) /\ Children(o)' = Children(o) BY <1>1, SameHeap
<1>6. Solid' BY <1>1, <1>2, <1>4, <1>5 DEF Solid
<1>7. gcstate = "propagate" => Phase'
  <2> SUFFICES ASSUME gcstate = "propagate" PROVE Phase'
    OBVIOUS
  <2> DEFINE n == m
  <2>1. \A o \in alloc : m.marked[o] # OtherWhite BY <1>2 DEF Phase, Coloured
  <2>2. n \in Marks /\ n = m' /\ n.marked[Main] \notin White /\ Coloured(n, ToSet(tmudata))
    BY <1>1, <1>2 DEF GCType, Phase
  <2> HIDE DEF n
  <2>3. GCInv' BY <1>1, <2>1, <2>2, MarkingStep
  <2> QED BY <2>3 DEF GCInv
<1>8. gcstate # "propagate" => Phase'
  BY <1>1, <1>2 DEF Phase, Swept, OpensNotBlack, heap
<1> QED BY <1>3, <1>4, <1>5, <1>6, <1>7, <1>8 DEF GCInv

-----------------------------------------------------------------------------
(* The references of Java objects. *)

RefStates == {"none", "live", "deleted", "deleted twice"}
JavaObject(u) == u \in Objects /\ kind[u] = "java"

RefType ==
    /\ ref \in [Objects -> RefStates]
    /\ pushing \in {Idle} \cup ({"ref", "bare"} \X Objects)
    /\ hasgc \in SUBSET Objects /\ finalized \in SUBSET Objects
    /\ \A u \in hasgc \cup finalized : u \in alloc /\ kind[u] \in Userdata

\* The finalizer of u has not been called yet.
ToBeFinalized(u) == u \in hasgc /\ (u \in ToSet(tmudata) \/ u \notin finalized)

\* A reference lives until its finalizer is called, ...
Kept == \A u \in Objects : kind[u] = "java" /\ ToBeFinalized(u) => ref[u] = "live"
\* ... which it is.
Released ==
    /\ \A u \in Objects : ref[u] # "deleted twice"
    /\ ToSet(tmudata) \subseteq hasgc \cap finalized
    /\ \A u \in ToSet(udata) : IsDead(u) => u \in finalized
    /\ \A u \in Objects \ failed : ref[u] = "live" =>
           /\ kind[u] = "java"
           /\ ToBeFinalized(u) \/ pushing \in {<<"ref", u>>, <<"bare", u>>}

\* pushJavaObject keeps its userdata on the stack.
Pushed == \A u \in Objects :
    /\ pushing = <<"ref", u>> => kind[u] = "java" /\ u \notin alloc /\ ref[u] = "live"
    /\ pushing = <<"bare", u>> =>
           /\ kind[u] = "java" /\ ref[u] = "live"
           /\ u \in stack[Main] /\ u \notin hasgc \cup finalized /\ u \in ToSet(udata)

\* Without Lua finalizers and weak keys nothing leads to a finalized userdata.
Plainly == \A o \in Objects : kind[o] \notin {"proxy", "weakkey", "weakboth"}
Unreached == Plainly => \A o \in Live \ finalized : Held(o) \cap finalized = {}

JInv == RefType /\ Kept /\ Released /\ Pushed /\ Unreached

\* Once lua_close has separated the userdata it owns: which references are left.
Closing ==
    /\ ref \in [Objects -> RefStates]
    /\ tmudata \in Seq(Objects) /\ Once(tmudata)
    /\ \A u \in Objects : ref[u] # "deleted twice"
    /\ \A u \in ToSet(tmudata) : kind[u] = "java" => ref[u] = "live"
    /\ \A u \in Objects : ref[u] = "live" =>
           u \in failed \cup late \/ (kind[u] = "java" /\ u \in ToSet(tmudata))
    /\ phase = "closed" => tmudata = <<>>

IInv == IF phase = "open" THEN GCInv /\ JInv ELSE Closing

----------------------------------------------------------------------------
(* What leads to finalized userdata *)

LEMMA KnownUnfinalized ==
    ASSUME GCInv, RefType, Unreached, Plainly
    PROVE  Accessible \cap finalized = {} /\ Known \cap finalized = {}
<1> DEFINE next == [o \in All |-> Held(o)]
           S == {Main}
           R == Live \ finalized
<1>1. GCType /\ Solid /\ Live \subseteq All BY AccessibleLive DEF GCInv
<1>2. Main \in R /\ \A o \in finalized : o \in alloc /\ kind[o] \in Userdata
  BY <1>1, GCAssumption DEF RefType, Solid
<1>3. R \in SUBSET DOMAIN next /\ S \subseteq R /\ \A o \in R : next[o] \subseteq R
  <2>1. ASSUME NEW o \in R PROVE next[o] \subseteq R
    BY <1>1, <2>1 DEF Solid, Unreached
  <2> QED BY <1>1, <1>2, <2>1
<1>4. Accessible = Closure(S, next) BY DEF Accessible
<1> HIDE DEF next, S
<1>5. Accessible \subseteq R
  <2> HIDE DEF R
  <2> QED BY <1>3, <1>4, ClosureLeast
<1>6. ASSUME NEW th \in Live, kind[th] = "thread" PROVE Held(th) \cap finalized = {}
  BY <1>2, <1>6 DEF Unreached, Userdata
<1> QED BY <1>2, <1>5, <1>6 DEF Known

\* What the program stores leads to nothing finalized.
LEMMA StoresUnreached ==
    ASSUME GCInv, RefType, Unreached, StoresKnown, UNCHANGED <<kind, finalized>>
    PROVE  Unreached'
<1> SUFFICES ASSUME Plainly, NEW o \in Live' \ finalized, NEW x \in Held(o)', x \in finalized
             PROVE  FALSE
  BY DEF Unreached, Plainly
<1>1. x \notin Known BY KnownUnfinalized
<1>2. o \in Live /\ x \in Held(o) BY <1>1 DEF StoresKnown
<1> QED BY <1>2 DEF Unreached

\* A step after which at least as much is alive, and no more is finalized.
LEMMA LessUnreached ==
    ASSUME Unreached, UNCHANGED kind, \A o \in Live' : o \in Live /\ Held(o)' \subseteq Held(o),
           \A o \in finalized' : o \in finalized,
           \A o \in Live \cap finalized : o \in finalized'
    PROVE  Unreached'
  BY DEF Unreached, Plainly

\* The lists of userdata.
LEMMA ListsHold ==
    ASSUME GCInv, NEW u \in All
    PROVE  /\ u \in ToSet(udata) => u \in alloc /\ kind[u] \in Userdata /\ u \in Objects
           /\ u \in ToSet(tmudata) => u \in Live /\ kind[u] \in Userdata
           /\ u \in alloc /\ kind[u] \in Userdata => u \in ToSet(udata) \/ u \in ToSet(tmudata)
           /\ u \in Live <=> u \in alloc /\ ~IsDead(u)
<1>1. GCType /\ Lists /\ Solid BY DEF GCInv
<1>2. u \in alloc /\ kind[u] \in Userdata => u # Main BY <1>1 DEF GCType, Userdata
<1> QED BY <1>1, <1>2 DEF Lists, Solid, Live, All

----------------------------------------------------------------------------
(* Steps of the program and of the collector *)

\* A step that only frees some of what is dead.
LEMMA FrameKeeps ==
    ASSUME GCInv, JInv, GCInv', UNCHANGED <<kind, ref, pushing, failed, tmudata>>,
           NEW D, D \cap Live = {}, ToSet(udata') = ToSet(udata) \ D,
           hasgc' = hasgc \ D, finalized' = finalized \ D, Live \subseteq Live',
           pushing = Idle \/ (alloc' \subseteq alloc /\ stack[Main] \subseteq stack'[Main]),
           Unreached'
    PROVE  JInv'
<1>1. RefType /\ Kept /\ Released /\ Pushed BY DEF JInv
<1>2. GCType /\ Lists /\ Solid /\ Lists' /\ Objects \subseteq All BY DEF GCInv, All
<1>3. UNCHANGED <<kind, ref, pushing, failed, tmudata>> OBVIOUS
<1>4. RefType'
  <2>1. ASSUME NEW u \in hasgc' \cup finalized' PROVE u \in alloc' /\ kind[u] \in Userdata
    <3>1. u \in All /\ u \in alloc /\ kind[u] \in Userdata /\ u \notin D BY <1>1, <1>2 DEF RefType
    <3>2. u \in ToSet(udata') \/ u \in ToSet(tmudata') BY <1>3, <3>1, ListsHold
    <3> QED BY <1>2, <3>1, <3>2 DEF Lists
  <2> QED BY <1>1, <1>3, <2>1 DEF RefType
<1>5. Kept'
  BY <1>1, <1>3 DEF Kept, ToBeFinalized
<1>6. Released'
  <2>1. \A u \in Objects : ref'[u] # "deleted twice" BY <1>1, <1>3 DEF Released
  <2>2. ToSet(tmudata') \subseteq hasgc' \cap finalized'
    BY <1>1, <1>2, <1>3 DEF Released, Solid
  <2>3. ASSUME NEW u \in ToSet(udata'), IsDead(u)' PROVE u \in finalized'
    <3>1. u \in ToSet(udata) /\ u \notin D /\ u \in alloc
      BY <1>2 DEF Lists
    <3>2. u \notin Live' BY <2>3 DEF Live
    <3>3. IsDead(u) BY <3>1, <3>2 DEF Live
    <3> QED BY <1>1, <3>1, <3>3 DEF Released
  <2>4. ASSUME NEW u \in Objects, u \notin failed', ref'[u] = "live"
        PROVE  kind'[u] = "java" /\ (ToBeFinalized(u)' \/ pushing' \in {<<"ref", u>>, <<"bare", u>>})
    <3>4. u \notin failed /\ ref[u] = "live" BY <1>3, <2>4
    <3>1. kind[u] = "java" /\ (ToBeFinalized(u) \/ pushing \in {<<"ref", u>>, <<"bare", u>>})
      BY <1>1, <3>4 DEF Released
    <3>2. ASSUME ToBeFinalized(u) PROVE u \notin D
      <4>1. u \in All /\ u \in alloc /\ kind[u] \in Userdata BY <1>1, <1>2, <3>2 DEF ToBeFinalized, RefType
      <4>2. CASE u \in ToSet(tmudata) BY <1>2, <4>2 DEF Solid
      <4>3. CASE u \notin ToSet(tmudata)
        <5>1. u \in ToSet(udata) /\ u \notin finalized BY <4>1, <4>3, <3>2, ListsHold DEF ToBeFinalized
        <5>2. ~IsDead(u) BY <1>1, <5>1 DEF Released
        <5> QED BY <4>1, <5>2 DEF Live
      <4> QED BY <4>2, <4>3
    <3>3. ToBeFinalized(u) => ToBeFinalized(u)' BY <1>3, <3>2 DEF ToBeFinalized
    <3> QED BY <1>3, <3>1, <3>3
  <2> QED BY <2>1, <2>2, <2>3, <2>4 DEF Released
<1>7. Pushed'
  <2> SUFFICES ASSUME NEW u \in Objects, pushing \in {<<"ref", u>>, <<"bare", u>>}
               PROVE  /\ pushing = <<"ref", u>> => kind[u] = "java" /\ u \notin alloc' /\ ref[u] = "live"
                      /\ pushing = <<"bare", u>> =>
                             /\ kind[u] = "java" /\ ref[u] = "live"
                             /\ u \in stack'[Main] /\ u \notin hasgc' \cup finalized' /\ u \in ToSet(udata')
    BY <1>3 DEF Pushed
  <2>1. pushing # Idle BY DEF Idle
  <2>2. u \in stack[Main] => u \notin D BY <1>2, OnStack DEF Solid
  <2> QED BY <1>1, <2>1, <2>2 DEF Pushed
<1> QED BY <1>4, <1>5, <1>6, <1>7 DEF JInv

\* A step of the program; it may make a userdata with a finalizer in Lua.
LEMMA ProgramStep ==
    ASSUME GCInv, JInv, pushing = Idle, Program, UNCHANGED <<ref, pushing, failed>>
    PROVE  GCInv' /\ JInv'
<1>1. GCInv' /\ StoresKnown BY ProgramKeeps
<1>2. /\ UNCHANGED <<kind, finalized, tmudata>>
      /\ UNCHANGED <<udata, hasgc>> \/ \E u \in Objects : NewProxy(u)
  BY DEF Program, New, NewProxy, NewUdata, Intern, CaptureNew, CaptureOld, Load, Drop, SetTable, SetHeld,
         CloseUpval, collector
<1>3. RefType /\ Kept /\ Released /\ Pushed /\ Unreached BY DEF JInv
<1>4. Unreached' BY <1>1, <1>2, <1>3, StoresUnreached
<1>5. CASE UNCHANGED <<udata, hasgc>>
  <2> DEFINE D == {}
  <2>1. /\ D \cap Live = {} /\ ToSet(udata') = ToSet(udata) \ D
        /\ hasgc' = hasgc \ D /\ finalized' = finalized \ D
    BY <1>2, <1>5
  <2> HIDE DEF D
  <2>2. Live \subseteq Live' BY <1>1 DEF StoresKnown
  <2> QED BY <1>1, <1>2, <1>4, <2>1, <2>2, FrameKeeps
<1>6. CASE \E u \in Objects : NewProxy(u)
  <2>1. PICK u \in Objects : NewProxy(u) BY <1>6
  <2>2. kind[u] = "proxy" /\ NewUdata(u) /\ hasgc' = hasgc \cup {u} BY <2>1 DEF NewProxy
  <2>3. ToSet(udata') = ToSet(udata) \cup {u} /\ u \notin alloc BY <2>2, NewUdataKeeps
  <2>5. Lists /\ Lists' /\ GCType /\ Solid BY <1>1 DEF GCInv
  <2>6. Live \subseteq Live' BY <1>1 DEF StoresKnown
  <2>7. ~IsDead(u)'
    BY <2>2, <2>5, WhiteFacts DEF NewUdata, Link, IsDead, OtherWhite, collector, GCType, All
  <2>8. RefType'
    <3>1. ASSUME NEW x \in hasgc' \cup finalized' PROVE x \in alloc' /\ kind[x] \in Userdata
      <4>1. x = u \/ (x \in All /\ x \in alloc /\ kind[x] \in Userdata) BY <1>2, <1>3, <2>2, <2>5 DEF RefType, GCType
      <4>2. x \in ToSet(udata') \/ x \in ToSet(tmudata') BY <1>2, <2>3, <4>1, ListsHold
      <4> QED BY <1>2, <2>5, <4>2 DEF Lists
    <3> QED BY <1>2, <1>3, <2>2, <3>1 DEF RefType
  <2>9. Kept' BY <1>2, <1>3, <2>2 DEF Kept, ToBeFinalized
  <2>10. Released'
    <3>1. ASSUME NEW x \in ToSet(udata'), IsDead(x)' PROVE x \in finalized'
      <4>1. x \in ToSet(udata) BY <2>3, <2>7, <3>1
      <4>2. x \in alloc BY <2>5, <4>1 DEF Lists
      <4>3. IsDead(x) BY <2>6, <3>1, <4>2 DEF Live
      <4> QED BY <1>2, <1>3, <4>1, <4>3 DEF Released
    <3> QED BY <1>2, <1>3, <2>2, <3>1 DEF Released, ToBeFinalized
  <2>11. Pushed' BY DEF Pushed, Idle
  <2> QED BY <1>1, <1>4, <2>8, <2>9, <2>10, <2>11 DEF JInv
<1> QED BY <1>2, <1>5, <1>6
\* NewGlobalRef.
LEMMA NewGlobalRefStep ==
    ASSUME GCInv, JInv, NEW u \in Objects, NewGlobalRef(u)
    PROVE  GCInv' /\ JInv'
<1>1. /\ UNCHANGED <<kind, alloc, udata, tmudata, finalized, hasgc>>
      /\ UNCHANGED <<heap, m, udata, currentwhite, gcstate, unswept, tmudata>>
  BY DEF NewGlobalRef, gcvars, program, heap, collector
<1>2. GCInv' /\ Live' = Live /\ \A o : Held(o)' = Held(o) BY <1>1, UnchangedKeeps
<1>3. RefType /\ Kept /\ Released /\ Pushed /\ Unreached BY DEF JInv
<1>4. /\ pushing = Idle /\ kind[u] = "java" /\ u \notin alloc /\ ref[u] # "live"
      /\ ref' = [ref EXCEPT ![u] = "live"] /\ pushing' = <<"ref", u>>
  BY DEF NewGlobalRef
<1>6. RefType' BY <1>1, <1>3, <1>4 DEF RefType, RefStates
<1>7. Kept' BY <1>1, <1>3, <1>4 DEF Kept, ToBeFinalized, RefType
<1>8. Released'
  <2>1. \A x \in Objects : ref'[x] # "deleted twice" BY <1>3, <1>4 DEF Released, RefType
  <2>2. ToSet(tmudata') \subseteq hasgc' \cap finalized' BY <1>1, <1>3 DEF Released
  <2>3. \A x \in ToSet(udata') : IsDead(x)' => x \in finalized'
    BY <1>1, <1>3 DEF Released, IsDead, OtherWhite
  <2>4. ASSUME NEW x \in Objects, x \notin failed', ref'[x] = "live"
        PROVE  kind'[x] = "java" /\ (ToBeFinalized(x)' \/ pushing' \in {<<"ref", x>>, <<"bare", x>>})
    <3>1. x \notin failed BY <2>4 DEF NewGlobalRef
    <3>2. CASE x = u BY <1>1, <1>4, <3>2
    <3>3. CASE x # u
      <4>1. ref[x] = "live" BY <1>3, <1>4, <2>4, <3>3 DEF RefType
      <4>2. kind[x] = "java" /\ (ToBeFinalized(x) \/ pushing \in {<<"ref", x>>, <<"bare", x>>})
        BY <1>3, <3>1, <4>1 DEF Released
      <4> QED BY <1>1, <1>4, <4>2 DEF ToBeFinalized, Idle
    <3> QED BY <3>2, <3>3
  <2> QED BY <2>1, <2>2, <2>3, <2>4 DEF Released
<1>9. Pushed' BY <1>1, <1>3, <1>4 DEF Pushed, RefType
<1>10. Unreached' BY <1>1, <1>2, <1>3 DEF Unreached, Plainly
<1> QED BY <1>2, <1>6, <1>7, <1>8, <1>9, <1>10 DEF JInv

\* lua_newuserdata; the reference is in it now.
LEMMA KeepRefStep ==
    ASSUME GCInv, JInv, NEW u \in Objects, KeepRef(u)
    PROVE  GCInv' /\ JInv'
<1>1. /\ pushing = <<"ref", u>> /\ pushing' = <<"bare", u>> /\ NewUdata(u)
      /\ UNCHANGED <<hasgc, ref, failed>> /\ UNCHANGED <<kind, tmudata, finalized>>
  BY DEF KeepRef, NewUdata, collector
<1>2. GCInv' /\ StoresKnown /\ ToSet(udata') = ToSet(udata) \cup {u} /\ u \notin alloc
  BY <1>1, NewUdataKeeps
<1>3. RefType /\ Kept /\ Released /\ Pushed /\ Unreached BY DEF JInv
<1>4. Lists /\ Lists' /\ GCType /\ Live \subseteq Live' BY <1>2 DEF GCInv, StoresKnown
<1>5. ~IsDead(u)' /\ u \in stack'[Main]
  BY <1>1, <1>4, WhiteFacts DEF NewUdata, Link, PushOn, IsDead, OtherWhite, collector, GCType, All
<1>6. RefType'
  <2>1. ASSUME NEW x \in hasgc' \cup finalized' PROVE x \in alloc' /\ kind[x] \in Userdata
    <3>1. x \in All /\ x \in alloc /\ kind[x] \in Userdata BY <1>1, <1>3, <1>4, <2>1 DEF RefType, GCType
    <3>2. x \in ToSet(udata') \/ x \in ToSet(tmudata') BY <1>1, <1>2, <3>1, ListsHold
    <3> QED BY <1>1, <1>4, <3>2 DEF Lists
  <2> QED BY <1>1, <1>3, <2>1 DEF RefType
<1>7. Kept' BY <1>1, <1>3 DEF Kept, ToBeFinalized
<1>8. Released'
  <2>1. \A x \in Objects : ref'[x] # "deleted twice" BY <1>1, <1>3 DEF Released
  <2>2. ToSet(tmudata') \subseteq hasgc' \cap finalized' BY <1>1, <1>3 DEF Released
  <2>3. ASSUME NEW x \in ToSet(udata'), IsDead(x)' PROVE x \in finalized'
    <3>1. x \in ToSet(udata) BY <1>2, <1>5, <2>3
    <3>2. x \in alloc BY <1>4, <3>1 DEF Lists
    <3>3. IsDead(x) BY <1>4, <2>3, <3>2 DEF Live
    <3> QED BY <1>1, <1>3, <3>1, <3>3 DEF Released
  <2>4. ASSUME NEW x \in Objects, x \notin failed', ref'[x] = "live"
        PROVE  kind'[x] = "java" /\ (ToBeFinalized(x)' \/ pushing' \in {<<"ref", x>>, <<"bare", x>>})
    <3>1. x \notin failed /\ ref[x] = "live" BY <1>1, <2>4
    <3>2. kind[x] = "java" /\ (ToBeFinalized(x) \/ pushing \in {<<"ref", x>>, <<"bare", x>>})
      BY <1>3, <3>1 DEF Released
    <3> QED BY <1>1, <3>2 DEF ToBeFinalized
  <2> QED BY <2>1, <2>2, <2>3, <2>4 DEF Released
<1>9. Pushed'
  <2>1. kind[u] = "java" /\ ref[u] = "live" BY <1>1, <1>3 DEF Pushed
  <2>2. u \notin hasgc \cup finalized BY <1>2, <1>3 DEF RefType
  <2> QED BY <1>1, <1>2, <1>5, <2>1, <2>2 DEF Pushed
<1>10. Unreached' BY <1>1, <1>2, <1>3, StoresUnreached
<1> QED BY <1>2, <1>6, <1>7, <1>8, <1>9, <1>10 DEF JInv

\* The metatable that lets the collector see a finalizer.
LEMMA SetMetatableStep ==
    ASSUME GCInv, JInv, NEW u \in Objects, SetMetatable(u)
    PROVE  GCInv' /\ JInv'
<1>1. /\ pushing = <<"bare", u>> /\ pushing' = Idle /\ hasgc' = hasgc \cup {u}
      /\ UNCHANGED <<kind, alloc, udata, tmudata, finalized, ref, failed>>
      /\ UNCHANGED <<heap, m, udata, currentwhite, gcstate, unswept, tmudata>>
  BY DEF SetMetatable, heap, collector
<1>2. GCInv' /\ Live' = Live /\ \A o : Held(o)' = Held(o) BY <1>1, UnchangedKeeps
<1>3. RefType /\ Kept /\ Released /\ Pushed /\ Unreached BY DEF JInv
<1>4. Lists BY DEF GCInv
<1>5. kind[u] = "java" /\ ref[u] = "live" /\ u \notin finalized /\ u \in ToSet(udata)
  BY <1>1, <1>3 DEF Pushed
<1>6. RefType' BY <1>1, <1>3, <1>4, <1>5 DEF RefType, Lists
<1>7. Kept' BY <1>1, <1>3, <1>5 DEF Kept, ToBeFinalized
<1>8. Released'
  <2>1. \A x \in Objects : ref'[x] # "deleted twice" BY <1>1, <1>3 DEF Released
  <2>2. ToSet(tmudata') \subseteq hasgc' \cap finalized' BY <1>1, <1>3 DEF Released
  <2>3. \A x \in ToSet(udata') : IsDead(x)' => x \in finalized'
    BY <1>1, <1>3 DEF Released, IsDead, OtherWhite
  <2>4. ASSUME NEW x \in Objects, x \notin failed', ref'[x] = "live"
        PROVE  kind'[x] = "java" /\ (ToBeFinalized(x)' \/ pushing' \in {<<"ref", x>>, <<"bare", x>>})
    <3>1. x \notin failed /\ ref[x] = "live" BY <1>1, <2>4
    <3>2. kind[x] = "java" /\ (ToBeFinalized(x) \/ pushing \in {<<"ref", x>>, <<"bare", x>>})
      BY <1>3, <3>1 DEF Released
    <3> QED BY <1>1, <1>5, <3>2 DEF ToBeFinalized
  <2> QED BY <2>1, <2>2, <2>3, <2>4 DEF Released
<1>9. Pushed' BY <1>1 DEF Pushed, Idle
<1>10. Unreached' BY <1>1, <1>2, <1>3 DEF Unreached, Plainly
<1> QED BY <1>2, <1>6, <1>7, <1>8, <1>9, <1>10 DEF JInv

\* A memory error.
LEMMA PushFailsStep ==
    ASSUME GCInv, JInv, PushFails
    PROVE  GCInv' /\ JInv'
<1>1. /\ pushing # Idle /\ pushing' = Idle /\ failed' = failed \cup {pushing[2]}
      /\ UNCHANGED <<kind, alloc, udata, tmudata, finalized, hasgc, ref>>
      /\ UNCHANGED <<heap, m, udata, currentwhite, gcstate, unswept, tmudata>>
  BY DEF PushFails, gcvars, program, heap, collector
<1>2. GCInv' /\ Live' = Live /\ \A o : Held(o)' = Held(o) BY <1>1, UnchangedKeeps
<1>3. RefType /\ Kept /\ Released /\ Pushed /\ Unreached BY DEF JInv
<1>4. RefType' BY <1>1, <1>3 DEF RefType
<1>5. Kept' BY <1>1, <1>3 DEF Kept, ToBeFinalized
<1>6. Released'
  <2>1. \A x \in Objects : ref'[x] # "deleted twice" BY <1>1, <1>3 DEF Released
  <2>2. ToSet(tmudata') \subseteq hasgc' \cap finalized' BY <1>1, <1>3 DEF Released
  <2>3. \A x \in ToSet(udata') : IsDead(x)' => x \in finalized'
    BY <1>1, <1>3 DEF Released, IsDead, OtherWhite
  <2>4. ASSUME NEW x \in Objects, x \notin failed', ref'[x] = "live"
        PROVE  kind'[x] = "java" /\ (ToBeFinalized(x)' \/ pushing' \in {<<"ref", x>>, <<"bare", x>>})
    <3>1. x \notin failed /\ ref[x] = "live" /\ pushing[2] # x BY <1>1, <2>4
    <3>2. kind[x] = "java" /\ (ToBeFinalized(x) \/ pushing \in {<<"ref", x>>, <<"bare", x>>})
      BY <1>3, <3>1 DEF Released
    <3> QED BY <1>1, <3>1, <3>2 DEF ToBeFinalized
  <2> QED BY <2>1, <2>2, <2>3, <2>4 DEF Released
<1>7. Pushed' BY <1>1 DEF Pushed, Idle
<1>8. Unreached' BY <1>1, <1>2, <1>3 DEF Unreached, Plainly
<1> QED BY <1>2, <1>4, <1>5, <1>6, <1>7, <1>8 DEF JInv
\* The steps of the collector in which nothing dies, gets freed or finalized.
LEMMA MarkingSteps ==
    ASSUME GCInv, JInv, UNCHANGED <<ref, pushing, failed>>,
           StartCycle \/ (\E o \in All : PropagateMark(o)) \/ EndCycle \/ FullGCSweep \/ FullGCMark
    PROVE  GCInv' /\ JInv'
<1>1. UNCHANGED <<heap, kind, alloc, stack, udata, hasgc, currentwhite, tmudata, finalized>>
  BY DEF StartCycle, PropagateMark, EndCycle, FullGCSweep, FullGCMark, program, collector, heap
<1>2. GCInv' /\ Live' = Live
  <2>1. CASE StartCycle BY <1>1, <2>1, BeginKeeps DEF StartCycle
  <2>2. CASE \E o \in All : PropagateMark(o) BY <2>2, PropagateMarkKeeps
  <2>3. CASE EndCycle BY <2>3, EndCycleKeeps
  <2>4. CASE FullGCSweep BY <2>4, FullGCSweepKeeps
  <2>5. CASE FullGCMark BY <1>1, <2>5, BeginKeeps DEF FullGCMark
  <2> QED BY <2>1, <2>2, <2>3, <2>4, <2>5
<1>3. \A o : Held(o)' = Held(o) BY <1>1, SameHeap
<1>4. Unreached' BY <1>1, <1>2, <1>3, LessUnreached DEF JInv
<1> DEFINE D == {}
<1>5. /\ D \cap Live = {} /\ ToSet(udata') = ToSet(udata) \ D
      /\ hasgc' = hasgc \ D /\ finalized' = finalized \ D
  BY <1>1
<1> HIDE DEF D
<1>6. Live \subseteq Live' /\ alloc' \subseteq alloc /\ stack[Main] \subseteq stack'[Main] BY <1>1, <1>2
<1> QED BY <1>1, <1>2, <1>4, <1>5, <1>6, FrameKeeps

\* Sweeping.
LEMMA SweepSteps ==
    ASSUME GCInv, JInv, UNCHANGED <<ref, pushing, failed>>,
           (\E S \in SUBSET Objects : SweepString(S)) \/ (\E o \in All : SweepObject(o))
    PROVE  GCInv' /\ JInv'
<1>1. GCInv' /\ \E D : Freed(D) BY SweepStepsKeep
<1>2. PICK D : Freed(D) BY <1>1
<1>3. UNCHANGED <<kind, tmudata>> BY DEF SweepString, SweepObject
<1>4. /\ D \cap Live = {} /\ Live' = Live /\ ToSet(udata') = ToSet(udata) \ D
      /\ hasgc' = hasgc \ D /\ finalized' = finalized \ D
      /\ alloc' \subseteq alloc /\ stack[Main] \subseteq stack'[Main]
      /\ \A o \in Live : Held(o)' \subseteq Held(o)
  BY <1>2 DEF Freed
<1>5. Unreached' BY <1>3, <1>4, LessUnreached DEF JInv
<1>6. Live \subseteq Live' BY <1>4
<1> QED BY <1>1, <1>3, <1>4, <1>5, <1>6, FrameKeeps

\* gc deletes the reference; a finalizer in Lua may do anything later.
LEMMA FinalizeStep ==
    ASSUME GCInv, JInv, NEW u \in Objects, Finalize(u), phase = "open"
    PROVE  GCInv' /\ JInv' /\ phase' = phase
<1>1. /\ gcstate = "finalize" /\ phase' = phase /\ GCTM(u) /\ UNCHANGED <<pushing, failed>>
      /\ UNCHANGED <<kind, alloc, key, val, openOf, hasgc, finalized, currentwhite>>
      /\ ref' = IF kind[u] = "java" THEN [ref EXCEPT ![u] = Deleted(@)] ELSE ref
      /\ stack' = IF kind[u] = "proxy" THEN [stack EXCEPT ![Main] = @ \cup {u}] ELSE stack
      /\ m' = [m EXCEPT !.marked[u] = currentwhite]
  BY DEF Finalize, FinalizeOne, CallGCTM, GCTM
<1>2. /\ GCInv' /\ Live' = Live /\ u \in ToSet(tmudata)
      /\ ToSet(tmudata') = ToSet(tmudata) \ {u} /\ ToSet(udata') = ToSet(udata) \cup {u}
  BY <1>1, GCTMKeeps
<1>3. RefType /\ Kept /\ Released /\ Pushed /\ Unreached BY DEF JInv
<1>4. Lists /\ Lists' /\ GCType /\ Solid BY <1>2 DEF GCInv
<1>5. u \in hasgc \cap finalized /\ kind[u] \in Userdata /\ u \notin ToSet(udata)
  BY <1>2, <1>3, <1>4 DEF Released, Lists
<1>6. kind[u] = "java" => ref[u] = "live" /\ ref' = [ref EXCEPT ![u] = "deleted"]
  <2>1. kind[u] = "java" => ref[u] = "live" BY <1>2, <1>3, <1>5 DEF Kept, ToBeFinalized
  <2> QED BY <1>1, <1>3, <2>1 DEF Deleted, RefType
<1>7. \A x \in Objects : /\ ref'[x] = IF x = u /\ kind[u] = "java" THEN "deleted" ELSE ref[x]
  BY <1>1, <1>3, <1>6 DEF RefType
<1>8. RefType'
  <2>1. ref' \in [Objects -> RefStates] BY <1>1, <1>3, <1>6 DEF RefType, RefStates
  <2> QED BY <1>1, <1>3, <2>1 DEF RefType
<1>9. Kept'
  BY <1>1, <1>2, <1>3, <1>5, <1>7 DEF Kept, ToBeFinalized
<1>10. Released'
  <2>1. \A x \in Objects : ref'[x] # "deleted twice" BY <1>3, <1>7 DEF Released
  <2>2. ToSet(tmudata') \subseteq hasgc' \cap finalized' BY <1>1, <1>2, <1>3 DEF Released
  <2>3. ASSUME NEW x \in ToSet(udata'), IsDead(x)' PROVE x \in finalized'
    <3>1. CASE x = u BY <1>1, <1>5, <3>1
    <3>2. CASE x # u
      <4>1. x \in ToSet(udata) BY <1>2, <3>2
      <4>2. x \in alloc BY <1>4, <4>1 DEF Lists
      <4>3. IsDead(x) BY <1>2, <2>3, <4>2 DEF Live
      <4> QED BY <1>1, <1>3, <4>1, <4>3 DEF Released
    <3> QED BY <3>1, <3>2
  <2>4. ASSUME NEW x \in Objects, x \notin failed', ref'[x] = "live"
        PROVE  kind'[x] = "java" /\ (ToBeFinalized(x)' \/ pushing' \in {<<"ref", x>>, <<"bare", x>>})
    <3>1. x \notin failed BY <1>1, <2>4
    <3>2. ref[x] = "live" /\ (x # u \/ kind[u] # "java") BY <1>7, <2>4
    <3>3. kind[x] = "java" /\ (ToBeFinalized(x) \/ pushing \in {<<"ref", x>>, <<"bare", x>>})
      BY <1>3, <3>1, <3>2 DEF Released
    <3> QED BY <1>1, <1>2, <3>2, <3>3 DEF ToBeFinalized
  <2> QED BY <2>1, <2>2, <2>3, <2>4 DEF Released
<1>11. Pushed'
  <2> SUFFICES ASSUME NEW x \in Objects, pushing \in {<<"ref", x>>, <<"bare", x>>}
               PROVE  /\ pushing = <<"ref", x>> => kind[x] = "java" /\ x \notin alloc /\ ref'[x] = "live"
                      /\ pushing = <<"bare", x>> =>
                             /\ kind[x] = "java" /\ ref'[x] = "live"
                             /\ x \in stack'[Main] /\ x \notin hasgc \cup finalized /\ x \in ToSet(udata')
    BY <1>1 DEF Pushed
  <2>1. u \in alloc BY <1>3, <1>5 DEF RefType
  <2>2. x # u BY <1>3, <1>5, <2>1 DEF Pushed
  <2>3. stack[Main] \subseteq stack'[Main] BY <1>1, <1>4 DEF GCType, All
  <2> QED BY <1>2, <1>3, <1>7, <2>2, <2>3 DEF Pushed
<1>12. Unreached'
  <2> SUFFICES ASSUME Plainly PROVE Unreached'
    BY <1>1 DEF Unreached, Plainly
  <2>1. UNCHANGED heap BY <1>1 DEF Plainly, heap
  <2>2. \A o : Held(o)' = Held(o) BY <2>1, SameHeap
  <2> QED BY <1>1, <1>2, <1>3, <2>2, LessUnreached
<1> QED BY <1>1, <1>2, <1>8, <1>9, <1>10, <1>11, <1>12 DEF JInv

\* The end of marking: FINALIZEDBIT is set, and weak values are cleared.
LEMMA AtomicStep ==
    ASSUME GCInv, JInv, NEW L, Atomic(L), UNCHANGED <<ref, pushing, failed>>
    PROVE  GCInv' /\ JInv'
<1> DEFINE x1 == Remarked(L)
           sep == Separated(L)
           tm == ToFinalize(L)
           x2 == Preserved(L)
<1>1. /\ GCInv' /\ \A o \in All : Held(o)' \subseteq Held(o)
      /\ \A o \in alloc : o \in Live' => kind[o] = "string" \/ x2.marked[o] \notin White
      /\ \A o \in alloc : o \notin Live' => x2.marked[o] \in White
  BY AtomicKeeps
<1>2. /\ Good(x1, ToSet(tmudata)) /\ Grown(m, x1) /\ x1.gray = {}
      /\ tm \in SUBSET All /\ \A o \in tm : kind[o] \in Userdata /\ o \in alloc
      /\ \A o \in sep : o \in ToSet(udata) /\ x1.marked[o] \in White
      /\ x2 \in Marks
      /\ \A o \in alloc : IsWeak(o) /\ x2.marked[o] \notin White => o \in x2.weak
      /\ \A o \in All : x2.marked[o] \in White => x1.marked[o] \in White
      /\ (\A o \in tm : Children(o) = {}) =>
             \A o \in All : x2.marked[o] \notin White => x1.marked[o] \notin White \/ o \in tm
  BY AtomicFacts
<1>3. /\ \A o \in All : key'[o] \in {key[o], Nil} /\ val'[o] \in {val[o], Nil}
      /\ \A o \in x2.weak : val'[o] # Nil => (kind[val'[o]] \in Userdata => val'[o] \notin finalized')
      /\ finalized' = finalized \cup {u \in ToSet(udata) : x1.marked[u] \in White}
      /\ ToSet(udata') = ToSet(udata) \ sep /\ ToSet(tmudata') = tm
      /\ UNCHANGED <<kind, alloc, stack, openOf, hasgc>>
  BY <1>2, AtomicClears
<1>4. /\ \A u : u \in sep <=> u \in ToSet(udata) /\ x1.marked[u] \in White /\ u \notin finalized /\ u \in hasgc
      /\ tm = ToSet(tmudata) \cup sep
  BY DEF Separated, Separate, ToFinalize
<1>6. /\ GCType /\ Shape /\ Lists /\ Solid /\ alloc \subseteq All
      /\ m.marked[Main] \notin White /\ \A o \in alloc : o \in Live
  BY DEF GCInv, Phase, Coloured, Atomic, GCType, Live, IsDead
<1>7. RefType /\ Kept /\ Released /\ Pushed /\ Unreached BY DEF JInv
<1> HIDE DEF x1, sep, tm, x2
<1>8. tm \subseteq hasgc \cap finalized' BY <1>3, <1>4, <1>7 DEF Released
<1>9. RefType'
  <2>1. ASSUME NEW x \in ToSet(udata) PROVE x \in Objects /\ x \in alloc /\ kind[x] \in Userdata
    BY <1>6, ListsHold DEF Lists
  <2>2. finalized' \subseteq Objects BY <1>3, <1>7, <2>1 DEF RefType
  <2>3. \A x \in finalized' : x \in alloc /\ kind[x] \in Userdata BY <1>3, <1>7, <2>1 DEF RefType
  <2> QED BY <1>3, <1>7, <2>2, <2>3 DEF RefType
<1>10. Kept' BY <1>3, <1>4, <1>7 DEF Kept, ToBeFinalized
<1>11. Released'
  <2>1. \A x \in Objects : ref'[x] # "deleted twice" BY <1>7 DEF Released
  <2>2. ToSet(tmudata') \subseteq hasgc' \cap finalized' BY <1>3, <1>8
  <2>3. ASSUME NEW x \in ToSet(udata'), IsDead(x)' PROVE x \in finalized'
    <3>1. x \in ToSet(udata) /\ x \in alloc BY <1>3, <1>6 DEF Lists
    <3>2. x \notin Live' BY <2>3 DEF Live
    <3>3. x1.marked[x] \in White BY <1>1, <1>2, <1>6, <3>1, <3>2
    <3> QED BY <1>3, <3>1, <3>3
  <2>4. ASSUME NEW x \in Objects, x \notin failed', ref'[x] = "live"
        PROVE  kind'[x] = "java" /\ (ToBeFinalized(x)' \/ pushing' \in {<<"ref", x>>, <<"bare", x>>})
    <3>1. x \notin failed /\ ref[x] = "live" BY <2>4
    <3>2. kind[x] = "java" /\ (ToBeFinalized(x) \/ pushing \in {<<"ref", x>>, <<"bare", x>>})
      BY <1>7, <3>1 DEF Released
    <3>3. ToBeFinalized(x) => ToBeFinalized(x)' BY <1>3, <1>4 DEF ToBeFinalized
    <3> QED BY <1>3, <3>2, <3>3
  <2> QED BY <2>1, <2>2, <2>3, <2>4 DEF Released
<1>12. Pushed'
  <2>1. ASSUME NEW u \in stack[Main], u \in ToSet(udata) PROVE x1.marked[u] \notin White
    <3>4. kind[Main] = "thread" /\ u \in All BY <1>6, <2>1 DEF GCType, Lists
    <3>1. u \in Children(Main) BY <3>4, <2>1, NilFresh DEF Children, Slots, Tables
    <3>2. x1.marked[Main] \notin White BY <1>2, <1>6 DEF Grown, All
    <3>3. Main \notin ToSet(tmudata) BY <1>2, <1>4, <1>6 DEF GCType, Userdata
    <3> QED BY <1>2, <3>1, <3>2, <3>3 DEF Good, All
  <2> QED BY <1>3, <1>4, <1>7, <2>1 DEF Pushed
<1>13. Unreached'
  <2> SUFFICES ASSUME Plainly, NEW o \in Live' \ finalized', NEW x \in Held(o)', x \in finalized'
               PROVE  FALSE
    BY <1>3 DEF Unreached, Plainly
  <2>1. o \in alloc /\ o \in All /\ x \in Held(o) /\ o \notin finalized /\ o \notin tm
    BY <1>1, <1>3, <1>6, <1>8 DEF Live
  <2>2. x \notin finalized BY <1>6, <1>7, <2>1 DEF Unreached
  <2>3. x \in ToSet(udata) /\ x1.marked[x] \in White BY <1>3, <2>2
  <2>4. kind[x] \in Userdata BY <1>6, <2>3 DEF Lists
  <2>5. kind[o] # "string" BY <1>6, <2>1, HoldsNothing
  <2>6. ASSUME NEW u \in tm PROVE Children(u) = {}
    <3>1. u \in All /\ kind[u] \in Userdata BY <1>2
    <3>2. u \in Objects BY <1>6, <3>1 DEF GCType, Userdata, All
    <3>3. kind[u] = "java" BY <3>1, <3>2 DEF Plainly, Userdata
    <3>4. val[u] = Nil BY <1>6, <3>1, <3>3 DEF Shape
    <3> QED BY <3>3, <3>4 DEF Children, Tables
  <2>7. x1.marked[o] \notin White BY <1>1, <1>2, <2>1, <2>5, <2>6
  <2>8. x \notin Children(o) BY <1>2, <1>4, <2>1, <2>3, <2>7 DEF Good
  <2>9. kind[o] \in Tables
    <3> SUFFICES ASSUME kind[o] \notin Tables PROVE FALSE
      OBVIOUS
    <3>1. key[o] = Nil BY <1>6, <2>1 DEF Shape
    <3> QED BY <2>1, <2>8, <3>1 DEF Held, Children, Tables
  <2>10. o # Main BY <1>6, <2>9 DEF GCType, Tables
  <2>11. kind[o] \notin {"weakkey", "weakboth"} BY <2>1, <2>10 DEF Plainly, All
  <2>12. ~WeakKey(o) BY <2>11 DEF WeakKey
  <2>13. kind[o] # "thread" BY <2>9 DEF Tables
  <2>14. Held(o) = {key[o], val[o]} \ {Nil} BY <2>13 DEF Held
  <2>15. Children(o) = ({key[o]} \cup (IF WeakValue(o) THEN {} ELSE {val[o]})) \ {Nil}
    BY <2>9, <2>12, <2>13 DEF Children
  <2>16. x = val[o] /\ x # key[o] /\ x # Nil /\ WeakValue(o) BY <2>1, <2>8, <2>14, <2>15
  <2>17. x = val'[o]
    <3>1. x \in {key'[o], val'[o]} BY <1>3, <2>13 DEF Held
    <3> QED BY <1>3, <2>1, <2>16, <3>1
  <2>18. IsWeak(o) BY <2>16 DEF IsWeak
  <2>19. o \in x2.weak BY <1>1, <1>2, <2>1, <2>5, <2>18
  <2> QED BY <1>3, <2>4, <2>16, <2>17, <2>19
<1> QED BY <1>1, <1>9, <1>10, <1>11, <1>12, <1>13 DEF JInv
----------------------------------------------------------------------------
(* The invariant *)

LEMMA InitInv ==
    ASSUME JInit
    PROVE  IInv
<1>1. GCInv BY InitHolds DEF JInit
<1>2. /\ ref = [u \in Objects |-> "none"] /\ pushing = Idle
      /\ udata = <<>> /\ tmudata = <<>> /\ finalized = {} /\ hasgc = {} /\ phase = "open"
  BY DEF JInit, Init
<1>3. ToSet(udata) = {} /\ ToSet(tmudata) = {} BY <1>2 DEF ToSet
<1>4. RefType BY <1>2 DEF RefType, RefStates
<1>5. Kept BY <1>2 DEF Kept, ToBeFinalized
<1>6. Released BY <1>2, <1>3 DEF Released
<1>7. Pushed BY <1>2 DEF Pushed, Idle
<1>8. Unreached BY <1>2 DEF Unreached
<1> QED BY <1>1, <1>4, <1>5, <1>6, <1>7, <1>8, <1>2 DEF IInv, JInv

LEMMA MembersTyped ==
    ASSUME NEW T, NEW s \in Seq(T)
    PROVE  \A x \in ToSet(s) : x \in T
  BY ElementOfSeq, LenProperties DEF ToSet

\* While the state is open.
LEMMA OpenStep ==
    ASSUME GCInv, JInv, phase = "open", [JNext]_vars, ~CloseState
    PROVE  GCInv' /\ JInv' /\ phase' = "open"
<1>1. CASE pushing = Idle /\ Program /\ UNCHANGED <<ref, pushing, failed, late>>
  <2>1. phase' = phase
    BY <1>1 DEF Program, New, NewProxy, NewUdata, Intern, CaptureNew, CaptureOld, Load, Drop, SetTable,
                SetHeld, CloseUpval, collector
  <2> QED BY <1>1, <2>1, ProgramStep
<1>2. CASE SingleStep /\ UNCHANGED <<ref, pushing, failed, late>>
  <2>1. CASE \/ StartCycle \/ (\E o \in All : PropagateMark(o)) \/ EndCycle \/ FullGCSweep \/ FullGCMark
    <3>1. phase' = phase
      BY <2>1 DEF StartCycle, PropagateMark, EndCycle, FullGCSweep, FullGCMark, collector
    <3> QED BY <1>2, <2>1, <3>1, MarkingSteps
  <2>2. CASE \E L \in Threads : Atomic(L)
    <3>1. phase' = phase BY <2>2 DEF Atomic
    <3> QED BY <1>2, <2>2, <3>1, AtomicStep
  <2>3. CASE (\E S \in SUBSET Objects : SweepString(S)) \/ (\E o \in All : SweepObject(o))
    <3>1. phase' = phase BY <2>3 DEF SweepString, SweepObject
    <3> QED BY <1>2, <2>3, <3>1, SweepSteps
  <2> QED BY <1>2, <2>1, <2>2, <2>3 DEF SingleStep
<1>3. ASSUME NEW u \in Objects, NewGlobalRef(u) \/ KeepRef(u) \/ SetMetatable(u)
      PROVE  GCInv' /\ JInv' /\ phase' = "open"
  <2>1. phase' = phase
    BY <1>3 DEF NewGlobalRef, KeepRef, NewUdata, SetMetatable, gcvars, collector
  <2> QED BY <1>3, <2>1, NewGlobalRefStep, KeepRefStep, SetMetatableStep
<1>4. ASSUME NEW u \in Objects, Finalize(u) PROVE GCInv' /\ JInv' /\ phase' = "open"
  BY <1>4, FinalizeStep
<1>5. CASE PushFails
  <2>1. phase' = phase BY <1>5 DEF PushFails, gcvars, collector
  <2> QED BY <1>5, <2>1, PushFailsStep
<1>6. CASE UNCHANGED vars
  <2>1. UNCHANGED <<heap, m, udata, currentwhite, gcstate, unswept, tmudata>>
        /\ UNCHANGED <<kind, alloc, stack, hasgc, finalized, phase, ref, pushing, failed>>
    BY <1>6 DEF vars, gcvars, program, heap, collector
  <2>2. GCInv' /\ Live' = Live /\ \A o : Held(o)' = Held(o) BY <2>1, UnchangedKeeps
  <2>3. Unreached' BY <2>1, <2>2 DEF JInv, Unreached, Plainly
  <2> DEFINE D == {}
  <2>4. /\ D \cap Live = {} /\ ToSet(udata') = ToSet(udata) \ D
        /\ hasgc' = hasgc \ D /\ finalized' = finalized \ D
    BY <2>1
  <2> HIDE DEF D
  <2>5. Live \subseteq Live' /\ alloc' \subseteq alloc /\ stack[Main] \subseteq stack'[Main]
    BY <2>1, <2>2
  <2> QED BY <2>1, <2>2, <2>3, <2>4, <2>5, FrameKeeps
<1> QED BY <1>1, <1>2, <1>3, <1>4, <1>5, <1>6 DEF JNext

\* lua_close: whatever has a reference is to be finalized.
LEMMA CloseBegins ==
    ASSUME GCInv, JInv, phase = "open", CloseState
    PROVE  Closing' /\ phase' = "closing"
<1> DEFINE sep == Separate(TRUE, m.marked)
<1>1. /\ pushing = Idle /\ phase' = "closing"
      /\ \E list \in Sublists(udata, sep) : tmudata' = tmudata \o list
      /\ UNCHANGED <<kind, ref, failed, late>>
  BY DEF CloseState, BeginClose, FreeAll, heap
<1>2. /\ sep \subseteq ToSet(udata)
      /\ \A u : u \in sep <=> u \in ToSet(udata) /\ u \notin finalized /\ u \in hasgc
  BY DEF Separate
<1> HIDE DEF sep
<1>3. RefType /\ Kept /\ Released /\ Lists BY DEF JInv, GCInv
<1>4. tmudata' \in Seq(Objects) /\ Once(tmudata') /\ ToSet(tmudata') = ToSet(tmudata) \cup sep
  BY <1>1, <1>2, <1>3, AppendOnce
<1>5. \A u \in Objects : u \in ToSet(tmudata') <=> ToBeFinalized(u)
  <2> SUFFICES ASSUME NEW u \in Objects PROVE u \in ToSet(tmudata') <=> ToBeFinalized(u)
    OBVIOUS
  <2>1. u \in ToSet(tmudata) => ToBeFinalized(u) BY <1>3 DEF ToBeFinalized, Released
  <2>2. u \in sep => ToBeFinalized(u) BY <1>2 DEF ToBeFinalized
  <2>3. ASSUME ToBeFinalized(u), u \notin ToSet(tmudata) PROVE u \in ToSet(udata)
    BY <1>3, <2>3, ListsHold DEF ToBeFinalized, RefType, All
  <2> QED BY <1>2, <1>4, <2>1, <2>2, <2>3 DEF ToBeFinalized
<1>6. \A u \in ToSet(tmudata') : u \in Objects
  BY <1>4, MembersTyped
<1>7. ASSUME NEW u \in Objects, ref[u] = "live", u \notin failed
      PROVE  kind[u] = "java" /\ u \in ToSet(tmudata')
  BY <1>1, <1>3, <1>5, <1>7 DEF Released, Idle
<1>8. \A u \in ToSet(tmudata') : kind[u] = "java" => ref[u] = "live"
  BY <1>3, <1>5, <1>6 DEF Kept
<1> QED BY <1>1, <1>3, <1>4, <1>7, <1>8 DEF Closing, RefType, Released

\* A step that leaves the list of finalizers alone, while lua_close calls them.
LEMMA ClosingStays ==
    ASSUME Closing, phase # "open", UNCHANGED <<kind, tmudata, ref>>, phase' # "open",
           failed \subseteq failed', late \subseteq late', phase' = "closed" => tmudata = <<>>
    PROVE  Closing'
  BY DEF Closing

\* The next finalizer; gc deletes the reference.
LEMMA ClosingFinalize ==
    ASSUME Closing, phase # "open", NEW u \in Objects, Finalize(u)
    PROVE  Closing' /\ phase' # "open"
<1>1. /\ tmudata # <<>> /\ u = Head(tmudata) /\ tmudata' = Tail(tmudata)
      /\ ref' = IF kind[u] = "java" THEN [ref EXCEPT ![u] = Deleted(@)] ELSE ref
      /\ UNCHANGED <<kind, failed, late>> /\ phase' \in {"closing", "finalizer"}
  BY DEF Finalize, FinalizeOne, CallGCTM, GCTM
<1>2. /\ u \in ToSet(tmudata) /\ tmudata' \in Seq(Objects) /\ Once(tmudata')
      /\ ToSet(tmudata') = ToSet(tmudata) \ {u}
  BY <1>1, TailOnce DEF Closing
<1>3. kind[u] = "java" => ref[u] = "live" BY <1>2 DEF Closing
<1>4. \A x \in Objects : ref'[x] = IF x = u /\ kind[u] = "java" THEN "deleted" ELSE ref[x]
  BY <1>1, <1>3 DEF Closing, Deleted
<1>5. ref' \in [Objects -> RefStates]
  BY <1>1, <1>3 DEF Closing, Deleted, RefStates
<1>6. \A x \in ToSet(tmudata') : x \in Objects /\ x # u /\ x \in ToSet(tmudata)
  <2>1. \A x \in ToSet(tmudata) : x \in Objects
    BY MembersTyped DEF Closing
  <2> QED BY <1>2, <2>1
<1>7. \A x \in ToSet(tmudata') : kind'[x] = "java" => ref'[x] = "live"
  BY <1>1, <1>4, <1>6 DEF Closing
<1>8. ASSUME NEW x \in Objects, ref'[x] = "live"
      PROVE  x \in failed' \cup late' \/ (kind'[x] = "java" /\ x \in ToSet(tmudata'))
  <2>1. ref[x] = "live" /\ (x # u \/ kind[u] # "java") BY <1>4, <1>8
  <2>2. x \in failed \cup late \/ (kind[x] = "java" /\ x \in ToSet(tmudata)) BY <2>1 DEF Closing
  <2> QED BY <1>1, <1>2, <2>1, <2>2
<1>9. \A x \in Objects : ref'[x] # "deleted twice" BY <1>4 DEF Closing
<1> QED BY <1>1, <1>2, <1>5, <1>7, <1>8, <1>9 DEF Closing

\* What finalizers written in Lua do adds references to late and failed alone.
LEMMA ClosingStep ==
    ASSUME Closing, phase # "open", [JNext]_vars
    PROVE  Closing' /\ phase' # "open"
<1>1. CASE pushing = Idle /\ Program /\ UNCHANGED <<ref, pushing, failed, late>>
  <2>1. UNCHANGED <<kind, tmudata, phase>>
    BY <1>1 DEF Program, New, NewProxy, NewUdata, Intern, CaptureNew, CaptureOld, Load, Drop, SetTable,
                SetHeld, CloseUpval, collector
  <2> QED BY <1>1, <2>1, ClosingStays DEF Closing
<1>2. ASSUME NEW u \in Objects, NewGlobalRef(u) PROVE Closing' /\ phase' # "open"
  <2>1. /\ UNCHANGED <<kind, tmudata, phase, failed>> /\ phase = "finalizer"
        /\ ref' = [ref EXCEPT ![u] = "live"] /\ late' = late \cup {u}
    BY <1>2 DEF NewGlobalRef, Running, gcvars, program, heap, collector
  <2>2. \A x \in ToSet(tmudata) : x \in Objects BY MembersTyped DEF Closing
  <2>3. \A x \in Objects : ref'[x] = IF x = u THEN "live" ELSE ref[x] BY <2>1 DEF Closing
  <2>4. ref' \in [Objects -> RefStates] BY <2>1 DEF Closing, RefStates
  <2>5. \A x \in Objects : ref'[x] = "live" =>
            x \in failed' \cup late' \/ (kind'[x] = "java" /\ x \in ToSet(tmudata'))
    BY <2>1, <2>3 DEF Closing
  <2>6. \A x \in ToSet(tmudata') : kind'[x] = "java" => ref'[x] = "live"
    BY <2>1, <2>2, <2>3 DEF Closing
  <2>7. \A x \in Objects : ref'[x] # "deleted twice" BY <2>3 DEF Closing
  <2> QED BY <2>1, <2>4, <2>5, <2>6, <2>7 DEF Closing
<1>3. ASSUME NEW u \in Objects, KeepRef(u) \/ SetMetatable(u) PROVE Closing' /\ phase' # "open"
  <2>1. UNCHANGED <<kind, tmudata, phase, ref, failed, late>>
    BY <1>3 DEF KeepRef, NewUdata, SetMetatable, heap, collector
  <2> QED BY <2>1, ClosingStays DEF Closing
<1>4. ASSUME NEW u \in Objects, Finalize(u) PROVE Closing' /\ phase' # "open"
  BY <1>4, ClosingFinalize
<1>5. CASE PushFails
  <2>1. UNCHANGED <<kind, tmudata, phase, ref, late>> /\ failed \subseteq failed'
    BY <1>5 DEF PushFails, gcvars, program, heap, collector
  <2> QED BY <2>1, ClosingStays DEF Closing
<1>6. CASE CloseState
  <2>1. UNCHANGED <<kind, ref, failed, late>> /\ tmudata = <<>> /\ tmudata' = <<>> /\ phase' = "closed"
    BY <1>6 DEF CloseState, BeginClose, FreeAll
  <2> QED BY <2>1, ClosingStays
<1>7. CASE UNCHANGED vars
  <2>1. UNCHANGED <<kind, tmudata, phase, ref, failed, late>>
    BY <1>7 DEF vars, gcvars, program, heap, collector
  <2> QED BY <2>1, ClosingStays DEF Closing
<1>8. ~SingleStep BY DEF SingleStep
<1> QED BY <1>1, <1>2, <1>3, <1>4, <1>5, <1>6, <1>7, <1>8 DEF JNext

LEMMA StepInv ==
    ASSUME IInv, [JNext]_vars
    PROVE  IInv'
<1>1. CASE phase = "open" /\ ~CloseState BY <1>1, OpenStep DEF IInv
<1>2. CASE phase = "open" /\ CloseState BY <1>2, CloseBegins DEF IInv
<1>3. CASE phase # "open" BY <1>3, ClosingStep DEF IInv
<1> QED BY <1>1, <1>2, <1>3

\* The collector's invariant and that of the references hold in every behaviour.
THEOREM Invariance == Spec => []IInv
<1>1. JInit => IInv BY InitInv
<1>2. IInv /\ [JNext]_vars => IInv' BY StepInv
<1> QED BY <1>1, <1>2, PTL DEF Spec

\* The collector is safe: what the program can get at, through strong or weak
\* references, and what waits for a finalizer is allocated and not dead, however
\* its steps come between the program's (sweeplist, luaC_barrierf).
THEOREM CollectorSafe == Spec => []Safe
<1>1. IInv => Safe BY GCInvSafe DEF IInv
<1> QED BY <1>1, Invariance, PTL

\* While marking goes on no traversed object leads to a white one, whatever the
\* program stores between two steps (luaC_barrierf, luaC_barrierback, luaC_linkupval).
THEOREM MarkingSound == Spec => []TriColour
<1>1. IInv => TriColour BY GCInvTriColour DEF IInv
<1> QED BY <1>1, Invariance, PTL

\* A Java object that Lua can get at has its global reference, unless finalizers
\* are written in Lua or weak keys are used (gc, which deletes the reference).
THEOREM RefsStayLive == Spec => []RefsLiveByUse
<1>1. IInv => RefsLiveByUse
  <2> SUFFICES ASSUME IInv, phase = "open", Plainly, NEW u \in Accessible, kind[u] = "java", u \in hasgc
               PROVE  ref[u] = "live"
    BY DEF RefsLiveByUse, RefsLive, Plainly
  <2>1. GCInv /\ RefType /\ Kept /\ Unreached BY DEF IInv, JInv
  <2>2. u \notin finalized BY <2>1, KnownUnfinalized
  <2> QED BY <2>1, <2>2 DEF Kept, ToBeFinalized, RefType
<1> QED BY <1>1, Invariance, PTL

\* No reference is deleted twice, by lua_close neither, which leaves none but those
\* whose pushJavaObject ran out of memory and those that finalizers made while it
\* called them (gc; pushJavaObject; luaC_callGCTM, close_state).
THEOREM RefsReleased == Spec => []ReleasedOnce
<1>1. IInv => ReleasedOnce
  <2> SUFFICES ASSUME IInv PROVE ReleasedOnce
    OBVIOUS
  <2>1. CASE phase = "open"
    BY <2>1 DEF IInv, JInv, Released, ReleasedOnce
  <2>2. CASE phase # "open"
    <3>1. Closing BY <2>2 DEF IInv
    <3>2. tmudata = <<>> => ToSet(tmudata) = {} BY DEF ToSet
    <3> QED BY <3>1, <3>2 DEF Closing, ReleasedOnce
  <2> QED BY <2>1, <2>2
<1> QED BY <1>1, Invariance, PTL
=============================================================================
