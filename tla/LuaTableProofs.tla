--------------------------- MODULE LuaTableProofs ---------------------------
(***************************************************************************)
(* For any keys, any hashes and any sizes: a table finds what was stored   *)
(* in it, a traversal meets each element once, the length is a border, and *)
(* no metamethod that is there is taken to be absent.                      *)
(*                                                                         *)
(* The argument: links form chains without circles in which no two nodes   *)
(* have the same successor (Straight), so a new key can be linked in, or   *)
(* take the place of a node that moves, without cutting a chain.  Each key *)
(* is in the chain of its main position, which starts with a node that is  *)
(* at home (Reached); nodes that are free are in no chain (FreeNodes).  A  *)
(* key has one live node (LiveOnce), found before any cleared one of the   *)
(* same key (LiveFirst), so it keeps its number in a traversal (Walk).     *)
(* When a table is sized anew, its keys and the new one are counted, so    *)
(* there is room for each that is inserted again (RoomLeft).               *)
(***************************************************************************)
EXTENDS LuaTable, FiniteSetTheorems, SequenceTheorems, WellFoundedInduction, TLAPS

----------------------------------------------------------------------------
(* What a table is: the inductive invariant.                                 *)
Entries == Keys \cup {Nil}
NodeSet == [key : Entries, val : Entries, next : Int, tt : {"live", "dead"}]
NodeArrays == UNION {[0..n - 1 -> NodeSet] : n \in Nat \ {0}}
TableSet == [array : Seq(Entries), node : NodeArrays, dummy : BOOLEAN, lastfree : Nat,
             flags : SUBSET Events]

\* Links lead from node to node, two never to the same, and in no circle.
LinkSet(m) == [0..m - 1 -> -1..m - 1]
NoCircle(next) == \A i \in DOMAIN next : next[i] # NoNode => i \notin ChainOf(next, next[i])
Straight(m, next) ==
  /\ next \in LinkSet(m)
  /\ \A i, j \in 0..m - 1 : next[i] = next[j] /\ next[i] # NoNode => i = j
  /\ NoCircle(next)

\* Free nodes are not linked, and there are none from lastfree on.
FreeNodes(t) == \A i \in DOMAIN t.node :
  /\ t.node[i].next # NoNode => t.node[t.node[i].next].key # Nil
  /\ t.node[i].key = Nil => t.node[i].next = NoNode /\ t.node[i].val = Nil /\ t.node[i].tt = "live"
  /\ t.lastfree <= i => t.node[i].key # Nil \/ t.dummy

\* Only strings without a value are cleared.
DeadNodes(t) == \A i \in DOMAIN t.node :
  t.node[i].tt = "dead" => t.node[i].val = Nil /\ t.node[i].key[1] = "str"

\* A key is in the chain of its main position, whose first node is at home.
Reached(t) == \A i \in DOMAIN t.node : t.node[i].key # Nil =>
  LET mp == mainposition(t, t.node[i].key)
  IN /\ i \in Chain(t, mp)
     /\ t.node[mp].key # Nil /\ mainposition(t, t.node[mp].key) = mp

\* A key has one node that is alive, ...
LiveOnce(t) == \A i, j \in DOMAIN t.node :
  t.node[i].key # Nil /\ t.node[i].key = t.node[j].key /\ t.node[i].tt = "live" /\ t.node[j].tt = "live" => i = j

\* ... and those that were cleared come after it.
LiveFirst(t) == \A i, j \in DOMAIN t.node :
  t.node[i].key # Nil /\ t.node[i].key = t.node[j].key /\ t.node[i].tt = "live" /\ t.node[j].tt = "dead"
  => i \notin Chain(t, j)

\* The numbers of the array are not in nodes.
ArrayPart(t) ==
  /\ \A j \in DOMAIN t.array : t.array[j] # Nil => Num(j) \in Keys
  /\ \A i \in DOMAIN t.node : t.node[i].key # Nil /\ t.node[i].key[1] = "num" => t.node[i].key[2] \notin DOMAIN t.array

\* dummynode is never written.
DummyNode(t) == t.dummy => DOMAIN t.node = {0} /\ t.node[0].key = Nil /\ t.lastfree = 0

\* The parts together.
Table(t) ==
  /\ t \in TableSet /\ t.lastfree <= SizeNode(t)
  /\ Straight(SizeNode(t), Links(t)) /\ FreeNodes(t) /\ DeadNodes(t) /\ Reached(t) /\ LiveOnce(t) /\ LiveFirst(t)
  /\ ArrayPart(t) /\ DummyNode(t)

\* The number of a key as an element, for a traversal.
Position(t, key) == LET at == luaH_get(t, key) IN IF at[1] = "array" THEN at[2] ELSE Len(t.array) + at[2] + 1

\* A traversal has met the elements up to its key, and those only.
Walk == iter.on =>
  LET f == findindex(h, iter.key)
  IN /\ f \in 0..Len(h.array) + SizeNode(h)
     /\ IsInjective(iter.seen)
     /\ \A k \in ToSet(iter.seen) : contents[k] # Nil => Position(h, k) <= f
     /\ \A k \in iter.kept : contents[k] # Nil /\ (Position(h, k) <= f => k \in ToSet(iter.seen))

TypeOK == /\ contents \in [Keys -> Entries]
          /\ iter \in [on : BOOLEAN, key : Entries, seen : Seq(Keys), kept : SUBSET Keys]

IInv == TypeOK /\ Table(h) /\ FindsStored /\ AbsentRemembered /\ Walk

----------------------------------------------------------------------------
(* Numbers, and functions defined step by step.                              *)
\* A set of numbers has a least one ...
LEMMA LeastNat ==
    ASSUME NEW T \in SUBSET Nat, T # {}
    PROVE  \E x \in T : \A y \in T : x <= y
<1> DEFINE R == OpToRel(<, Nat)
<1>1. \A x, y \in Nat : <<x, y>> \in R <=> x < y
  BY DEF OpToRel
<1>2. IsWellFoundedOn(R, Nat) BY NatLessThanWellFounded
<1> HIDE DEF R
<1>3. PICK x \in T : \A y \in T : ~(<<y, x>> \in R) BY <1>2, WFMin
<1>4. \A y \in T : x <= y
  <2> TAKE y \in T
  <2>1. x \in Nat /\ y \in Nat OBVIOUS
  <2>2. ~(y < x) BY <1>1, <1>3, <2>1
  <2> QED BY <2>1, <2>2
<1> QED BY <1>4

\* A set of numbers with 0 and the successor of each member has them all.
LEMMA NatSets ==
    ASSUME NEW T, 0 \in T, \A n \in Nat : n \in T => n + 1 \in T
    PROVE  Nat \subseteq T
<1> SUFFICES ASSUME Nat \ T # {} PROVE FALSE
  OBVIOUS
<1>1. PICK x \in Nat \ T : \A y \in Nat \ T : x <= y BY LeastNat
<1>2. x # 0 /\ x - 1 \in Nat /\ x - 1 \in T BY <1>1
<1> QED BY <1>2

\* f takes n steps from s0, in S.
Steps(f, n, S, s0, step) ==
  f \in [0..n -> S] /\ f[0] = s0 /\ \A i \in 1..n : f[i] = step[i][f[i - 1]]

\* Steps can be taken, any number of them.
LEMMA StepsExist ==
    ASSUME NEW S, NEW s0 \in S, NEW step \in [Nat -> [S -> S]]
    PROVE  \A n \in Nat : \E f : Steps(f, n, S, s0, step)
<1> DEFINE T == {n \in Nat : \E f : Steps(f, n, S, s0, step)}
<1>1. 0 \in T
  <2> DEFINE f == [i \in 0..0 |-> s0]
  <2>1. Steps(f, 0, S, s0, step) BY DEF Steps
  <2> QED BY <2>1
<1>2. ASSUME NEW n \in Nat, n \in T PROVE n + 1 \in T
  <2>1. PICK f : Steps(f, n, S, s0, step) BY <1>2
  <2> DEFINE g == [i \in 0..n + 1 |-> IF i = n + 1 THEN step[n + 1][f[n]] ELSE f[i]]
  <2>2. n + 1 \in Nat /\ f[n] \in S BY <2>1 DEF Steps
  <2>3. step[n + 1][f[n]] \in S BY <2>2
  <2>4. g \in [0..n + 1 -> S] BY <2>1, <2>3 DEF Steps
  <2>5. g[0] = s0
    <3>1. 0 \in 0..n + 1 /\ 0 # n + 1 OBVIOUS
    <3> QED BY <2>1, <3>1 DEF Steps
  <2>6. ASSUME NEW i \in 1..n + 1 PROVE g[i] = step[i][g[i - 1]]
    <3>1. CASE i = n + 1
      <4>1. i - 1 = n /\ n \in 0..n + 1 /\ n # n + 1 /\ n + 1 \in 0..n + 1 BY <3>1
      <4>2. g[i - 1] = f[n] BY <4>1
      <4>3. g[i] = step[n + 1][f[n]] BY <3>1, <4>1
      <4> QED BY <3>1, <4>2, <4>3
    <3>2. CASE i # n + 1
      <4>1. i \in 1..n /\ i \in 0..n + 1 /\ i - 1 \in 0..n + 1 /\ i - 1 # n + 1 BY <3>2
      <4>2. g[i] = f[i] /\ g[i - 1] = f[i - 1] BY <3>2, <4>1
      <4> QED BY <2>1, <4>1, <4>2 DEF Steps
    <3> QED BY <3>1, <3>2
  <2> HIDE DEF g
  <2>7. Steps(g, n + 1, S, s0, step) BY <2>4, <2>5, <2>6 DEF Steps
  <2> QED BY <2>7
<1> HIDE DEF T
<1>3. Nat \subseteq T BY <1>1, <1>2, NatSets
<1> QED BY <1>3 DEF T

\* And steps for ever.
StepsOn(F, S, s0, step) ==
  F \in [Nat -> S] /\ F[0] = s0 /\ \A i \in Nat \ {0} : F[i] = step[i][F[i - 1]]

\* So they can without an end.
LEMMA StepsForever ==
    ASSUME NEW S, NEW s0 \in S, NEW step \in [Nat -> [S -> S]]
    PROVE  \E F : StepsOn(F, S, s0, step)
<1> DEFINE G(n) == CHOOSE f : Steps(f, n, S, s0, step)
           T == {i \in Nat : \A n \in Nat : i <= n => G(n)[i] = G(i)[i]}
           F == [n \in Nat |-> G(n)[n]]
<1>1. ASSUME NEW n \in Nat PROVE Steps(G(n), n, S, s0, step)
  <2>1. \E f : Steps(f, n, S, s0, step) BY StepsExist
  <2> QED BY <2>1
<1> HIDE DEF G
<1>2. 0 \in T BY <1>1 DEF Steps
<1>3. ASSUME NEW i \in Nat, i \in T PROVE i + 1 \in T
  <2>1. ASSUME NEW n \in Nat, i + 1 <= n PROVE G(n)[i + 1] = G(i + 1)[i + 1]
    <3>1. Steps(G(n), n, S, s0, step) /\ Steps(G(i + 1), i + 1, S, s0, step) BY <1>1
    <3>2. i + 1 \in 1..n /\ i + 1 \in 1..i + 1 /\ i + 1 - 1 = i /\ i <= n /\ i <= i + 1 BY <2>1
    <3>3. G(n)[i] = G(i)[i] /\ G(i + 1)[i] = G(i)[i] BY <1>3, <3>2
    <3>4. G(n)[i + 1] = step[i + 1][G(n)[i]] BY <3>1, <3>2 DEF Steps
    <3>5. G(i + 1)[i + 1] = step[i + 1][G(i + 1)[i]] BY <3>1, <3>2 DEF Steps
    <3> QED BY <3>3, <3>4, <3>5
  <2> QED BY <2>1
<1> HIDE DEF T
<1>4. Nat \subseteq T BY <1>2, <1>3, NatSets
<1>5. F \in [Nat -> S]
  <2>1. ASSUME NEW n \in Nat PROVE G(n)[n] \in S BY <1>1 DEF Steps
  <2> QED BY <2>1
<1>6. F[0] = s0 BY <1>1 DEF Steps
<1>7. ASSUME NEW i \in Nat \ {0} PROVE F[i] = step[i][F[i - 1]]
  <2>1. i - 1 \in Nat /\ i - 1 <= i /\ i \in 1..i OBVIOUS
  <2>2. i - 1 \in T BY <1>4, <2>1
  <2>3. G(i)[i - 1] = G(i - 1)[i - 1] BY <2>1, <2>2 DEF T
  <2>4. Steps(G(i), i, S, s0, step) BY <1>1
  <2>5. G(i)[i] = step[i][G(i)[i - 1]] BY <2>1, <2>4 DEF Steps
  <2>6. F[i] = G(i)[i] /\ F[i - 1] = G(i - 1)[i - 1] BY <2>1
  <2> QED BY <2>3, <2>5, <2>6
<1> HIDE DEF F
<1>8. StepsOn(F, S, s0, step) BY <1>5, <1>6, <1>7 DEF StepsOn
<1> QED BY <1>8

\* ... and, below a bound, a greatest.
LEMMA GreatestNat ==
    ASSUME NEW T \in SUBSET Nat, T # {}, NEW b \in Nat, \A x \in T : x <= b
    PROVE  \E x \in T : \A y \in T : y <= x
<1> DEFINE U == {b - x : x \in T}
<1>1. U \in SUBSET Nat /\ U # {}
  <2>1. \A x \in T : b - x \in Nat OBVIOUS
  <2> QED BY <2>1
<1>2. PICK u \in U : \A w \in U : u <= w
  <2> HIDE DEF U
  <2> QED BY <1>1, LeastNat
<1>3. PICK x \in T : u = b - x BY <1>2
<1>4. \A y \in T : b - x <= b - y BY <1>2, <1>3
<1>5. \A y \in T : y <= x
  <2> TAKE y \in T
  <2>1. x \in Nat /\ y \in Nat /\ b - x <= b - y BY <1>4
  <2> QED BY <2>1
<1> QED BY <1>5

\* The powers of two.
LEMMA TwoToSteps ==
    /\ TwoTo \in [Nat -> Nat]
    /\ TwoTo[0] = 1
    /\ \A n \in Nat \ {0} : TwoTo[n] = 2 * TwoTo[n - 1]
<1> DEFINE step == [i \in Nat |-> [x \in Nat |-> 2 * x]]
           D(f) == f = [n \in Nat |-> IF n = 0 THEN 1 ELSE 2 * f[n - 1]]
<1>1. step \in [Nat -> [Nat -> Nat]] OBVIOUS
<1>2. \A i, x \in Nat : step[i][x] = 2 * x OBVIOUS
<1> HIDE DEF step, D
<1>3. PICK f : StepsOn(f, Nat, 1, step)
  <2>1. 1 \in Nat OBVIOUS
  <2> QED BY <1>1, <2>1, StepsForever
<1>4. ASSUME NEW n \in Nat PROVE f[n] = IF n = 0 THEN 1 ELSE 2 * f[n - 1]
  <2>1. CASE n = 0 BY <1>3, <2>1 DEF StepsOn
  <2>2. CASE n # 0
    <3>1. n - 1 \in Nat /\ f[n - 1] \in Nat BY <1>3, <2>2 DEF StepsOn
    <3>2. f[n] = step[n][f[n - 1]] BY <1>3, <2>2 DEF StepsOn
    <3> QED BY <1>2, <2>2, <3>1, <3>2
  <2> QED BY <2>1, <2>2
<1>5. D(f) BY <1>3, <1>4 DEF StepsOn, D
<1>6. TwoTo = CHOOSE g : D(g) BY DEF TwoTo, D
<1>7. D(TwoTo)
  <2> HIDE DEF D
  <2> QED BY <1>5, <1>6
<1>8. TwoTo = [n \in Nat |-> IF n = 0 THEN 1 ELSE 2 * TwoTo[n - 1]] BY <1>7 DEF D
<1>9. DOMAIN TwoTo = Nat /\ TwoTo[0] = 1 /\ \A n \in Nat \ {0} : TwoTo[n] = 2 * TwoTo[n - 1] BY <1>8
<1> DEFINE T == {n \in Nat : TwoTo[n] \in Nat}
<1>10. 0 \in T BY <1>9
<1>11. ASSUME NEW n \in Nat, n \in T PROVE n + 1 \in T
  <2>1. n + 1 \in Nat \ {0} /\ n + 1 - 1 = n OBVIOUS
  <2>2. TwoTo[n + 1] = 2 * TwoTo[n] BY <1>9, <2>1
  <2>3. TwoTo[n] \in Nat BY <1>11
  <2> QED BY <2>1, <2>2, <2>3
<1> HIDE DEF T
<1>12. Nat \subseteq T BY <1>10, <1>11, NatSets
<1>13. \A n \in Nat : TwoTo[n] \in Nat BY <1>12 DEF T
<1>14. TwoTo = [n \in Nat |-> TwoTo[n]] BY <1>8
<1>15. TwoTo \in [Nat -> Nat] BY <1>13, <1>14
<1> QED BY <1>9, <1>15

\* A power of two is greater than its exponent.
LEMMA TwoToGrows == \A n \in Nat : TwoTo[n] \in Nat /\ TwoTo[n] > n
<1> DEFINE T == {n \in Nat : TwoTo[n] \in Nat /\ TwoTo[n] > n}
<1>1. 0 \in T BY TwoToSteps
<1>2. ASSUME NEW n \in Nat, n \in T PROVE n + 1 \in T
  <2>1. n + 1 \in Nat \ {0} /\ n + 1 - 1 = n OBVIOUS
  <2>2. TwoTo[n + 1] = 2 * TwoTo[n] BY TwoToSteps, <2>1
  <2>3. TwoTo[n] \in Nat /\ TwoTo[n] > n BY <1>2
  <2> QED BY <2>1, <2>2, <2>3
<1> HIDE DEF T
<1>3. Nat \subseteq T BY <1>1, <1>2, NatSets
<1> QED BY <1>3 DEF T

\* A size asked for is the power of two that is not less.
LEMMA CeilLog2Enough ==
    ASSUME NEW x \in Nat
    PROVE  TwoTo[CeilLog2(x)] \in Nat /\ TwoTo[CeilLog2(x)] >= x /\ TwoTo[CeilLog2(x)] > 0
<1> DEFINE T == {n \in Nat : TwoTo[n] >= x}
           Q(n) == TwoTo[n] >= x /\ (n = 0 \/ TwoTo[n - 1] < x)
<1>1. x \in T BY TwoToGrows
<1>2. PICK n \in T : \A m \in T : n <= m
  <2>1. T \in SUBSET Nat /\ T # {} BY <1>1
  <2> HIDE DEF T
  <2> QED BY <2>1, LeastNat
<1>3. n \in 0..x BY <1>1, <1>2
<1>4. Q(n)
  <2>1. TwoTo[n] >= x BY <1>2
  <2>2. CASE n # 0
    <3>1. n - 1 \in Nat /\ ~(n <= n - 1) BY <1>3, <2>2
    <3>2. ~(TwoTo[n - 1] >= x) BY <1>2, <3>1
    <3>3. TwoTo[n - 1] \in Nat BY <3>1, TwoToGrows
    <3>4. TwoTo[n - 1] < x BY <3>2, <3>3
    <3> QED BY <2>1, <3>4
  <2> QED BY <2>1, <2>2
<1>5. CeilLog2(x) = CHOOSE m \in 0..x : Q(m) BY DEF CeilLog2
<1> HIDE DEF Q
<1>6. CeilLog2(x) \in 0..x /\ Q(CeilLog2(x)) BY <1>3, <1>4, <1>5
<1>7. CeilLog2(x) \in Nat BY <1>6
<1> QED BY <1>6, <1>7, TwoToGrows DEF Q

----------------------------------------------------------------------------
(* Chains of nodes.                                                          *)
ClosedUnder(next, R) == \A x \in R : x \in DOMAIN next /\ (next[x] # NoNode => next[x] \in R)

\* path follows the links from n on, and ChainOf collects what it meets.
Path(path, m, next, n) ==
  /\ path \in [0..m - 1 -> -1..m - 1]
  /\ path[0] = n
  /\ \A i \in 1..m - 1 : path[i] = Follow(next, path[i - 1])
  /\ ChainOf(next, n) = {path[i] : i \in 0..m - 1} \ {NoNode}

\* The path ChainOf follows is there.
LEMMA PathExists ==
    ASSUME NEW m \in Nat \ {0}, NEW next \in LinkSet(m), NEW n \in 0..m - 1
    PROVE  \E path : Path(path, m, next, n)
<1> DEFINE S == -1..m - 1
           step == [i \in Nat |-> [x \in S |-> Follow(next, x)]]
           D(p) == p = [i \in 0..m - 1 |-> IF i = 0 THEN n ELSE Follow(next, p[i - 1])]
<1>1. ASSUME NEW x \in S PROVE Follow(next, x) \in S BY DEF LinkSet, Follow, NoNode
<1>2. step \in [Nat -> [S -> S]] BY <1>1
<1>3. \A i \in Nat : \A x \in S : step[i][x] = Follow(next, x) OBVIOUS
<1>4. n \in S OBVIOUS
<1> HIDE DEF step, S
<1>5. m - 1 \in Nat OBVIOUS
<1>6. PICK p : Steps(p, m - 1, S, n, step) BY <1>2, <1>4, <1>5, StepsExist
<1>7. p \in [0..m - 1 -> S] /\ p[0] = n /\ \A i \in 1..m - 1 : p[i] = step[i][p[i - 1]] BY <1>6 DEF Steps
<1>8. ASSUME NEW i \in 1..m - 1 PROVE p[i] = Follow(next, p[i - 1])
  <2>1. i - 1 \in 0..m - 1 /\ i \in Nat OBVIOUS
  <2>2. p[i - 1] \in S BY <1>7, <2>1
  <2> QED BY <1>3, <1>7, <2>1, <2>2
<1>9. D(p)
  <2>1. ASSUME NEW i \in 0..m - 1 PROVE p[i] = IF i = 0 THEN n ELSE Follow(next, p[i - 1])
    <3>1. i # 0 => i \in 1..m - 1 OBVIOUS
    <3> QED BY <1>7, <1>8, <3>1
  <2> QED BY <1>7, <2>1
<1> DEFINE path == CHOOSE q : D(q)
<1>10. D(path)
  <2> HIDE DEF D
  <2> QED BY <1>9
<1>11. Cardinality(DOMAIN next) = m
  <2>1. DOMAIN next = 0..m - 1 BY DEF LinkSet
  <2>2. m - 1 \in Int /\ ~(0 > m - 1) /\ 0 \in Int OBVIOUS
  <2>3. Cardinality(0..m - 1) = m - 1 - 0 + 1 BY <2>2, FS_Interval
  <2> QED BY <2>1, <2>3
<1>12. ChainOf(next, n) = {path[i] : i \in 0..m - 1} \ {NoNode} BY <1>11 DEF ChainOf
<1> HIDE DEF path
<1>13. path = [i \in 0..m - 1 |-> IF i = 0 THEN n ELSE Follow(next, path[i - 1])] BY <1>10
<1> HIDE DEF D
<1>14. path[0] = n BY <1>13
<1>15. \A i \in 1..m - 1 : path[i] = Follow(next, path[i - 1]) BY <1>13
<1> DEFINE T == {i \in Nat : i <= m - 1 => path[i] \in S}
<1>16. 0 \in T BY <1>4, <1>14
<1>17. ASSUME NEW i \in Nat, i \in T PROVE i + 1 \in T
  <2>1. ASSUME i + 1 <= m - 1 PROVE path[i + 1] \in S
    <3>1. i + 1 \in 1..m - 1 /\ i + 1 - 1 = i /\ i <= m - 1 BY <2>1
    <3>2. path[i] \in S BY <1>17, <3>1
    <3> QED BY <1>1, <1>15, <3>1, <3>2
  <2> QED BY <2>1
<1> HIDE DEF T
<1>18. Nat \subseteq T BY <1>16, <1>17, NatSets
<1>19. \A i \in 0..m - 1 : path[i] \in S BY <1>18 DEF T
<1>20. path \in [0..m - 1 -> S] BY <1>13, <1>19
<1>21. Path(path, m, next, n) BY <1>12, <1>14, <1>15, <1>20 DEF S, Path
<1> QED BY <1>21

\* A chain starts with its node and stays among the nodes.
LEMMA ChainStart ==
    ASSUME NEW m \in Nat \ {0}, NEW next \in LinkSet(m), NEW n \in 0..m - 1
    PROVE  n \in ChainOf(next, n) /\ ChainOf(next, n) \subseteq 0..m - 1
<1>1. PICK path : Path(path, m, next, n)
  BY PathExists
<1>2. n \in ChainOf(next, n)
  <2>1. 0 \in 0..m - 1 /\ n # NoNode BY DEF NoNode
  <2> QED BY <1>1, <2>1 DEF Path
<1>3. ASSUME NEW x \in ChainOf(next, n) PROVE x \in 0..m - 1
  <2>1. x \in -1..m - 1 /\ x # -1 BY <1>1 DEF NoNode, Path
  <2> QED BY <2>1
<1> QED BY <1>2, <1>3

\* A set of nodes that the links do not leave holds the chains of its nodes.
LEMMA ChainLeast ==
    ASSUME NEW m \in Nat \ {0}, NEW next \in LinkSet(m), NEW R, ClosedUnder(next, R), NEW n \in R
    PROVE  ChainOf(next, n) \subseteq R
<1>1. n \in 0..m - 1 BY DEF ClosedUnder, LinkSet
<1>2. PICK path : Path(path, m, next, n)
  BY <1>1, PathExists
<1> DEFINE T == {i \in Nat : i <= m - 1 => path[i] = NoNode \/ path[i] \in R}
<1>3. 0 \in T BY <1>2 DEF Path
<1>4. ASSUME NEW i \in Nat, i \in T PROVE i + 1 \in T
  <2>1. ASSUME i + 1 <= m - 1 PROVE path[i + 1] = NoNode \/ path[i + 1] \in R
    <3>1. i + 1 \in 1..m - 1 /\ i + 1 - 1 = i /\ i <= m - 1 BY <2>1
    <3>2. path[i] = NoNode \/ path[i] \in R BY <1>4, <3>1
    <3>3. path[i + 1] = Follow(next, path[i]) BY <1>2, <3>1 DEF Path
    <3> QED BY <3>2, <3>3 DEF Follow, ClosedUnder
  <2> QED BY <2>1
<1> HIDE DEF T
<1>5. Nat \subseteq T BY <1>3, <1>4, NatSets
<1>6. \A i \in 0..m - 1 : path[i] = NoNode \/ path[i] \in R BY <1>5 DEF T
<1> QED BY <1>2, <1>6 DEF Path

\* Where a path of as many nodes as there are has come, it has been before.
LEMMA PathRepeats ==
    ASSUME NEW m \in Nat \ {0}, NEW next \in LinkSet(m),
           NEW path \in [0..m - 1 -> -1..m - 1],
           \A i \in 1..m - 1 : path[i] = Follow(next, path[i - 1]),
           path[m - 1] # NoNode, next[path[m - 1]] # NoNode
    PROVE  \E i \in 0..m - 1 : path[i] = next[path[m - 1]]
<1> DEFINE last == m - 1
           y == next[path[last]]
           T == {k \in Nat : k <= last => path[last - k] # NoNode}
<1>0. last \in Nat /\ last \in 0..m - 1 OBVIOUS
<1>1. 0 \in T OBVIOUS
<1>2. ASSUME NEW k \in Nat, k \in T PROVE k + 1 \in T
  <2>1. ASSUME k + 1 <= last PROVE path[last - (k + 1)] # NoNode
    <3>1. last - k \in 1..m - 1 /\ (last - k) - 1 = last - (k + 1) /\ k <= last BY <2>1
    <3>2. path[last - k] = Follow(next, path[last - (k + 1)])
      <4>1. path[last - k] = Follow(next, path[(last - k) - 1]) BY <3>1
      <4> QED BY <3>1, <4>1
    <3>3. path[last - k] # NoNode BY <1>2, <3>1
    <3> QED BY <3>2, <3>3 DEF Follow
  <2> QED BY <2>1
<1> HIDE DEF T
<1>3. Nat \subseteq T BY <1>1, <1>2, NatSets
<1>4. ASSUME NEW i \in 0..last PROVE path[i] \in 0..m - 1
  <2>1. last - i \in Nat /\ last - i <= last /\ last - (last - i) = i BY <1>0
  <2>2. last - i \in T BY <1>3, <2>1
  <2>3. path[last - (last - i)] # NoNode BY <2>1, <2>2 DEF T
  <2>4. path[i] # NoNode BY <2>1, <2>3
  <2>5. path[i] \in -1..m - 1 OBVIOUS
  <2> QED BY <2>4, <2>5 DEF NoNode
<1>5. y \in 0..m - 1
  <2>1. path[last] \in 0..m - 1 BY <1>0, <1>4
  <2>2. y \in -1..m - 1 /\ y # NoNode BY <2>1 DEF LinkSet
  <2> QED BY <2>2 DEF NoNode
<1> DEFINE f == [i \in 0..m |-> IF i = m THEN y ELSE path[i]]
<1>6. f \in [0..m -> 0..m - 1]
  <2>1. ASSUME NEW i \in 0..m PROVE (IF i = m THEN y ELSE path[i]) \in 0..m - 1
    <3>1. i # m => i \in 0..last OBVIOUS
    <3> QED BY <1>4, <1>5, <3>1
  <2> QED BY <2>1
<1>7. PICK a, b \in 0..m : a < b /\ f[a] = f[b]
  <2>1. IsFiniteSet(0..m) /\ Cardinality(0..m) = m + 1
    <3>1. 0 \in Int /\ m \in Int /\ ~(0 > m) OBVIOUS
    <3> QED BY <3>1, FS_Interval
  <2>2. IsFiniteSet(0..m - 1) /\ Cardinality(0..m - 1) = m
    <3>1. 0 \in Int /\ m - 1 \in Int /\ ~(0 > m - 1) OBVIOUS
    <3> QED BY <3>1, FS_Interval
  <2>3. Cardinality(0..m - 1) < Cardinality(0..m) BY <2>1, <2>2
  <2> HIDE DEF f
  <2> DEFINE A == 0..m
             B == 0..m - 1
  <2> HIDE DEF A, B
  <2>6. f \in [A -> B] /\ IsFiniteSet(A) /\ IsFiniteSet(B) /\ Cardinality(B) < Cardinality(A)
    BY <1>6, <2>1, <2>2, <2>3 DEF A, B
  <2>7. \E x, z \in A : x # z /\ f[x] = f[z] BY <2>6, FS_PigeonHole
  <2>4. PICK x, z \in 0..m : x # z /\ f[x] = f[z] BY <2>7 DEF A
  <2>5. x < z \/ z < x BY <2>4
  <2> QED BY <2>4, <2>5
<1>8. CASE b = m
  <2>1. a \in 0..m - 1 /\ f[a] = path[a] /\ f[b] = y BY <1>7, <1>8
  <2> QED BY <1>7, <2>1
<1>9. CASE b # m
  <2>1. a \in 0..last /\ b \in 0..last /\ path[a] = path[b] BY <1>7, <1>9
  <2> DEFINE U == {k \in Nat : b + k <= last => path[a + k] = path[b + k]}
  <2>2. 0 \in U BY <2>1
  <2>3. ASSUME NEW k \in Nat, k \in U PROVE k + 1 \in U
    <3>1. ASSUME b + (k + 1) <= last PROVE path[a + (k + 1)] = path[b + (k + 1)]
      <4>1. a + (k + 1) \in 1..m - 1 /\ b + (k + 1) \in 1..m - 1 BY <1>7, <2>1, <3>1
      <4>2. (a + (k + 1)) - 1 = a + k /\ (b + (k + 1)) - 1 = b + k /\ b + k <= last BY <2>1, <3>1
      <4>3. path[a + (k + 1)] = Follow(next, path[a + k])
        <5>1. path[a + (k + 1)] = Follow(next, path[(a + (k + 1)) - 1]) BY <4>1
        <5> QED BY <4>2, <5>1
      <4>4. path[b + (k + 1)] = Follow(next, path[b + k])
        <5>1. path[b + (k + 1)] = Follow(next, path[(b + (k + 1)) - 1]) BY <4>1
        <5> QED BY <4>2, <5>1
      <4>5. path[a + k] = path[b + k] BY <2>3, <4>2
      <4> QED BY <4>3, <4>4, <4>5
    <3> QED BY <3>1
  <2> HIDE DEF U
  <2>4. Nat \subseteq U BY <2>2, <2>3, NatSets
  <2>5. last - b \in Nat /\ b + (last - b) = last BY <2>1
  <2>6. path[a + (last - b)] = path[last]
    <3>1. last - b \in U BY <2>4, <2>5
    <3> QED BY <2>5, <3>1 DEF U
  <2> DEFINE i == a + (last - b) + 1
  <2>7. i \in 1..m - 1 /\ i - 1 = a + (last - b) /\ i \in 0..m - 1 BY <1>7, <2>1
  <2>8. path[i] = Follow(next, path[a + (last - b)])
    <3>1. path[i] = Follow(next, path[i - 1]) BY <2>7
    <3> QED BY <2>7, <3>1
  <2>9. path[i] = y BY <2>6, <2>8 DEF Follow
  <2> QED BY <2>7, <2>9
<1> QED BY <1>8, <1>9

\* The links do not leave a chain.
LEMMA ChainClosed ==
    ASSUME NEW m \in Nat \ {0}, NEW next \in LinkSet(m), NEW n \in 0..m - 1
    PROVE  ClosedUnder(next, ChainOf(next, n))
<1>1. PICK path : Path(path, m, next, n)
  BY PathExists
<1> SUFFICES ASSUME NEW x \in ChainOf(next, n)
             PROVE  x \in DOMAIN next /\ (next[x] # NoNode => next[x] \in ChainOf(next, n))
  BY DEF ClosedUnder
<1>2. x \in DOMAIN next BY ChainStart DEF LinkSet
<1>3. ASSUME next[x] # NoNode PROVE next[x] \in ChainOf(next, n)
  <2>1. PICK i \in 0..m - 1 : path[i] = x BY <1>1 DEF Path
  <2>2. x # NoNode BY <1>1 DEF Path
  <2>3. CASE i = m - 1
    <3>1. path[m - 1] # NoNode /\ next[path[m - 1]] # NoNode BY <1>3, <2>1, <2>2, <2>3
    <3>2. PICK j \in 0..m - 1 : path[j] = next[path[m - 1]] BY <1>1, <3>1, PathRepeats DEF Path
    <3> QED BY <1>1, <1>3, <2>1, <2>3, <3>2 DEF Path
  <2>4. CASE i # m - 1
    <3>1. i + 1 \in 1..m - 1 /\ i + 1 - 1 = i /\ i + 1 \in 0..m - 1 BY <2>4
    <3>2. path[i + 1] = Follow(next, path[i])
      <4>1. path[i + 1] = Follow(next, path[i + 1 - 1]) BY <1>1, <3>1 DEF Path
      <4> QED BY <3>1, <4>1
    <3>3. path[i + 1] = next[x] BY <2>1, <2>2, <3>2 DEF Follow
    <3> QED BY <1>1, <1>3, <3>1, <3>3 DEF Path
  <2> QED BY <2>3, <2>4
<1> QED BY <1>2, <1>3

----------------------------------------------------------------------------
(* The order of a chain.                                                     *)
\* From a node on, a chain has nothing else than from further up.
LEMMA ChainWithin ==
    ASSUME NEW m \in Nat \ {0}, NEW next \in LinkSet(m), NEW n \in 0..m - 1, NEW x \in ChainOf(next, n)
    PROVE  ChainOf(next, x) \subseteq ChainOf(next, n)
<1> DEFINE R == ChainOf(next, n)
<1>1. ClosedUnder(next, R) BY ChainClosed
<1> HIDE DEF R
<1>2. x \in R BY DEF R
<1>3. ChainOf(next, x) \subseteq R BY <1>1, <1>2, ChainLeast
<1> QED BY <1>3 DEF R

\* A chain is its first node and the chain of the next.
LEMMA ChainRest ==
    ASSUME NEW m \in Nat \ {0}, NEW next \in LinkSet(m), NEW n \in 0..m - 1
    PROVE  ChainOf(next, n) = {n} \cup (IF next[n] = NoNode THEN {} ELSE ChainOf(next, next[n]))
<1>1. CASE next[n] = NoNode
  <2>1. ClosedUnder(next, {n}) BY <1>1 DEF ClosedUnder, LinkSet
  <2>2. n \in {n} OBVIOUS
  <2>3. ChainOf(next, n) \subseteq {n} BY <2>1, <2>2, ChainLeast
  <2>4. n \in ChainOf(next, n) BY ChainStart
  <2> QED BY <1>1, <2>3, <2>4
<1>2. CASE next[n] # NoNode
  <2> DEFINE y == next[n]
             R == {n} \cup ChainOf(next, y)
  <2>1. y \in 0..m - 1 BY <1>2 DEF LinkSet, NoNode
  <2> HIDE DEF y
  <2>2. y \in ChainOf(next, y) /\ ChainOf(next, y) \subseteq 0..m - 1 BY <2>1, ChainStart
  <2>3. ClosedUnder(next, ChainOf(next, y)) BY <2>1, ChainClosed
  <2>4. ClosedUnder(next, R) BY <2>2, <2>3 DEF ClosedUnder, LinkSet, y
  <2>5. n \in R OBVIOUS
  <2> HIDE DEF R
  <2>6. ChainOf(next, n) \subseteq R BY <2>4, <2>5, ChainLeast
  <2>7. n \in ChainOf(next, n) /\ ClosedUnder(next, ChainOf(next, n)) BY ChainStart, ChainClosed
  <2>8. y \in ChainOf(next, n) BY <1>2, <2>7 DEF ClosedUnder, y
  <2>9. ChainOf(next, y) \subseteq ChainOf(next, n) BY <2>8, ChainWithin
  <2>10. ChainOf(next, n) = {n} \cup ChainOf(next, y) BY <2>6, <2>7, <2>9 DEF R
  <2> QED BY <1>2, <2>10 DEF y
<1> QED BY <1>1, <1>2

\* A node that is not the first has one before it.
LEMMA ChainBefore ==
    ASSUME NEW m \in Nat \ {0}, NEW next \in LinkSet(m), NEW n \in 0..m - 1,
           NEW y \in ChainOf(next, n), y # n
    PROVE  \E x \in ChainOf(next, n) : next[x] = y
<1> SUFFICES ASSUME \A x \in ChainOf(next, n) : next[x] # y PROVE FALSE
  OBVIOUS
<1> DEFINE R == ChainOf(next, n) \ {y}
<1>1. n \in ChainOf(next, n) /\ ClosedUnder(next, ChainOf(next, n)) BY ChainStart, ChainClosed
<1>2. ClosedUnder(next, R) BY <1>1 DEF ClosedUnder
<1>3. n \in R BY <1>1
<1> HIDE DEF R
<1>4. ChainOf(next, n) \subseteq R BY <1>2, <1>3, ChainLeast
<1> QED BY <1>4 DEF R

\* Of two nodes in a chain one comes after the other.
LEMMA ChainTotal ==
    ASSUME NEW m \in Nat \ {0}, NEW next \in LinkSet(m), NEW n \in 0..m - 1,
           NEW x \in ChainOf(next, n), NEW y \in ChainOf(next, n)
    PROVE  x \in ChainOf(next, y) \/ y \in ChainOf(next, x)
<1> DEFINE C(z) == ChainOf(next, z)
           R == {z \in C(n) : x \in C(z) \/ z \in C(x)}
<1>1. \A z \in C(n) : z \in 0..m - 1 BY ChainStart
<1>2. ClosedUnder(next, C(n)) BY ChainClosed
<1>3. ClosedUnder(next, C(x)) BY <1>1, ChainClosed
<1>4. ASSUME NEW z \in R, next[z] # NoNode PROVE next[z] \in R
  <2>1. z \in C(n) /\ z \in 0..m - 1 /\ next[z] \in C(n) BY <1>1, <1>2, <1>4 DEF ClosedUnder
  <2>2. CASE z \in C(x)
    <3>1. next[z] \in C(x) BY <1>3, <1>4, <2>2 DEF ClosedUnder
    <3> QED BY <2>1, <3>1
  <2>3. CASE x \in C(z) /\ x = z
    <3>1. z \in C(x) BY <1>1, <2>3, ChainStart
    <3>2. next[z] \in C(x) BY <1>3, <1>4, <3>1 DEF ClosedUnder
    <3> QED BY <2>1, <3>2
  <2>4. CASE x \in C(z) /\ x # z
    <3>1. C(z) = {z} \cup C(next[z]) BY <1>4, <2>1, ChainRest
    <3>2. x \in C(next[z]) BY <2>4, <3>1
    <3> QED BY <2>1, <3>2
  <2> QED BY <2>2, <2>3, <2>4
<1>5. ClosedUnder(next, R) BY <1>1, <1>4 DEF ClosedUnder, LinkSet
<1>6. n \in R
  <2>1. n \in C(n) BY ChainStart
  <2> QED BY <2>1
<1> HIDE DEF R
<1>7. C(n) \subseteq R BY <1>5, <1>6, ChainLeast
<1> QED BY <1>7 DEF R

\* Without circles, of two nodes only one is behind the other.
LEMMA ChainOrder ==
    ASSUME NEW m \in Nat \ {0}, NEW next \in LinkSet(m), NoCircle(next), NEW x \in 0..m - 1, NEW y \in 0..m - 1,
           x \in ChainOf(next, y), y \in ChainOf(next, x)
    PROVE  x = y
<1> SUFFICES ASSUME x # y PROVE FALSE
  OBVIOUS
<1>1. ChainOf(next, x) = {x} \cup (IF next[x] = NoNode THEN {} ELSE ChainOf(next, next[x])) BY ChainRest
<1>2. next[x] # NoNode /\ y \in ChainOf(next, next[x]) BY <1>1
<1> DEFINE z == next[x]
<1>3. z \in 0..m - 1 BY <1>2 DEF LinkSet, NoNode
<1> HIDE DEF z
<1>4. y \in ChainOf(next, z) BY <1>2 DEF z
<1>5. ChainOf(next, y) \subseteq ChainOf(next, z) BY <1>3, <1>4, ChainWithin
<1>6. x \in ChainOf(next, next[x]) BY <1>5 DEF z
<1> QED BY <1>2, <1>6 DEF NoCircle, LinkSet

\* A node that no link leads to is in no chain but its own.
LEMMA ChainWithout ==
    ASSUME NEW m \in Nat \ {0}, NEW next \in LinkSet(m), NEW n \in 0..m - 1,
           \A x \in 0..m - 1 : next[x] # n, NEW p \in 0..m - 1, p # n
    PROVE  n \notin ChainOf(next, p)
BY ChainBefore, ChainStart

----------------------------------------------------------------------------
(* Chains that change.                                                       *)
\* A node n that is in no chain is put after mp.
Inserted(next, mp, n) == [next EXCEPT ![n] = next[mp], ![mp] = n]
Loose(m, next, n) == n \in 0..m - 1 /\ next[n] = NoNode /\ \A x \in 0..m - 1 : next[x] # n

\* A loose node that is linked in after another: the links, ...
LEMMA InsertedLinks ==
    ASSUME NEW m \in Nat \ {0}, NEW next \in LinkSet(m), NEW mp \in 0..m - 1, NEW n, Loose(m, next, n), n # mp
    PROVE  /\ Inserted(next, mp, n) \in LinkSet(m)
           /\ Inserted(next, mp, n)[n] = next[mp] /\ Inserted(next, mp, n)[mp] = n
           /\ \A x \in 0..m - 1 : x # n /\ x # mp => Inserted(next, mp, n)[x] = next[x]
<1>1. n \in 0..m - 1 /\ n \in -1..m - 1 /\ next[mp] \in -1..m - 1 BY DEF LinkSet, Loose
<1> QED BY <1>1 DEF LinkSet, Inserted

\* ... the chains, to which it adds the node where they pass the other, ...
LEMMA InsertedChain ==
    ASSUME NEW m \in Nat \ {0}, NEW next \in LinkSet(m), NEW mp \in 0..m - 1, NEW n, Loose(m, next, n), n # mp,
           NEW p \in 0..m - 1, p # n
    PROVE  ChainOf(Inserted(next, mp, n), p)
           = IF mp \in ChainOf(next, p) THEN ChainOf(next, p) \cup {n} ELSE ChainOf(next, p)
<1> DEFINE new == Inserted(next, mp, n)
           C == ChainOf(next, p)
           R == IF mp \in C THEN C \cup {n} ELSE C
           N == ChainOf(new, p)
           Q == C \cap N
<1>0. n \in 0..m - 1 /\ next[n] = NoNode BY DEF Loose
<1>1. new \in LinkSet(m) /\ new[n] = next[mp] /\ new[mp] = n
      /\ \A x \in 0..m - 1 : x # n /\ x # mp => new[x] = next[x] BY InsertedLinks
<1>2. DOMAIN next = 0..m - 1 /\ DOMAIN new = 0..m - 1 BY <1>1 DEF LinkSet
<1> HIDE DEF new
<1>3. p \in C /\ C \subseteq 0..m - 1 /\ ClosedUnder(next, C) BY ChainStart, ChainClosed
<1>4. n \notin C BY ChainWithout DEF Loose
<1>5. p \in N /\ N \subseteq 0..m - 1 /\ ClosedUnder(new, N) BY <1>1, ChainStart, ChainClosed
<1> HIDE DEF C, N
<1>6. ClosedUnder(new, R)
  <2>1. CASE mp \in C
    <3>1. ASSUME NEW x \in C \cup {n} PROVE x \in DOMAIN new /\ (new[x] # NoNode => new[x] \in C \cup {n})
      <4>1. CASE x = mp BY <1>0, <1>1, <1>2, <4>1
      <4>2. CASE x = n BY <1>0, <1>1, <1>2, <1>3, <2>1, <4>2 DEF ClosedUnder
      <4>3. CASE x # mp /\ x # n BY <1>1, <1>2, <1>3, <4>3 DEF ClosedUnder
      <4> QED BY <4>1, <4>2, <4>3
    <3> QED BY <2>1, <3>1 DEF ClosedUnder
  <2>2. CASE mp \notin C BY <1>1, <1>2, <1>3, <1>4, <2>2 DEF ClosedUnder
  <2> QED BY <2>1, <2>2
<1>7. N \subseteq R
  <2>1. p \in R BY <1>3
  <2> HIDE DEF R
  <2> QED BY <1>1, <1>6, <2>1, ChainLeast DEF N
<1>8. ClosedUnder(next, Q)
  <2>1. ASSUME NEW x \in Q, next[x] # NoNode PROVE next[x] \in N
    <3>1. CASE x = mp
      <4>1. n \in N BY <1>0, <1>1, <1>5, <3>1 DEF ClosedUnder, NoNode
      <4> QED BY <1>1, <1>5, <2>1, <3>1, <4>1 DEF ClosedUnder
    <3>2. CASE x # mp BY <1>1, <1>3, <1>4, <1>5, <2>1, <3>2 DEF ClosedUnder
    <3> QED BY <3>1, <3>2
  <2> QED BY <1>3, <2>1 DEF ClosedUnder
<1>9. C \subseteq N
  <2>1. p \in Q BY <1>3, <1>5
  <2> HIDE DEF Q
  <2>2. C \subseteq Q BY <1>8, <2>1, ChainLeast DEF C
  <2> QED BY <2>2 DEF Q
<1>10. ASSUME mp \in C PROVE n \in N
  <2>1. mp \in N BY <1>9, <1>10
  <2> QED BY <1>0, <1>1, <1>5, <2>1 DEF ClosedUnder, NoNode
<1>11. N = R BY <1>7, <1>9, <1>10
<1> QED BY <1>11 DEF C, N, new

\* ... which stay straight.
LEMMA InsertedStraight ==
    ASSUME NEW m \in Nat \ {0}, NEW next, Straight(m, next), NEW mp \in 0..m - 1, NEW n, Loose(m, next, n), n # mp
    PROVE  Straight(m, Inserted(next, mp, n))
<1> DEFINE new == Inserted(next, mp, n)
<1>0. next \in LinkSet(m) /\ n \in 0..m - 1 /\ next[n] = NoNode /\ \A x \in 0..m - 1 : next[x] # n
  BY DEF Straight, Loose
<1>1. new \in LinkSet(m) /\ new[n] = next[mp] /\ new[mp] = n
      /\ \A x \in 0..m - 1 : x # n /\ x # mp => new[x] = next[x] BY <1>0, InsertedLinks
<1>2. DOMAIN next = 0..m - 1 /\ DOMAIN new = 0..m - 1 BY <1>0, <1>1 DEF LinkSet
<1>3. \A p \in 0..m - 1 : p # n =>
        ChainOf(new, p) = IF mp \in ChainOf(next, p) THEN ChainOf(next, p) \cup {n} ELSE ChainOf(next, p)
  BY <1>0, InsertedChain
<1>4. \A p \in 0..m - 1 : p # n => n \notin ChainOf(next, p) BY <1>0, ChainWithout
<1>5. \A x \in 0..m - 1 : next[x] # NoNode => x \notin ChainOf(next, next[x]) /\ next[x] \in 0..m - 1
  BY <1>0, <1>2 DEF Straight, NoCircle, LinkSet, NoNode
<1> HIDE DEF new
<1>6. ASSUME NEW x \in 0..m - 1, new[x] # NoNode PROVE x \notin ChainOf(new, new[x])
  <2>1. CASE x # n /\ x # mp
    <3>1. new[x] = next[x] /\ next[x] # n /\ next[x] \in 0..m - 1 BY <1>0, <1>1, <1>5, <1>6, <2>1
    <3>2. x \notin ChainOf(next, next[x]) BY <1>5, <1>6, <3>1
    <3>3. x \notin ChainOf(new, next[x]) BY <1>3, <2>1, <3>1, <3>2
    <3> QED BY <3>1, <3>3
  <2>2. CASE x = n
    <3>1. new[x] = next[mp] /\ next[mp] # n /\ next[mp] # NoNode BY <1>0, <1>1, <1>6, <2>2
    <3>2. next[mp] \in 0..m - 1 /\ mp \notin ChainOf(next, next[mp]) BY <1>5, <3>1
    <3>3. ChainOf(new, next[mp]) = ChainOf(next, next[mp]) BY <1>3, <3>1, <3>2
    <3> QED BY <1>4, <2>2, <3>1, <3>2, <3>3
  <2>3. CASE x = mp
    <3>1. new[x] = n BY <1>1, <2>3
    <3>2. ChainOf(new, n) = {n} \cup (IF next[mp] = NoNode THEN {} ELSE ChainOf(new, next[mp]))
      BY <1>0, <1>1, ChainRest
    <3>3. CASE next[mp] = NoNode BY <2>3, <3>1, <3>2, <3>3
    <3>4. CASE next[mp] # NoNode
      <4>1. next[mp] \in 0..m - 1 /\ mp \notin ChainOf(next, next[mp]) /\ next[mp] # n BY <1>0, <1>5, <3>4
      <4>2. mp \notin ChainOf(new, next[mp]) BY <1>3, <4>1
      <4> QED BY <2>3, <3>1, <3>2, <4>2
    <3> QED BY <3>3, <3>4
  <2> QED BY <2>1, <2>2, <2>3
<1>7. \A i, j \in 0..m - 1 : new[i] = new[j] /\ new[i] # NoNode => i = j
  BY <1>0, <1>1 DEF Straight
<1>8. Straight(m, new) BY <1>1, <1>2, <1>6, <1>7 DEF Straight, NoCircle
<1> QED BY <1>8 DEF new

\* The node mp, which comes after prev, is replaced by n.
Replaced(next, prev, mp, n) == [next EXCEPT ![prev] = n, ![n] = next[mp], ![mp] = NoNode]

\* A node that a loose one takes the place of: the links, ...
LEMMA ReplacedLinks ==
    ASSUME NEW m \in Nat \ {0}, NEW next, Straight(m, next), NEW mp \in 0..m - 1, NEW n, Loose(m, next, n), n # mp,
           NEW prev \in 0..m - 1, next[prev] = mp
    PROVE  /\ Replaced(next, prev, mp, n) \in LinkSet(m)
           /\ prev # mp /\ prev # n
           /\ Replaced(next, prev, mp, n)[prev] = n /\ Replaced(next, prev, mp, n)[n] = next[mp]
           /\ Replaced(next, prev, mp, n)[mp] = NoNode
           /\ \A x \in 0..m - 1 : x # n /\ x # mp /\ x # prev => Replaced(next, prev, mp, n)[x] = next[x] /\ next[x] # mp
<1>1. next \in LinkSet(m) /\ DOMAIN next = 0..m - 1 BY DEF Straight, LinkSet
<1>2. n \in 0..m - 1 /\ n \in -1..m - 1 /\ next[mp] \in -1..m - 1 /\ NoNode \in -1..m - 1 /\ mp # NoNode
  BY <1>1 DEF LinkSet, Loose, NoNode
<1>3. prev # n BY <1>2 DEF Loose
<1>4. prev # mp
  <2>1. ASSUME prev = mp PROVE FALSE
    <3>1. mp \notin ChainOf(next, mp) BY <1>1, <1>2, <2>1 DEF Straight, NoCircle
    <3> QED BY <1>1, <3>1, ChainStart
  <2> QED BY <2>1
<1>5. \A x \in 0..m - 1 : x # prev => next[x] # mp BY <1>2 DEF Straight
<1>6. Replaced(next, prev, mp, n) \in LinkSet(m) BY <1>1, <1>2 DEF LinkSet, Replaced
<1>7. /\ Replaced(next, prev, mp, n)[prev] = n /\ Replaced(next, prev, mp, n)[n] = next[mp]
      /\ Replaced(next, prev, mp, n)[mp] = NoNode
      /\ \A x \in 0..m - 1 : x # n /\ x # mp /\ x # prev => Replaced(next, prev, mp, n)[x] = next[x]
  BY <1>1, <1>2, <1>3, <1>4 DEF Replaced
<1> QED BY <1>3, <1>4, <1>5, <1>6, <1>7

\* ... the chains, which have the loose one in its place, ...
LEMMA ReplacedChain ==
    ASSUME NEW m \in Nat \ {0}, NEW next, Straight(m, next), NEW mp \in 0..m - 1, NEW n, Loose(m, next, n), n # mp,
           NEW prev \in 0..m - 1, next[prev] = mp
    PROVE  /\ ChainOf(Replaced(next, prev, mp, n), mp) = {mp}
           /\ \A p \in 0..m - 1 : p # n /\ p # mp =>
                ChainOf(Replaced(next, prev, mp, n), p)
                = IF mp \in ChainOf(next, p) THEN (ChainOf(next, p) \ {mp}) \cup {n} ELSE ChainOf(next, p)
<1> DEFINE new == Replaced(next, prev, mp, n)
<1>0. next \in LinkSet(m) /\ n \in 0..m - 1 /\ next[n] = NoNode /\ mp # NoNode /\ n # NoNode
  BY DEF Straight, Loose, NoNode
<1>1. /\ new \in LinkSet(m) /\ prev # mp /\ prev # n /\ new[prev] = n /\ new[n] = next[mp] /\ new[mp] = NoNode
      /\ \A x \in 0..m - 1 : x # n /\ x # mp /\ x # prev => new[x] = next[x] /\ next[x] # mp
  BY ReplacedLinks
<1>2. DOMAIN next = 0..m - 1 /\ DOMAIN new = 0..m - 1 BY <1>0, <1>1 DEF LinkSet
<1>3. next[mp] # mp
  <2>1. ASSUME next[mp] = mp PROVE FALSE
    <3>1. mp \notin ChainOf(next, mp) BY <1>0, <1>2, <2>1 DEF Straight, NoCircle
    <3> QED BY <1>0, <3>1, ChainStart
  <2> QED BY <2>1
<1> HIDE DEF new
<1>4. ChainOf(new, mp) = {mp} BY <1>1, ChainRest
<1>5. ASSUME NEW p \in 0..m - 1, p # n, p # mp
      PROVE ChainOf(new, p) = IF mp \in ChainOf(next, p) THEN (ChainOf(next, p) \ {mp}) \cup {n} ELSE ChainOf(next, p)
  <2> DEFINE C == ChainOf(next, p)
             R == IF mp \in C THEN (C \ {mp}) \cup {n} ELSE C
             N == ChainOf(new, p)
             Q == {x \in C : IF x = mp THEN n \in N ELSE x \in N}
  <2>1. p \in C /\ C \subseteq 0..m - 1 /\ ClosedUnder(next, C) BY <1>0, ChainStart, ChainClosed
  <2>2. n \notin C BY <1>0, <1>5, ChainWithout DEF Loose
  <2>3. p \in N /\ N \subseteq 0..m - 1 /\ ClosedUnder(new, N) BY <1>1, ChainStart, ChainClosed
  <2> HIDE DEF C, N
  <2>4. ClosedUnder(new, R)
    <3>1. CASE mp \in C
      <4>1. ASSUME NEW x \in (C \ {mp}) \cup {n}
            PROVE x \in DOMAIN new /\ (new[x] # NoNode => new[x] \in (C \ {mp}) \cup {n})
        <5>1. CASE x = n BY <1>0, <1>1, <1>2, <1>3, <2>1, <3>1, <5>1 DEF ClosedUnder
        <5>2. CASE x = prev BY <1>0, <1>1, <1>2, <5>2
        <5>3. CASE x # n /\ x # prev
          <6>1. x \in C /\ x \in 0..m - 1 /\ x # mp BY <2>1, <4>1, <5>3
          <6>2. new[x] = next[x] /\ next[x] # mp BY <1>1, <5>3, <6>1
          <6> QED BY <1>2, <2>1, <6>1, <6>2 DEF ClosedUnder
        <5> QED BY <5>1, <5>2, <5>3
      <4> QED BY <3>1, <4>1 DEF ClosedUnder
    <3>2. CASE mp \notin C
      <4>1. prev \notin C BY <1>0, <2>1, <3>2 DEF ClosedUnder
      <4>2. \A x \in C : new[x] = next[x] BY <1>1, <2>1, <2>2, <3>2, <4>1
      <4> QED BY <1>2, <2>1, <3>2, <4>2 DEF ClosedUnder
    <3> QED BY <3>1, <3>2
  <2>5. N \subseteq R
    <3>1. p \in R BY <1>5, <2>1
    <3> HIDE DEF R
    <3> QED BY <1>1, <2>4, <3>1, ChainLeast DEF N
  <2>6. ClosedUnder(next, Q)
    <3>1. ASSUME NEW x \in Q, next[x] # NoNode PROVE next[x] \in Q
      <4>1. x \in C /\ x \in 0..m - 1 /\ next[x] \in C /\ x # n BY <2>1, <2>2, <3>1 DEF ClosedUnder
      <4>2. CASE x = mp
        <5>1. n \in N BY <3>1, <4>2
        <5>2. next[mp] \in N BY <1>1, <2>3, <3>1, <4>2, <5>1 DEF ClosedUnder
        <5> QED BY <1>3, <4>1, <4>2, <5>2
      <4>3. CASE x = prev
        <5>1. x \in N BY <1>1, <3>1, <4>3
        <5>2. n \in N BY <1>0, <1>1, <2>3, <4>3, <5>1 DEF ClosedUnder
        <5> QED BY <4>1, <4>3, <5>2
      <4>4. CASE x # mp /\ x # prev
        <5>1. x \in N BY <3>1, <4>4
        <5>2. new[x] = next[x] /\ next[x] # mp BY <1>1, <4>1, <4>4
        <5>3. next[x] \in N BY <2>3, <3>1, <5>1, <5>2 DEF ClosedUnder
        <5> QED BY <4>1, <5>2, <5>3
      <4> QED BY <4>2, <4>3, <4>4
    <3>2. \A x \in Q : x \in DOMAIN next BY <1>2, <2>1
    <3> HIDE DEF Q
    <3> QED BY <3>1, <3>2 DEF ClosedUnder
  <2>7. C \subseteq Q
    <3>1. p \in Q BY <1>5, <2>1, <2>3
    <3> HIDE DEF Q
    <3> QED BY <1>0, <2>6, <3>1, ChainLeast DEF C
  <2>8. N = R
    <3>1. CASE mp \in C
      <4>1. n \in N /\ \A x \in C : x # mp => x \in N BY <2>7, <3>1
      <4> QED BY <2>5, <3>1, <4>1
    <3>2. CASE mp \notin C
      <4>1. \A x \in C : x \in N BY <2>7, <3>2
      <4> QED BY <2>5, <3>2, <4>1
    <3> QED BY <3>1, <3>2
  <2> QED BY <2>8 DEF C, N
<1> QED BY <1>4, <1>5 DEF new

\* ... which stay straight.
LEMMA ReplacedStraight ==
    ASSUME NEW m \in Nat \ {0}, NEW next, Straight(m, next), NEW mp \in 0..m - 1, NEW n, Loose(m, next, n), n # mp,
           NEW prev \in 0..m - 1, next[prev] = mp
    PROVE  Straight(m, Replaced(next, prev, mp, n))
<1> DEFINE new == Replaced(next, prev, mp, n)
<1>0. next \in LinkSet(m) /\ n \in 0..m - 1 /\ next[n] = NoNode /\ (\A x \in 0..m - 1 : next[x] # n) /\ mp # NoNode
  BY DEF Straight, Loose, NoNode
<1>1. /\ new \in LinkSet(m) /\ prev # mp /\ prev # n /\ new[prev] = n /\ new[n] = next[mp] /\ new[mp] = NoNode
      /\ \A x \in 0..m - 1 : x # n /\ x # mp /\ x # prev => new[x] = next[x] /\ next[x] # mp
  BY ReplacedLinks
<1>2. DOMAIN next = 0..m - 1 /\ DOMAIN new = 0..m - 1 BY <1>0, <1>1 DEF LinkSet
<1>3. \A p \in 0..m - 1 : p # n /\ p # mp =>
        ChainOf(new, p) = IF mp \in ChainOf(next, p) THEN (ChainOf(next, p) \ {mp}) \cup {n} ELSE ChainOf(next, p)
  BY ReplacedChain
<1>4. \A p \in 0..m - 1 : p # n => n \notin ChainOf(next, p) BY <1>0, ChainWithout
<1>5. \A x \in 0..m - 1 : next[x] # NoNode => x \notin ChainOf(next, next[x]) /\ next[x] \in 0..m - 1
  BY <1>0, <1>2 DEF Straight, NoCircle, LinkSet, NoNode
<1> HIDE DEF new
<1>6. ASSUME next[mp] # NoNode
      PROVE  next[mp] \in 0..m - 1 /\ next[mp] # n /\ next[mp] # mp
             /\ ChainOf(new, next[mp]) = ChainOf(next, next[mp]) /\ mp \notin ChainOf(next, next[mp])
  <2>1. next[mp] \in 0..m - 1 /\ next[mp] # n /\ mp \notin ChainOf(next, next[mp]) BY <1>0, <1>5, <1>6
  <2>2. next[mp] # mp BY <1>0, <2>1, ChainStart
  <2> QED BY <1>3, <2>1, <2>2
<1>7. ASSUME NEW x \in 0..m - 1, new[x] # NoNode PROVE x \notin ChainOf(new, new[x])
  <2>1. CASE x # n /\ x # mp /\ x # prev
    <3>1. new[x] = next[x] /\ next[x] # n /\ next[x] # mp /\ next[x] \in 0..m - 1 BY <1>0, <1>1, <1>5, <1>7, <2>1
    <3>2. x \notin ChainOf(next, next[x]) BY <1>5, <1>7, <3>1
    <3>3. x \notin ChainOf(new, next[x]) BY <1>3, <2>1, <3>1, <3>2
    <3> QED BY <3>1, <3>3
  <2>2. CASE x = n
    <3>1. new[x] = next[mp] /\ next[mp] # NoNode BY <1>1, <1>7, <2>2
    <3> QED BY <1>4, <1>6, <2>2, <3>1
  <2>3. CASE x = prev
    <3>1. new[x] = n BY <1>1, <2>3
    <3>2. ChainOf(new, n) = {n} \cup (IF next[mp] = NoNode THEN {} ELSE ChainOf(new, next[mp]))
      BY <1>0, <1>1, ChainRest
    <3>3. CASE next[mp] = NoNode BY <1>1, <2>3, <3>1, <3>2, <3>3
    <3>4. CASE next[mp] # NoNode
      <4>1. ASSUME prev \in ChainOf(next, next[mp]) PROVE FALSE
        <5>1. ClosedUnder(next, ChainOf(next, next[mp])) BY <1>0, <1>6, <3>4, ChainClosed
        <5>2. mp \in ChainOf(next, next[mp]) BY <1>0, <4>1, <5>1 DEF ClosedUnder
        <5> QED BY <1>6, <3>4, <5>2
      <4> QED BY <1>1, <1>6, <2>3, <3>1, <3>2, <3>4, <4>1
    <3> QED BY <3>3, <3>4
  <2>4. x # mp BY <1>1, <1>7
  <2> QED BY <2>1, <2>2, <2>3, <2>4
<1>8. \A i, j \in 0..m - 1 : new[i] = new[j] /\ new[i] # NoNode => i = j
  <2>1. \A i, j \in 0..m - 1 : next[i] = next[j] /\ next[i] # NoNode => i = j BY DEF Straight
  <2> QED BY <1>0, <1>1, <2>1
<1>9. Straight(m, new) BY <1>1, <1>2, <1>7, <1>8 DEF Straight, NoCircle
<1> QED BY <1>9 DEF new

----------------------------------------------------------------------------
(* Where a key is found.                                                     *)
InArray(t, key) == key[1] = "num" /\ key[2] \in DOMAIN t.array
LiveAt(t, i, key) == i \in DOMAIN t.node /\ t.node[i].key = key /\ t.node[i].tt = "live"

\* Keys are numbers or strings, which stay apart.
LEMMA KeyKinds ==
    /\ \A key \in Keys : key # Nil
    /\ \A key \in Keys : key[1] = "num" => key[2] \in Numbers /\ key = Num(key[2])
    /\ \A n : Num(n)[1] = "num" /\ Num(n)[2] = n
    /\ \A s : Str(s)[1] = "str"
    /\ \A key \in Keys : key[1] = "num" \/ key[1] = "str"
    /\ \A event \in Events : Str(event) \in Keys
<1>1. \A n : Num(n)[1] = "num" /\ Num(n)[2] = n BY DEF Num
<1>2. \A s : Str(s)[1] = "str" BY DEF Str
<1>3. Nil[1] = "nil" BY DEF Nil
<1>4. ASSUME NEW key \in Keys PROVE key[1] = "num" \/ key[1] = "str" BY <1>1, <1>2 DEF Keys
<1>5. ASSUME NEW key \in Keys, key[1] = "num" PROVE key[2] \in Numbers /\ key = Num(key[2])
  BY <1>1, <1>2, <1>5 DEF Keys
<1>6. ASSUME NEW key \in Keys PROVE key # Nil BY <1>3, <1>4
<1>7. \A event \in Events : Str(event) \in Keys BY TableKeys DEF Keys
<1> QED BY <1>1, <1>2, <1>4, <1>5, <1>6, <1>7

\* The nodes of a table are numbered from 0, and there is one.
LEMMA TableNodes ==
    ASSUME NEW t \in TableSet
    PROVE  /\ SizeNode(t) \in Nat \ {0}
           /\ t.node \in [0..SizeNode(t) - 1 -> NodeSet]
           /\ DOMAIN t.node = 0..SizeNode(t) - 1
<1>1. PICK m \in Nat \ {0} : t.node \in [0..m - 1 -> NodeSet] BY DEF TableSet, NodeArrays
<1>2. DOMAIN t.node = 0..m - 1 BY <1>1
<1>3. 0 \in Int /\ m - 1 \in Int /\ ~(0 > m - 1) /\ m - 1 - 0 + 1 = m OBVIOUS
<1>4. Cardinality(0..m - 1) = m BY <1>3, FS_Interval
<1>5. SizeNode(t) = m BY <1>2, <1>4 DEF SizeNode
<1> QED BY <1>1, <1>2, <1>5

\* The remainder is less than the divisor.
LEMMA ModRange ==
    ASSUME NEW a \in Nat, NEW b \in Nat \ {0}
    PROVE  a % b \in 0..b - 1
OBVIOUS

\* Every key has a main position.
LEMMA HomeIn ==
    ASSUME NEW t \in TableSet, NEW key \in Keys
    PROVE  mainposition(t, key) \in 0..SizeNode(t) - 1
<1> DEFINE m == SizeNode(t)
<1>1. m \in Nat \ {0} BY TableNodes
<1>2. HashOf[key] \in Nat BY TableKeys
<1>3. mainposition(t, key) = IF key[1] = "num" THEN HashOf[key] % (IF m = 1 THEN 1 ELSE m - 1) ELSE HashOf[key] % m
  BY DEF mainposition
<1> HIDE DEF m
<1>4. CASE key[1] = "num" /\ m # 1
  <2>1. m - 1 \in Nat \ {0} BY <1>1, <1>4
  <2>2. HashOf[key] % (m - 1) \in 0..(m - 1) - 1 BY <1>2, <2>1, ModRange
  <2>3. mainposition(t, key) = HashOf[key] % (m - 1) BY <1>3, <1>4
  <2>4. mainposition(t, key) \in 0..m - 1 BY <1>1, <2>2, <2>3
  <2> QED BY <2>4 DEF m
<1>5. CASE ~(key[1] = "num" /\ m # 1)
  <2>1. mainposition(t, key) = HashOf[key] % m BY <1>3, <1>5
  <2>2. HashOf[key] % m \in 0..m - 1 BY <1>1, <1>2, ModRange
  <2> QED BY <2>1, <2>2 DEF m
<1> QED BY <1>4, <1>5

\* The links are those of the nodes.
LEMMA LinksOf ==
    ASSUME NEW t \in TableSet
    PROVE  DOMAIN Links(t) = 0..SizeNode(t) - 1 /\ \A i \in 0..SizeNode(t) - 1 : Links(t)[i] = t.node[i].next
BY TableNodes DEF Links

\* What a search by luaH_get comes to.
LEMMA GetArray ==
    ASSUME NEW t, NEW key, InArray(t, key)
    PROVE  luaH_get(t, key) = <<"array", key[2]>>
BY DEF luaH_get, luaH_getnum, InArray

\* Keys outside of the array are looked for in a chain.
LEMMA GetInChain ==
    ASSUME NEW t, NEW key, ~InArray(t, key)
    PROVE  luaH_get(t, key) = InChain(t, mainposition(t, key), key, FALSE)
BY DEF luaH_get, luaH_getnum, InArray

\* A live node with a key is what luaH_get finds.
LEMMA GetNode ==
    ASSUME NEW t, Table(t), NEW key \in Keys, NEW i, LiveAt(t, i, key)
    PROVE  luaH_get(t, key) = <<"node", i>> /\ ~InArray(t, key)
<1>1. t \in TableSet /\ Reached(t) /\ LiveOnce(t) /\ ArrayPart(t) /\ Links(t) \in LinkSet(SizeNode(t))
  BY DEF Table, Straight
<1>2. ~InArray(t, key) BY <1>1, KeyKinds DEF LiveAt, InArray, ArrayPart
<1> DEFINE hits == {x \in Chain(t, mainposition(t, key)) : t.node[x].key = key /\ (FALSE \/ t.node[x].tt = "live")}
<1>3. Chain(t, mainposition(t, key)) \subseteq DOMAIN t.node
  BY <1>1, HomeIn, ChainStart, TableNodes DEF Chain
<1>4. i \in hits BY <1>1, KeyKinds DEF LiveAt, Reached
<1>5. hits = {i} BY <1>1, <1>3, <1>4, KeyKinds DEF LiveAt, LiveOnce
<1>6. i \in Chain(t, i) BY <1>1, ChainStart, TableNodes DEF Chain, LiveAt
<1>7. InChain(t, mainposition(t, key), key, FALSE)
      = IF hits = {} THEN Nowhere ELSE <<"node", CHOOSE x \in hits : hits \subseteq Chain(t, x)>>
  BY DEF InChain
<1>8. (CHOOSE x \in hits : hits \subseteq Chain(t, x)) = i
  <2> HIDE DEF hits
  <2> QED BY <1>5, <1>6
<1>9. hits # {} BY <1>5
<1> HIDE DEF hits
<1> QED BY <1>2, <1>7, <1>8, <1>9, GetInChain

\* Without one it finds nothing.
LEMMA GetNowhere ==
    ASSUME NEW t, Table(t), NEW key \in Keys, ~InArray(t, key), \A i \in DOMAIN t.node : ~LiveAt(t, i, key)
    PROVE  luaH_get(t, key) = Nowhere
<1>1. t \in TableSet /\ Links(t) \in LinkSet(SizeNode(t)) BY DEF Table, Straight
<1> DEFINE hits == {x \in Chain(t, mainposition(t, key)) : t.node[x].key = key /\ (FALSE \/ t.node[x].tt = "live")}
<1>2. Chain(t, mainposition(t, key)) \subseteq DOMAIN t.node
  BY <1>1, HomeIn, ChainStart, TableNodes DEF Chain
<1>3. hits = {} BY <1>2 DEF LiveAt
<1>4. InChain(t, mainposition(t, key), key, FALSE)
      = IF hits = {} THEN Nowhere ELSE <<"node", CHOOSE x \in hits : hits \subseteq Chain(t, x)>>
  BY DEF InChain
<1> HIDE DEF hits
<1> QED BY <1>3, <1>4, GetInChain

\* Places differ when their parts do.
LEMMA Places ==
    /\ \A i : <<"node", i>> # Nowhere /\ \A j : <<"node", i>> # <<"array", j>>
    /\ \A j : <<"array", j>> # Nowhere
    /\ \A i, j : <<"node", i>> = <<"node", j>> => i = j
<1>1. Nowhere[1] = "nowhere" BY DEF Nowhere
<1>2. \A i : <<"node", i>>[1] = "node" /\ <<"node", i>>[2] = i OBVIOUS
<1>3. \A i : <<"array", i>>[1] = "array" OBVIOUS
<1> QED BY <1>1, <1>2, <1>3

\* The values at the places.
LEMMA ValueAtPlaces ==
    ASSUME NEW t
    PROVE  /\ ValueAt(t, Nowhere) = Nil
           /\ \A i : ValueAt(t, <<"node", i>>) = t.node[i].val
           /\ \A j : ValueAt(t, <<"array", j>>) = t.array[j]
<1>1. ValueAt(t, Nowhere) = Nil
  <2>1. Nowhere[1] # "array" /\ Nowhere[1] # "node" BY DEF Nowhere
  <2> QED BY <2>1 DEF ValueAt
<1>2. ASSUME NEW i PROVE ValueAt(t, <<"node", i>>) = t.node[i].val
  <2> DEFINE at == <<"node", i>>
  <2>1. at # Nowhere /\ at[1] = "node" /\ at[1] # "array" /\ at[2] = i BY Places
  <2> HIDE DEF at
  <2>2. ValueAt(t, at) = t.node[i].val BY <2>1 DEF ValueAt
  <2> QED BY <2>2 DEF at
<1>3. ASSUME NEW j PROVE ValueAt(t, <<"array", j>>) = t.array[j]
  <2> DEFINE at == <<"array", j>>
  <2>1. at # Nowhere /\ at[1] = "array" /\ at[1] # "node" /\ at[2] = j BY Places
  <2> HIDE DEF at
  <2>2. ValueAt(t, at) = t.array[j] BY <2>1 DEF ValueAt
  <2> QED BY <2>2 DEF at
<1> QED BY <1>1, <1>2, <1>3

\* The value of a key is that of the array or of the live node.
LEMMA ValueFacts ==
    ASSUME NEW t, Table(t), NEW key \in Keys
    PROVE  /\ InArray(t, key) => Value(t, key) = t.array[key[2]]
           /\ \A i : LiveAt(t, i, key) => Value(t, key) = t.node[i].val
           /\ ~InArray(t, key) /\ (\A i \in DOMAIN t.node : ~LiveAt(t, i, key)) => Value(t, key) = Nil
           /\ luaH_get(t, key) = Nowhere => ~InArray(t, key) /\ \A i \in DOMAIN t.node : ~LiveAt(t, i, key)
<1>1. ASSUME InArray(t, key) PROVE Value(t, key) = t.array[key[2]] /\ luaH_get(t, key) # Nowhere
  BY <1>1, GetArray, Places, ValueAtPlaces DEF Value
<1>2. ASSUME NEW i, LiveAt(t, i, key) PROVE Value(t, key) = t.node[i].val /\ luaH_get(t, key) # Nowhere
  BY <1>2, GetNode, Places, ValueAtPlaces DEF Value
<1>3. ASSUME ~InArray(t, key), \A i \in DOMAIN t.node : ~LiveAt(t, i, key) PROVE Value(t, key) = Nil
  BY <1>3, GetNowhere, ValueAtPlaces DEF Value
<1> QED BY <1>1, <1>2, <1>3

\* Tables with the same array and the same entries in their nodes have the
\* same values.
LEMMA SameValue ==
    ASSUME NEW t, Table(t), NEW u, Table(u), NEW key \in Keys, t.array = u.array,
           \A i : LiveAt(t, i, key) /\ t.node[i].val # Nil => \E j : LiveAt(u, j, key) /\ u.node[j].val = t.node[i].val,
           \A j : LiveAt(u, j, key) /\ u.node[j].val # Nil => \E i : LiveAt(t, i, key) /\ u.node[j].val = t.node[i].val
    PROVE  Value(u, key) = Value(t, key)
<1>1. CASE InArray(t, key)
  <2>1. InArray(u, key) BY <1>1 DEF InArray
  <2> QED BY <1>1, <2>1, ValueFacts
<1>2. CASE ~InArray(t, key) /\ \E i : LiveAt(t, i, key) /\ t.node[i].val # Nil BY <1>2, ValueFacts
<1>3. CASE ~InArray(t, key) /\ ~\E i : LiveAt(t, i, key) /\ t.node[i].val # Nil
  <2>1. ~InArray(u, key) BY <1>3 DEF InArray
  <2>2. Value(t, key) = Nil
    <3>1. CASE \E i : LiveAt(t, i, key) BY <1>3, <3>1, ValueFacts
    <3>2. CASE ~\E i : LiveAt(t, i, key) BY <1>3, <3>2, ValueFacts
    <3> QED BY <3>1, <3>2
  <2>3. Value(u, key) = Nil
    <3>1. CASE \E i : LiveAt(u, i, key) BY <1>3, <3>1, ValueFacts
    <3>2. CASE ~\E i : LiveAt(u, i, key) BY <2>1, <3>2, ValueFacts
    <3> QED BY <3>1, <3>2
  <2> QED BY <2>2, <2>3
<1> QED BY <1>1, <1>2, <1>3

----------------------------------------------------------------------------
(* A node for a new key: at its main position, ...                           *)
Alike(a, b) == a.key = b.key /\ a.val = b.val /\ a.tt = b.tt

\* u is t with a node i made for a key.
Made(t, u, key, i) ==
  /\ Table(u) /\ u.array = t.array /\ u.flags = t.flags /\ u.dummy = t.dummy /\ SizeNode(u) = SizeNode(t)
  /\ LiveAt(u, i, key) /\ u.node[i].val = Nil
  /\ \A j \in DOMAIN u.node : j # i /\ u.node[j].key # Nil => \E o \in DOMAIN t.node : Alike(u.node[j], t.node[o])
  /\ \A o \in DOMAIN t.node : t.node[o].val # Nil => \E j \in DOMAIN u.node : j # i /\ Alike(u.node[j], t.node[o])

\* What getfreepos finds.
LEMMA FreeFound ==
    ASSUME NEW t, Table(t), getfreepos(t) # NoNode
    PROVE  /\ getfreepos(t) \in 0..SizeNode(t) - 1 /\ getfreepos(t) \in Nat
           /\ t.node[getfreepos(t)].key = Nil
           /\ \A i \in 0..SizeNode(t) - 1 : getfreepos(t) < i => t.node[i].key # Nil
           /\ Loose(SizeNode(t), Links(t), getfreepos(t))
           /\ ~t.dummy
<1> DEFINE m == SizeNode(t)
           free == {n \in 0..t.lastfree - 1 : t.node[n].key = Nil}
           n == getfreepos(t)
<1>1. t \in TableSet /\ t.lastfree \in Nat /\ t.lastfree <= m /\ m \in Nat \ {0} /\ FreeNodes(t) /\ DummyNode(t)
      /\ Links(t) \in LinkSet(m)
  BY TableNodes DEF Table, TableSet, Straight
<1>2. DOMAIN t.node = 0..m - 1 /\ \A i \in 0..m - 1 : Links(t)[i] = t.node[i].next BY <1>1, TableNodes, LinksOf
<1> HIDE DEF m
<1>3. n = IF free = {} THEN NoNode ELSE CHOOSE x \in free : \A o \in free : o <= x BY DEF getfreepos
<1>4. free # {} BY <1>3
<1>5. free \in SUBSET Nat /\ \A x \in free : x <= t.lastfree BY <1>1
<1>6. \E x \in free : \A o \in free : o <= x
  <2> HIDE DEF free
  <2> QED BY <1>1, <1>4, <1>5, GreatestNat
<1>7. n \in free /\ \A o \in free : o <= n
  <2> HIDE DEF free, n
  <2> QED BY <1>3, <1>4, <1>6
<1> HIDE DEF n
<1>8. n \in 0..m - 1 /\ n \in Nat /\ t.node[n].key = Nil /\ n < t.lastfree BY <1>1, <1>7
<1>9. ~t.dummy
  <2>1. ASSUME t.dummy PROVE FALSE
    <3>1. t.lastfree = 0 BY <1>1, <2>1 DEF DummyNode
    <3> QED BY <1>8, <3>1
  <2> QED BY <2>1
<1>10. ASSUME NEW i \in 0..m - 1, n < i PROVE t.node[i].key # Nil
  <2>1. CASE i < t.lastfree
    <3>1. i \notin free BY <1>7, <1>8, <1>10
    <3> QED BY <1>1, <2>1, <3>1
  <2>2. CASE ~(i < t.lastfree)
    <3>1. t.lastfree <= i BY <1>1, <2>2
    <3>2. t.node[i].key # Nil \/ t.dummy BY <1>1, <1>2, <3>1 DEF FreeNodes
    <3> QED BY <1>9, <3>2
  <2> QED BY <2>1, <2>2
<1>11. Loose(m, Links(t), n)
  <2>1. t.node[n].next = NoNode BY <1>1, <1>2, <1>8 DEF FreeNodes
  <2>2. ASSUME NEW x \in 0..m - 1, t.node[x].next = n PROVE FALSE
    <3>1. n # NoNode BY <1>8 DEF NoNode
    <3>2. t.node[n].key # Nil BY <1>1, <1>2, <2>2, <3>1 DEF FreeNodes
    <3> QED BY <1>8, <3>2
  <2> QED BY <1>2, <1>8, <2>1, <2>2 DEF Loose
<1> QED BY <1>8, <1>9, <1>10, <1>11 DEF n, m

\* The key takes the node of its main position, which has no value.
LEMMA PlacedAtHome ==
    ASSUME NEW t, Table(t), NEW key \in Keys, luaH_get(t, key) = Nowhere,
           t.node[mainposition(t, key)].val = Nil, ~t.dummy
    PROVE  Made(t, [t EXCEPT !.node[mainposition(t, key)] = Node(key, Nil, t.node[mainposition(t, key)].next)],
                key, mainposition(t, key))
<1> DEFINE m == SizeNode(t)
           mp == mainposition(t, key)
           u == [t EXCEPT !.node[mp] = Node(key, Nil, t.node[mp].next)]
<1>1. /\ t \in TableSet /\ t.lastfree <= m /\ Straight(m, Links(t)) /\ FreeNodes(t) /\ DeadNodes(t) /\ Reached(t)
      /\ LiveOnce(t) /\ LiveFirst(t) /\ ArrayPart(t)
  BY DEF Table
<1>2. m \in Nat \ {0} /\ DOMAIN t.node = 0..m - 1 /\ t.node \in [0..m - 1 -> NodeSet] BY <1>1, TableNodes
<1>3. mp \in 0..m - 1 BY <1>1, HomeIn
<1>4. \A i \in 0..m - 1 : Links(t)[i] = t.node[i].next BY <1>1, LinksOf
<1> HIDE DEF m, mp
<1>5. t.node[mp] \in NodeSet /\ Node(key, Nil, t.node[mp].next) \in NodeSet BY <1>2, <1>3 DEF NodeSet, Node, Entries
<1>6. /\ u.node = [t.node EXCEPT ![mp] = Node(key, Nil, t.node[mp].next)]
      /\ u.array = t.array /\ u.flags = t.flags /\ u.dummy = t.dummy /\ u.lastfree = t.lastfree
  BY <1>1 DEF TableSet
<1>7. u.node \in [0..m - 1 -> NodeSet] /\ DOMAIN u.node = 0..m - 1 BY <1>2, <1>3, <1>5, <1>6
<1>8. u \in TableSet
  <2>1. u.node \in NodeArrays BY <1>2, <1>7 DEF NodeArrays
  <2> QED BY <1>1, <1>6, <2>1 DEF TableSet
<1>9. SizeNode(u) = m BY <1>2, <1>7 DEF SizeNode, m
<1>10. \A k : mainposition(u, k) = mainposition(t, k) BY <1>9 DEF mainposition, m
<1>11. /\ \A i \in 0..m - 1 : i # mp => u.node[i] = t.node[i]
       /\ u.node[mp].key = key /\ u.node[mp].val = Nil /\ u.node[mp].next = t.node[mp].next /\ u.node[mp].tt = "live"
  BY <1>2, <1>3, <1>6 DEF Node
<1>12. Links(u) = Links(t)
  <2>1. \A i \in 0..m - 1 : u.node[i].next = t.node[i].next BY <1>11
  <2> QED BY <1>2, <1>7, <2>1 DEF Links
<1>13. ~InArray(t, key) /\ (\A i \in 0..m - 1 : ~LiveAt(t, i, key)) /\ key # Nil BY <1>2, ValueFacts, KeyKinds
<1>14. ~u.dummy BY <1>6
<1> HIDE DEF u
<1>15. FreeNodes(u)
  <2>1. ASSUME NEW i \in 0..m - 1, u.node[i].next # NoNode PROVE u.node[u.node[i].next].key # Nil
    <3>1. u.node[i].next = t.node[i].next BY <1>11
    <3>2. t.node[i].next \in 0..m - 1 BY <1>1, <1>4, <2>1, <3>1 DEF Straight, LinkSet, NoNode
    <3>3. t.node[t.node[i].next].key # Nil BY <1>1, <1>2, <2>1, <3>1 DEF FreeNodes
    <3> QED BY <1>11, <1>13, <3>1, <3>2, <3>3
  <2>2. ASSUME NEW i \in 0..m - 1, u.node[i].key = Nil
        PROVE u.node[i].next = NoNode /\ u.node[i].val = Nil /\ u.node[i].tt = "live"
    BY <1>1, <1>2, <1>11, <1>13, <2>2 DEF FreeNodes
  <2>3. ASSUME NEW i \in 0..m - 1, u.lastfree <= i PROVE u.node[i].key # Nil
    <3>1. i # mp => t.node[i].key # Nil \/ t.dummy BY <1>1, <1>2, <1>6, <2>3 DEF FreeNodes
    <3> QED BY <1>11, <1>13, <3>1
  <2> QED BY <1>7, <2>1, <2>2, <2>3 DEF FreeNodes
<1>16. DeadNodes(u) BY <1>1, <1>2, <1>7, <1>11 DEF DeadNodes
<1>17. Reached(u)
  <2> SUFFICES ASSUME NEW i \in 0..m - 1, u.node[i].key # Nil
               PROVE  LET p == mainposition(u, u.node[i].key)
                      IN i \in Chain(u, p) /\ u.node[p].key # Nil /\ mainposition(u, u.node[p].key) = p
    BY <1>7 DEF Reached
  <2>1. CASE i = mp
    <3>1. mp \in ChainOf(Links(t), mp) BY <1>1, <1>2, <1>3, ChainStart DEF Straight
    <3> QED BY <1>10, <1>11, <1>12, <1>13, <2>1, <3>1 DEF Chain, mp
  <2>2. CASE i # mp
    <3> DEFINE p == mainposition(t, t.node[i].key)
    <3>1. u.node[i].key = t.node[i].key /\ t.node[i].key # Nil BY <1>11, <2>2
    <3>2. i \in Chain(t, p) /\ t.node[p].key # Nil /\ mainposition(t, t.node[p].key) = p
      BY <1>1, <1>2, <3>1 DEF Reached
    <3>3. p \in 0..m - 1
      <4>1. t.node[i].key \in Keys BY <1>2, <3>1 DEF NodeSet, Entries
      <4> QED BY <1>1, <4>1, HomeIn DEF m
    <3> HIDE DEF p
    <3>4. u.node[p].key # Nil /\ mainposition(t, u.node[p].key) = p
      <4>1. CASE p = mp BY <1>11, <1>13, <4>1 DEF mp
      <4>2. CASE p # mp BY <1>11, <3>2, <3>3, <4>2
      <4> QED BY <4>1, <4>2
    <3> QED BY <1>10, <1>12, <3>1, <3>2, <3>4 DEF Chain, p
  <2> QED BY <2>1, <2>2
<1>18. LiveOnce(u)
  <2> SUFFICES ASSUME NEW i \in 0..m - 1, NEW j \in 0..m - 1, u.node[i].key # Nil, u.node[i].key = u.node[j].key,
                      u.node[i].tt = "live", u.node[j].tt = "live"
               PROVE  i = j
    BY <1>7 DEF LiveOnce
  <2>1. CASE i # mp /\ j # mp
    <3>1. u.node[i] = t.node[i] /\ u.node[j] = t.node[j] BY <1>11, <2>1
    <3> QED BY <1>1, <1>2, <3>1 DEF LiveOnce
  <2>2. CASE i = mp /\ j # mp BY <1>2, <1>11, <1>13, <2>2 DEF LiveAt
  <2>3. CASE i # mp /\ j = mp BY <1>2, <1>11, <1>13, <2>3 DEF LiveAt
  <2> QED BY <2>1, <2>2, <2>3
<1>19. LiveFirst(u)
  <2> SUFFICES ASSUME NEW i \in 0..m - 1, NEW j \in 0..m - 1, u.node[i].key # Nil, u.node[i].key = u.node[j].key,
                      u.node[i].tt = "live", u.node[j].tt = "dead", i \in Chain(u, j)
               PROVE  FALSE
    BY <1>7 DEF LiveFirst
  <2>1. j # mp /\ u.node[j] = t.node[j] BY <1>11
  <2>2. i \in Chain(t, j) BY <1>12 DEF Chain
  <2>3. CASE i # mp
    <3>1. u.node[i] = t.node[i] BY <1>11, <2>3
    <3> QED BY <1>1, <1>2, <2>1, <2>2, <3>1 DEF LiveFirst
  <2>4. CASE i = mp
    <3>1. t.node[j].key = key BY <1>11, <2>1, <2>4
    <3>2. j \in Chain(t, mp) BY <1>1, <1>2, <1>13, <3>1 DEF Reached, mp
    <3>3. mp = j BY <1>1, <1>2, <1>3, <2>2, <2>4, <3>2, ChainOrder DEF Chain, Straight
    <3> QED BY <2>1, <3>3
  <2> QED BY <2>3, <2>4
<1>20. ArrayPart(u)
  <2>1. \A i \in 0..m - 1 : u.node[i].key # Nil /\ u.node[i].key[1] = "num" => u.node[i].key[2] \notin DOMAIN u.array
    BY <1>1, <1>2, <1>6, <1>11, <1>13 DEF ArrayPart, InArray
  <2>2. \A j \in DOMAIN u.array : u.array[j] # Nil => Num(j) \in Keys BY <1>1, <1>6 DEF ArrayPart
  <2> QED BY <1>7, <2>1, <2>2 DEF ArrayPart
<1>21. DummyNode(u) BY <1>14 DEF DummyNode
<1>22. Table(u)
  <2>1. Straight(SizeNode(u), Links(u)) /\ u.lastfree <= SizeNode(u) BY <1>1, <1>6, <1>9, <1>12
  <2> QED BY <1>8, <1>15, <1>16, <1>17, <1>18, <1>19, <1>20, <1>21, <2>1 DEF Table
<1>23. LiveAt(u, mp, key) /\ u.node[mp].val = Nil BY <1>3, <1>7, <1>11 DEF LiveAt
<1>24. \A j \in DOMAIN u.node : j # mp /\ u.node[j].key # Nil => \E o \in DOMAIN t.node : Alike(u.node[j], t.node[o])
  BY <1>2, <1>7, <1>11 DEF Alike
<1>25. \A o \in DOMAIN t.node : t.node[o].val # Nil => \E j \in DOMAIN u.node : j # mp /\ Alike(u.node[j], t.node[o])
  <2> SUFFICES ASSUME NEW o \in DOMAIN t.node, t.node[o].val # Nil
               PROVE  \E j \in DOMAIN u.node : j # mp /\ Alike(u.node[j], t.node[o])
    OBVIOUS
  <2>1. o # mp BY DEF mp
  <2>2. u.node[o] = t.node[o] BY <1>2, <1>11, <2>1
  <2> QED BY <1>2, <1>7, <2>1, <2>2 DEF Alike
<1>26. Made(t, u, key, mp) BY <1>6, <1>9, <1>22, <1>23, <1>24, <1>25 DEF Made, m
<1> QED BY <1>26 DEF u, mp

----------------------------------------------------------------------------
(* ... after a node at home, or in place of one that moves away.             *)
\* The key takes a free node after its main position, whose node is at home.
LEMMA PlacedAfter ==
    ASSUME NEW t, Table(t), NEW key \in Keys, luaH_get(t, key) = Nowhere, NEW mp, mp = mainposition(t, key),
           t.node[mp].val # Nil, mainposition(t, t.node[mp].key) = mp,
           NEW n, n = getfreepos(t), n # NoNode
    PROVE  Made(t, [t EXCEPT !.node = [t.node EXCEPT ![n] = Node(key, Nil, t.node[mp].next), ![mp].next = n],
                             !.lastfree = n], key, n)
<1> DEFINE m == SizeNode(t)
           u == [t EXCEPT !.node = [t.node EXCEPT ![n] = Node(key, Nil, t.node[mp].next), ![mp].next = n], !.lastfree = n]
<1>1. /\ t \in TableSet /\ Straight(m, Links(t)) /\ FreeNodes(t) /\ DeadNodes(t) /\ Reached(t)
      /\ LiveOnce(t) /\ LiveFirst(t) /\ ArrayPart(t)
  BY DEF Table
<1>2. m \in Nat \ {0} /\ DOMAIN t.node = 0..m - 1 /\ t.node \in [0..m - 1 -> NodeSet] BY <1>1, TableNodes
<1>3. mp \in 0..m - 1 BY <1>1, HomeIn
<1>4. \A i \in 0..m - 1 : Links(t)[i] = t.node[i].next BY <1>1, LinksOf
<1>5. /\ n \in 0..m - 1 /\ n \in Nat /\ t.node[n].key = Nil
      /\ \A i \in 0..m - 1 : n < i => t.node[i].key # Nil
      /\ Loose(m, Links(t), n)
      /\ ~t.dummy
  BY FreeFound
<1> HIDE DEF m
<1>6. t.node[mp].key # Nil /\ t.node[mp].tt = "live" /\ n # mp
  <2>1. t.node[mp].key # Nil BY <1>1, <1>2, <1>3 DEF FreeNodes
  <2>2. t.node[mp].tt \in {"live", "dead"} BY <1>2, <1>3 DEF NodeSet
  <2>3. t.node[mp].tt # "dead" BY <1>1, <1>2, <1>3 DEF DeadNodes
  <2> QED BY <1>5, <2>1, <2>2, <2>3
<1>7. t.node[mp] \in NodeSet /\ Node(key, Nil, t.node[mp].next) \in NodeSet
  BY <1>2, <1>3 DEF NodeSet, Node, Entries
<1>8. [t.node[mp] EXCEPT !.next = n] \in NodeSet BY <1>5, <1>7 DEF NodeSet
<1>9. /\ u.node = [t.node EXCEPT ![n] = Node(key, Nil, t.node[mp].next), ![mp].next = n]
      /\ u.array = t.array /\ u.flags = t.flags /\ u.dummy = t.dummy /\ u.lastfree = n
  BY <1>1 DEF TableSet
<1>10. u.node[mp] = [t.node[mp] EXCEPT !.next = n] /\ u.node[n] = Node(key, Nil, t.node[mp].next)
       /\ (\A i \in 0..m - 1 : i # mp /\ i # n => u.node[i] = t.node[i]) /\ DOMAIN u.node = 0..m - 1
  BY <1>2, <1>3, <1>5, <1>6, <1>9
<1>11. u.node \in [0..m - 1 -> NodeSet]
  <2>1. \A i \in 0..m - 1 : u.node[i] \in NodeSet BY <1>2, <1>7, <1>8, <1>10
  <2>2. u.node = [i \in 0..m - 1 |-> u.node[i]] BY <1>2, <1>9
  <2> QED BY <2>1, <2>2
<1>12. u \in TableSet
  <2>1. u.node \in NodeArrays BY <1>2, <1>11 DEF NodeArrays
  <2> QED BY <1>1, <1>5, <1>9, <2>1 DEF TableSet
<1>13. SizeNode(u) = m BY <1>2, <1>10 DEF SizeNode, m
<1>15. ~u.dummy BY <1>5, <1>9
<1> HIDE DEF u
<1>14. \A k : mainposition(u, k) = mainposition(t, k) BY <1>13 DEF mainposition, m
<1>16. /\ u.node[n].key = key /\ u.node[n].val = Nil /\ u.node[n].tt = "live" /\ u.node[n].next = t.node[mp].next
       /\ u.node[mp].next = n
       /\ \A i \in 0..m - 1 : i # n => Alike(u.node[i], t.node[i])
       /\ \A i \in 0..m - 1 : i # n /\ i # mp => u.node[i].next = t.node[i].next
  <2>1. u.node[n].key = key /\ u.node[n].val = Nil /\ u.node[n].tt = "live" /\ u.node[n].next = t.node[mp].next
    BY <1>10 DEF Node
  <2>2. u.node[mp].next = n /\ Alike(u.node[mp], t.node[mp]) BY <1>7, <1>10 DEF NodeSet, Alike
  <2>3. \A i \in 0..m - 1 : i # n => Alike(u.node[i], t.node[i]) BY <1>10, <2>2 DEF Alike
  <2>4. \A i \in 0..m - 1 : i # n /\ i # mp => u.node[i].next = t.node[i].next BY <1>10
  <2> QED BY <2>1, <2>2, <2>3, <2>4
<1>17. Links(u) = Inserted(Links(t), mp, n)
  <2>1. DOMAIN Links(t) = 0..m - 1 /\ DOMAIN Links(u) = 0..m - 1 BY <1>2, <1>10 DEF Links
  <2>2. \A i \in 0..m - 1 : Links(u)[i] = Inserted(Links(t), mp, n)[i]
    <3>1. \A i \in 0..m - 1 : Links(u)[i] = u.node[i].next BY <1>10 DEF Links
    <3>2. Inserted(Links(t), mp, n)[n] = t.node[mp].next /\ Inserted(Links(t), mp, n)[mp] = n
          /\ \A x \in 0..m - 1 : x # n /\ x # mp => Inserted(Links(t), mp, n)[x] = t.node[x].next
      BY <1>1, <1>2, <1>3, <1>4, <1>5, <1>6, InsertedLinks DEF Straight
    <3> QED BY <1>16, <3>1, <3>2
  <2>3. DOMAIN Inserted(Links(t), mp, n) = 0..m - 1 BY <2>1 DEF Inserted
  <2>4. Links(u) = [i \in 0..m - 1 |-> Links(u)[i]] BY <1>10 DEF Links
  <2>5. Inserted(Links(t), mp, n) = [i \in 0..m - 1 |-> Inserted(Links(t), mp, n)[i]] BY <2>1 DEF Inserted
  <2> HIDE DEF u
  <2> QED BY <2>2, <2>4, <2>5
<1>18. Straight(m, Links(u)) BY <1>1, <1>2, <1>3, <1>5, <1>6, <1>17, InsertedStraight
<1>19. \A p \in 0..m - 1 : p # n => Chain(u, p) = IF mp \in Chain(t, p) THEN Chain(t, p) \cup {n} ELSE Chain(t, p)
  BY <1>1, <1>2, <1>3, <1>5, <1>6, <1>17, InsertedChain DEF Chain, Straight
<1>20. ~InArray(t, key) /\ (\A i \in 0..m - 1 : ~LiveAt(t, i, key)) /\ key # Nil BY <1>2, ValueFacts, KeyKinds
<1>21. FreeNodes(u)
  <2>1. ASSUME NEW i \in 0..m - 1, u.node[i].next # NoNode PROVE u.node[u.node[i].next].key # Nil
    <3>1. CASE i = mp BY <1>16, <1>20, <3>1
    <3>2. CASE i # mp
      <4>1. PICK o \in 0..m - 1 : u.node[i].next = t.node[o].next BY <1>3, <1>16, <3>2
      <4>2. t.node[o].next \in 0..m - 1 /\ t.node[o].next # n
        BY <1>1, <1>4, <1>5, <2>1, <4>1 DEF Straight, LinkSet, NoNode, Loose
      <4>3. t.node[t.node[o].next].key # Nil BY <1>1, <1>2, <2>1, <4>1 DEF FreeNodes
      <4> QED BY <1>16, <4>1, <4>2, <4>3 DEF Alike
    <3> QED BY <3>1, <3>2
  <2>2. ASSUME NEW i \in 0..m - 1, u.node[i].key = Nil
        PROVE u.node[i].next = NoNode /\ u.node[i].val = Nil /\ u.node[i].tt = "live"
    <3>1. i # n /\ i # mp BY <1>3, <1>6, <1>16, <1>20, <2>2 DEF Alike
    <3>2. u.node[i] = t.node[i] BY <1>10, <3>1
    <3> QED BY <1>1, <1>2, <2>2, <3>2 DEF FreeNodes
  <2>3. ASSUME NEW i \in 0..m - 1, u.lastfree <= i PROVE u.node[i].key # Nil
    <3>1. CASE i = n BY <1>16, <1>20, <3>1
    <3>2. CASE i # n
      <4>1. n < i BY <1>5, <1>9, <2>3, <3>2
      <4> QED BY <1>5, <1>16, <3>2, <4>1 DEF Alike
    <3> QED BY <3>1, <3>2
  <2> QED BY <1>10, <2>1, <2>2, <2>3 DEF FreeNodes
<1>22. DeadNodes(u) BY <1>1, <1>2, <1>10, <1>16 DEF DeadNodes, Alike
<1>23. Reached(u)
  <2> SUFFICES ASSUME NEW i \in 0..m - 1, u.node[i].key # Nil
               PROVE  LET p == mainposition(u, u.node[i].key)
                      IN i \in Chain(u, p) /\ u.node[p].key # Nil /\ mainposition(u, u.node[p].key) = p
    BY <1>10 DEF Reached
  <2>1. CASE i = n
    <3>1. mp \in Chain(t, mp) BY <1>1, <1>2, <1>3, ChainStart DEF Straight, Chain
    <3>2. n \in Chain(u, mp) BY <1>3, <1>6, <1>19, <3>1
    <3>3. u.node[mp].key = t.node[mp].key BY <1>3, <1>6, <1>16 DEF Alike
    <3> QED BY <1>6, <1>14, <1>16, <2>1, <3>2, <3>3
  <2>2. CASE i # n
    <3> DEFINE p == mainposition(t, t.node[i].key)
    <3>1. u.node[i].key = t.node[i].key /\ t.node[i].key # Nil BY <1>16, <2>2 DEF Alike
    <3>2. i \in Chain(t, p) /\ t.node[p].key # Nil /\ mainposition(t, t.node[p].key) = p
      BY <1>1, <1>2, <3>1 DEF Reached
    <3>3. p \in 0..m - 1
      <4>1. t.node[i].key \in Keys BY <1>2, <3>1 DEF NodeSet, Entries
      <4> QED BY <1>1, <4>1, HomeIn DEF m
    <3> HIDE DEF p
    <3>4. p # n BY <1>5, <3>2
    <3>5. i \in Chain(u, p) BY <1>19, <3>2, <3>3, <3>4
    <3>6. u.node[p].key = t.node[p].key BY <1>16, <3>3, <3>4 DEF Alike
    <3> QED BY <1>14, <3>1, <3>2, <3>5, <3>6 DEF p
  <2> QED BY <2>1, <2>2
<1>24. LiveOnce(u)
  <2> SUFFICES ASSUME NEW i \in 0..m - 1, NEW j \in 0..m - 1, u.node[i].key # Nil, u.node[i].key = u.node[j].key,
                      u.node[i].tt = "live", u.node[j].tt = "live"
               PROVE  i = j
    BY <1>10 DEF LiveOnce
  <2>1. CASE i # n /\ j # n
    <3>1. Alike(u.node[i], t.node[i]) /\ Alike(u.node[j], t.node[j]) BY <1>16, <2>1
    <3> QED BY <1>1, <1>2, <3>1 DEF LiveOnce, Alike
  <2>2. CASE i = n /\ j # n BY <1>2, <1>16, <1>20, <2>2 DEF LiveAt, Alike
  <2>3. CASE i # n /\ j = n BY <1>2, <1>16, <1>20, <2>3 DEF LiveAt, Alike
  <2> QED BY <2>1, <2>2, <2>3
<1>25. LiveFirst(u)
  <2> SUFFICES ASSUME NEW i \in 0..m - 1, NEW j \in 0..m - 1, u.node[i].key # Nil, u.node[i].key = u.node[j].key,
                      u.node[i].tt = "live", u.node[j].tt = "dead", i \in Chain(u, j)
               PROVE  FALSE
    BY <1>10 DEF LiveFirst
  <2>1. j # n BY <1>16
  <2>2. Alike(u.node[j], t.node[j]) BY <1>16, <2>1
  <2>3. CASE i # n
    <3>1. Alike(u.node[i], t.node[i]) BY <1>16, <2>3
    <3>2. i \in Chain(t, j) BY <1>19, <2>1, <2>3
    <3> QED BY <1>1, <1>2, <2>2, <3>1, <3>2 DEF LiveFirst, Alike
  <2>4. CASE i = n
    <3>1. t.node[j].key = key /\ t.node[j].tt = "dead" BY <1>16, <2>2, <2>4 DEF Alike
    <3>2. j \in Chain(t, mp) BY <1>1, <1>2, <1>20, <3>1 DEF Reached
    <3>3. mp \in Chain(t, j)
      <4>1. n \notin Chain(t, j) BY <1>1, <1>2, <1>5, <2>1, ChainWithout DEF Chain, Straight, Loose
      <4> QED BY <1>19, <2>1, <2>4, <4>1
    <3>4. mp = j BY <1>1, <1>2, <1>3, <3>2, <3>3, ChainOrder DEF Chain, Straight
    <3> QED BY <1>6, <3>1, <3>4
  <2> QED BY <2>3, <2>4
<1>26. ArrayPart(u)
  <2>1. ASSUME NEW i \in 0..m - 1, u.node[i].key # Nil /\ u.node[i].key[1] = "num"
        PROVE  u.node[i].key[2] \notin DOMAIN u.array
    <3>1. CASE i = n BY <1>9, <1>16, <1>20, <2>1, <3>1 DEF InArray
    <3>2. CASE i # n
      <4>1. u.node[i].key = t.node[i].key BY <1>16, <3>2 DEF Alike
      <4>2. t.node[i].key[2] \notin DOMAIN t.array BY <1>1, <1>2, <2>1, <4>1 DEF ArrayPart
      <4> QED BY <1>9, <4>1, <4>2
    <3> QED BY <3>1, <3>2
  <2>2. \A j \in DOMAIN u.array : u.array[j] # Nil => Num(j) \in Keys BY <1>1, <1>9 DEF ArrayPart
  <2> QED BY <1>10, <2>1, <2>2 DEF ArrayPart
<1>27. DummyNode(u) BY <1>15 DEF DummyNode
<1>28. Table(u)
  <2>1. Straight(SizeNode(u), Links(u)) BY <1>13, <1>18
  <2>2. u.lastfree <= SizeNode(u) BY <1>2, <1>5, <1>9, <1>13
  <2> QED BY <1>12, <1>21, <1>22, <1>23, <1>24, <1>25, <1>26, <1>27, <2>1, <2>2 DEF Table
<1>29. LiveAt(u, n, key) /\ u.node[n].val = Nil BY <1>5, <1>10, <1>16 DEF LiveAt
<1>30. \A j \in DOMAIN u.node : j # n /\ u.node[j].key # Nil => \E o \in DOMAIN t.node : Alike(u.node[j], t.node[o])
  BY <1>2, <1>10, <1>16
<1>31. \A o \in DOMAIN t.node : t.node[o].val # Nil => \E j \in DOMAIN u.node : j # n /\ Alike(u.node[j], t.node[o])
  <2> SUFFICES ASSUME NEW o \in DOMAIN t.node, t.node[o].val # Nil
               PROVE  \E j \in DOMAIN u.node : j # n /\ Alike(u.node[j], t.node[o])
    OBVIOUS
  <2>1. o # n BY <1>1, <1>5 DEF FreeNodes
  <2> QED BY <1>2, <1>10, <1>16, <2>1
<1>32. Made(t, u, key, n) BY <1>9, <1>13, <1>28, <1>29, <1>30, <1>31 DEF Made, m
<1> QED BY <1>32 DEF u

\* The node before another is found from the main position.
LEMMA PreviousFound ==
    ASSUME NEW t \in TableSet, Links(t) \in LinkSet(SizeNode(t)), NEW o \in 0..SizeNode(t) - 1,
           NEW mp \in Chain(t, o), mp # o
    PROVE  Previous(t, o, mp) \in 0..SizeNode(t) - 1 /\ t.node[Previous(t, o, mp)].next = mp
<1>1. SizeNode(t) \in Nat \ {0} BY TableNodes
<1>2. mp \in ChainOf(Links(t), o) BY DEF Chain
<1>3. \E x \in ChainOf(Links(t), o) : Links(t)[x] = mp BY <1>1, <1>2, ChainBefore
<1>4. Chain(t, o) \subseteq 0..SizeNode(t) - 1 BY <1>1, ChainStart DEF Chain
<1>5. \E x \in Chain(t, o) : t.node[x].next = mp BY <1>3, <1>4, LinksOf DEF Chain
<1>6. Previous(t, o, mp) \in Chain(t, o) /\ t.node[Previous(t, o, mp)].next = mp BY <1>5 DEF Previous
<1> QED BY <1>4, <1>6

\* The node at the main position, out of its own, makes room for the key.
LEMMA PlacedMoving ==
    ASSUME NEW t, Table(t), NEW key \in Keys, luaH_get(t, key) = Nowhere, NEW mp, mp = mainposition(t, key),
           t.node[mp].val # Nil, NEW othern, othern = mainposition(t, t.node[mp].key), othern # mp,
           NEW n, n = getfreepos(t), n # NoNode
    PROVE  Made(t, [t EXCEPT !.node = [t.node EXCEPT ![Previous(t, othern, mp)].next = n, ![n] = t.node[mp],
                                                     ![mp] = Node(key, Nil, NoNode)],
                             !.lastfree = n], key, mp)
<1> DEFINE m == SizeNode(t)
           prev == Previous(t, othern, mp)
           u == [t EXCEPT !.node = [t.node EXCEPT ![prev].next = n, ![n] = t.node[mp],
                                                  ![mp] = Node(key, Nil, NoNode)], !.lastfree = n]
           From(i) == IF i = n THEN mp ELSE i
<1>1. /\ t \in TableSet /\ Straight(m, Links(t)) /\ FreeNodes(t) /\ DeadNodes(t) /\ Reached(t)
      /\ LiveOnce(t) /\ LiveFirst(t) /\ ArrayPart(t)
  BY DEF Table
<1>2. m \in Nat \ {0} /\ DOMAIN t.node = 0..m - 1 /\ t.node \in [0..m - 1 -> NodeSet] BY <1>1, TableNodes
<1>3. mp \in 0..m - 1 BY <1>1, HomeIn
<1>4. \A i \in 0..m - 1 : Links(t)[i] = t.node[i].next BY <1>1, LinksOf
<1>5. /\ n \in 0..m - 1 /\ n \in Nat /\ t.node[n].key = Nil
      /\ \A i \in 0..m - 1 : n < i => t.node[i].key # Nil
      /\ Loose(m, Links(t), n)
      /\ ~t.dummy
  BY FreeFound
<1> HIDE DEF m
<1>6. t.node[mp].key # Nil /\ t.node[mp].key \in Keys /\ t.node[mp].tt = "live" /\ n # mp
  <2>1. t.node[mp].key # Nil BY <1>1, <1>2, <1>3 DEF FreeNodes
  <2>2. t.node[mp].tt \in {"live", "dead"} /\ t.node[mp].key \in Entries BY <1>2, <1>3 DEF NodeSet
  <2>3. t.node[mp].tt # "dead" BY <1>1, <1>2, <1>3 DEF DeadNodes
  <2> QED BY <1>5, <2>1, <2>2, <2>3 DEF Entries
<1>7. othern \in 0..m - 1 BY <1>1, <1>6, HomeIn DEF m
<1>8. mp \in Chain(t, othern) BY <1>1, <1>2, <1>3, <1>6 DEF Reached
<1> DEFINE L == Links(t)
<1> HIDE DEF L
<1>9. prev \in 0..m - 1 /\ t.node[prev].next = mp
  <2>1. Links(t) \in LinkSet(SizeNode(t)) /\ othern \in 0..SizeNode(t) - 1 /\ mp # othern
    BY <1>1, <1>7 DEF Straight, m
  <2>2. Previous(t, othern, mp) \in 0..SizeNode(t) - 1 /\ t.node[Previous(t, othern, mp)].next = mp
    <3> HIDE DEF u, prev, From
    <3> QED BY <1>1, <1>8, <2>1, PreviousFound
  <2> QED BY <2>2 DEF m
<1> HIDE DEF prev
<1>9a. Straight(m, L) /\ Loose(m, L, n) /\ L[prev] = mp /\ \A i \in 0..m - 1 : L[i] = t.node[i].next
  BY <1>1, <1>4, <1>5, <1>9 DEF L
<1>10. prev # mp /\ prev # n /\ \A x \in 0..m - 1 : x # n /\ x # mp /\ x # prev => t.node[x].next # mp
  <2>1. prev # mp /\ prev # n /\ \A x \in 0..m - 1 : x # n /\ x # mp /\ x # prev => L[x] # mp
    BY <1>2, <1>3, <1>6, <1>9, <1>9a, ReplacedLinks
  <2> QED BY <1>9a, <2>1
<1>11. t.node[mp] \in NodeSet /\ Node(key, Nil, NoNode) \in NodeSet /\ t.node[prev] \in NodeSet
  BY <1>2, <1>3, <1>9 DEF NodeSet, Node, Entries, NoNode
<1>12. [t.node[prev] EXCEPT !.next = n] \in NodeSet BY <1>5, <1>11 DEF NodeSet
<1>13. /\ u.node = [t.node EXCEPT ![prev].next = n, ![n] = t.node[mp], ![mp] = Node(key, Nil, NoNode)]
       /\ u.array = t.array /\ u.flags = t.flags /\ u.dummy = t.dummy /\ u.lastfree = n
  BY <1>1 DEF TableSet
<1>14. u.node[prev] = [t.node[prev] EXCEPT !.next = n] /\ u.node[n] = t.node[mp] /\ u.node[mp] = Node(key, Nil, NoNode)
       /\ (\A i \in 0..m - 1 : i # mp /\ i # n /\ i # prev => u.node[i] = t.node[i]) /\ DOMAIN u.node = 0..m - 1
  BY <1>2, <1>3, <1>5, <1>6, <1>9, <1>10, <1>13
<1>15. u.node \in [0..m - 1 -> NodeSet]
  <2>1. \A i \in 0..m - 1 : u.node[i] \in NodeSet BY <1>2, <1>11, <1>12, <1>14
  <2>2. u.node = [i \in 0..m - 1 |-> u.node[i]] BY <1>2, <1>13
  <2> QED BY <2>1, <2>2
<1>16. u \in TableSet
  <2>1. u.node \in NodeArrays BY <1>2, <1>15 DEF NodeArrays
  <2> QED BY <1>1, <1>5, <1>13, <2>1 DEF TableSet
<1>17. SizeNode(u) = m BY <1>2, <1>14 DEF SizeNode, m
<1>18. \A k : mainposition(u, k) = mainposition(t, k) BY <1>17 DEF mainposition, m
<1>19. ~u.dummy BY <1>5, <1>13
<1> HIDE DEF u
<1>20. /\ u.node[mp].key = key /\ u.node[mp].val = Nil /\ u.node[mp].tt = "live" /\ u.node[mp].next = NoNode
       /\ u.node[n].next = t.node[mp].next /\ u.node[prev].next = n
       /\ \A i \in 0..m - 1 : i # mp => Alike(u.node[i], t.node[From(i)]) /\ From(i) \in 0..m - 1
       /\ \A i \in 0..m - 1 : i # n /\ i # mp => From(i) = i
       /\ \A i \in 0..m - 1 : i # n /\ i # mp /\ i # prev => u.node[i].next = t.node[i].next
  <2>1. u.node[mp].key = key /\ u.node[mp].val = Nil /\ u.node[mp].tt = "live" /\ u.node[mp].next = NoNode
    BY <1>14 DEF Node
  <2>2. u.node[prev].next = n /\ Alike(u.node[prev], t.node[prev]) BY <1>11, <1>14 DEF NodeSet, Alike
  <2>3. \A i \in 0..m - 1 : i # mp => Alike(u.node[i], t.node[From(i)]) /\ From(i) \in 0..m - 1
    BY <1>3, <1>10, <1>14, <2>2 DEF Alike
  <2>4. \A i \in 0..m - 1 : i # n /\ i # mp /\ i # prev => u.node[i].next = t.node[i].next BY <1>14
  <2> QED BY <1>14, <2>1, <2>2, <2>3, <2>4
<1>21. Links(u) = Replaced(Links(t), prev, mp, n)
  <2>1. DOMAIN Links(t) = 0..m - 1 /\ DOMAIN Links(u) = 0..m - 1 BY <1>2, <1>14 DEF Links
  <2>2. \A i \in 0..m - 1 : Links(u)[i] = Replaced(Links(t), prev, mp, n)[i]
    <3>1. \A i \in 0..m - 1 : Links(u)[i] = u.node[i].next BY <1>14 DEF Links
    <3>2. Replaced(L, prev, mp, n)[n] = L[mp] /\ Replaced(L, prev, mp, n)[mp] = NoNode
          /\ Replaced(L, prev, mp, n)[prev] = n
          /\ \A x \in 0..m - 1 : x # n /\ x # mp /\ x # prev => Replaced(L, prev, mp, n)[x] = L[x]
      BY <1>2, <1>3, <1>6, <1>9, <1>9a, ReplacedLinks
    <3> QED BY <1>3, <1>20, <1>9a, <3>1, <3>2 DEF L
  <2>4. Links(u) = [i \in 0..m - 1 |-> Links(u)[i]] BY <1>14 DEF Links
  <2>5. Replaced(Links(t), prev, mp, n) = [i \in 0..m - 1 |-> Replaced(Links(t), prev, mp, n)[i]]
    BY <2>1 DEF Replaced
  <2> QED BY <2>2, <2>4, <2>5
<1>22. Straight(m, Links(u)) 
  <2>1. Straight(m, Replaced(L, prev, mp, n)) BY <1>2, <1>3, <1>6, <1>9, <1>9a, ReplacedStraight
  <2> QED BY <1>21, <2>1 DEF L
<1>23. Chain(u, mp) = {mp}
       /\ \A p \in 0..m - 1 : p # n /\ p # mp =>
            Chain(u, p) = IF mp \in Chain(t, p) THEN (Chain(t, p) \ {mp}) \cup {n} ELSE Chain(t, p)
  <2>1. /\ ChainOf(Replaced(L, prev, mp, n), mp) = {mp}
        /\ \A p \in 0..m - 1 : p # n /\ p # mp =>
             ChainOf(Replaced(L, prev, mp, n), p)
             = IF mp \in ChainOf(L, p) THEN (ChainOf(L, p) \ {mp}) \cup {n} ELSE ChainOf(L, p)
    BY <1>2, <1>3, <1>6, <1>9, <1>9a, ReplacedChain
  <2> QED BY <1>21, <2>1 DEF Chain, L
<1>24. ~InArray(t, key) /\ (\A i \in 0..m - 1 : ~LiveAt(t, i, key)) /\ key # Nil BY <1>2, ValueFacts, KeyKinds
<1>25. ASSUME NEW i \in 0..m - 1, t.node[i].key # Nil PROVE mainposition(t, t.node[i].key) # mp
  BY <1>1, <1>2, <1>25 DEF Reached
<1> HIDE DEF From
<1>26. From(n) = mp BY DEF From
<1>27. FreeNodes(u)
  <2>1. ASSUME NEW i \in 0..m - 1, u.node[i].next # NoNode PROVE u.node[u.node[i].next].key # Nil
    <3>1. CASE i = prev BY <1>6, <1>14, <1>20, <3>1
    <3>2. CASE i # prev
      <4>1. PICK o \in 0..m - 1 : u.node[i].next = t.node[o].next /\ o # prev
        <5>1. i # mp BY <1>20, <2>1
        <5>2. CASE i = n BY <1>3, <1>10, <1>20, <5>2
        <5>3. CASE i # n BY <1>20, <3>2, <5>1, <5>3
        <5> QED BY <5>2, <5>3
      <4>2. t.node[o].next \in 0..m - 1 /\ t.node[o].next # n
        BY <1>1, <1>4, <1>5, <2>1, <4>1 DEF Straight, LinkSet, NoNode, Loose
      <4>3. t.node[o].next # mp
        <5>1. mp # NoNode BY <1>3 DEF NoNode
        <5> QED BY <1>1, <1>4, <1>9, <4>1, <5>1 DEF Straight
      <4>4. t.node[t.node[o].next].key # Nil BY <1>1, <1>2, <2>1, <4>1 DEF FreeNodes
      <4> QED BY <1>20, <4>1, <4>2, <4>3, <4>4 DEF Alike
    <3> QED BY <3>1, <3>2
  <2>2. ASSUME NEW i \in 0..m - 1, u.node[i].key = Nil
        PROVE u.node[i].next = NoNode /\ u.node[i].val = Nil /\ u.node[i].tt = "live"
    <3>1. i # mp BY <1>20, <1>24, <2>2
    <3>2. i # n BY <1>6, <1>14, <2>2
    <3>3. Alike(u.node[i], t.node[i]) BY <1>20, <3>1, <3>2
    <3>4. i # prev
      <4>1. t.node[prev].next # NoNode BY <1>3, <1>9 DEF NoNode
      <4> QED BY <1>1, <1>2, <1>9, <2>2, <3>3, <4>1 DEF FreeNodes, Alike
    <3>5. u.node[i] = t.node[i] BY <1>14, <3>1, <3>2, <3>4
    <3> QED BY <1>1, <1>2, <2>2, <3>5 DEF FreeNodes
  <2>3. ASSUME NEW i \in 0..m - 1, u.lastfree <= i PROVE u.node[i].key # Nil
    <3>1. CASE i = n BY <1>6, <1>14, <3>1
    <3>2. CASE i = mp BY <1>20, <1>24, <3>2
    <3>3. CASE i # n /\ i # mp
      <4>1. n < i BY <1>5, <1>13, <2>3, <3>3
      <4> QED BY <1>5, <1>20, <3>3, <4>1 DEF Alike
    <3> QED BY <3>1, <3>2, <3>3
  <2> QED BY <1>14, <2>1, <2>2, <2>3 DEF FreeNodes
<1>28. DeadNodes(u)
  <2>1. ASSUME NEW i \in 0..m - 1, u.node[i].tt = "dead" PROVE u.node[i].val = Nil /\ u.node[i].key[1] = "str"
    <3>1. i # mp BY <1>20, <2>1
    <3>2. Alike(u.node[i], t.node[From(i)]) /\ From(i) \in 0..m - 1 BY <1>20, <3>1
    <3> QED BY <1>1, <1>2, <2>1, <3>2 DEF DeadNodes, Alike
  <2> QED BY <1>14, <2>1 DEF DeadNodes
<1>29. Reached(u)
  <2> SUFFICES ASSUME NEW i \in 0..m - 1, u.node[i].key # Nil
               PROVE  LET p == mainposition(u, u.node[i].key)
                      IN i \in Chain(u, p) /\ u.node[p].key # Nil /\ mainposition(u, u.node[p].key) = p
    BY <1>14 DEF Reached
  <2>1. CASE i = mp BY <1>18, <1>20, <1>23, <1>24, <2>1
  <2>2. CASE i # mp
    <3> DEFINE o == From(i)
               p == mainposition(t, t.node[o].key)
    <3>1. u.node[i].key = t.node[o].key /\ t.node[o].key # Nil /\ o \in 0..m - 1 BY <1>20, <2>2 DEF Alike
    <3>2. o \in Chain(t, p) /\ t.node[p].key # Nil /\ mainposition(t, t.node[p].key) = p
      BY <1>1, <1>2, <3>1 DEF Reached
    <3>3. p \in 0..m - 1
      <4>1. t.node[o].key \in Keys BY <1>2, <3>1 DEF NodeSet, Entries
      <4> HIDE DEF o
      <4> QED BY <1>1, <4>1, HomeIn DEF m
    <3>4. p # mp BY <1>25, <3>1
    <3> HIDE DEF p, o
    <3>5. p # n BY <1>5, <3>2
    <3>6. i \in Chain(u, p)
      <4>1. CASE i = n BY <1>23, <1>26, <3>2, <3>3, <3>4, <3>5, <4>1 DEF o
      <4>2. CASE i # n BY <1>20, <1>23, <2>2, <3>2, <3>3, <3>4, <3>5, <4>2 DEF o
      <4> QED BY <4>1, <4>2
    <3>7. u.node[p].key = t.node[p].key BY <1>20, <3>3, <3>4, <3>5 DEF Alike
    <3> QED BY <1>18, <3>1, <3>2, <3>6, <3>7 DEF p
  <2> QED BY <2>1, <2>2
<1>30. LiveOnce(u)
  <2> SUFFICES ASSUME NEW i \in 0..m - 1, NEW j \in 0..m - 1, u.node[i].key # Nil, u.node[i].key = u.node[j].key,
                      u.node[i].tt = "live", u.node[j].tt = "live"
               PROVE  i = j
    BY <1>14 DEF LiveOnce
  <2>1. CASE i # mp /\ j # mp
    <3>1. Alike(u.node[i], t.node[From(i)]) /\ Alike(u.node[j], t.node[From(j)])
          /\ From(i) \in 0..m - 1 /\ From(j) \in 0..m - 1 BY <1>20, <2>1
    <3>2. From(i) = From(j) BY <1>1, <1>2, <3>1 DEF LiveOnce, Alike
    <3> QED BY <2>1, <3>2 DEF From
  <2>2. CASE i = mp /\ j # mp
    <3>1. Alike(u.node[j], t.node[From(j)]) /\ From(j) \in 0..m - 1 BY <1>20, <2>2
    <3> QED BY <1>2, <1>20, <1>24, <2>2, <3>1 DEF LiveAt, Alike
  <2>3. CASE i # mp /\ j = mp
    <3>1. Alike(u.node[i], t.node[From(i)]) /\ From(i) \in 0..m - 1 BY <1>20, <2>3
    <3> QED BY <1>2, <1>20, <1>24, <2>3, <3>1 DEF LiveAt, Alike
  <2> QED BY <2>1, <2>2, <2>3
<1>31. LiveFirst(u)
  <2> SUFFICES ASSUME NEW i \in 0..m - 1, NEW j \in 0..m - 1, u.node[i].key # Nil, u.node[i].key = u.node[j].key,
                      u.node[i].tt = "live", u.node[j].tt = "dead", i \in Chain(u, j)
               PROVE  FALSE
    BY <1>14 DEF LiveFirst
  <2>1. j # mp /\ j # n BY <1>6, <1>14, <1>20
  <2>2. Alike(u.node[j], t.node[j]) BY <1>20, <2>1
  <2>3. CASE i = mp
    <3>1. t.node[j].key = key BY <1>20, <2>2, <2>3 DEF Alike
    <3> QED BY <1>24, <1>25, <3>1
  <2>4. CASE i # mp
    <3>1. Alike(u.node[i], t.node[From(i)]) /\ From(i) \in 0..m - 1 BY <1>20, <2>4
    <3>2. From(i) \in Chain(t, j)
      <4>1. CASE i = n
        <5>1. n \notin Chain(t, j) BY <1>1, <1>2, <1>5, <2>1, ChainWithout DEF Chain, Straight, Loose
        <5> QED BY <1>23, <1>26, <2>1, <4>1, <5>1
      <4>2. CASE i # n BY <1>20, <1>23, <2>1, <2>4, <4>2
      <4> QED BY <4>1, <4>2
    <3> QED BY <1>1, <1>2, <2>2, <3>1, <3>2 DEF LiveFirst, Alike
  <2> QED BY <2>3, <2>4
<1>32. ArrayPart(u)
  <2>1. ASSUME NEW i \in 0..m - 1, u.node[i].key # Nil, u.node[i].key[1] = "num"
        PROVE u.node[i].key[2] \notin DOMAIN u.array
    <3>1. CASE i = mp BY <1>13, <1>20, <1>24, <2>1, <3>1 DEF InArray
    <3>2. CASE i # mp
      <4>1. Alike(u.node[i], t.node[From(i)]) /\ From(i) \in 0..m - 1 BY <1>20, <3>2
      <4> QED BY <1>1, <1>2, <1>13, <2>1, <4>1 DEF ArrayPart, Alike
    <3> QED BY <3>1, <3>2
  <2>2. \A j \in DOMAIN u.array : u.array[j] # Nil => Num(j) \in Keys BY <1>1, <1>13 DEF ArrayPart
  <2> QED BY <1>14, <2>1, <2>2 DEF ArrayPart
<1>33. DummyNode(u) BY <1>19 DEF DummyNode
<1>34. Table(u)
  <2>1. Straight(SizeNode(u), Links(u)) BY <1>17, <1>22
  <2>2. u.lastfree <= SizeNode(u) BY <1>2, <1>5, <1>13, <1>17
  <2> QED BY <1>16, <1>27, <1>28, <1>29, <1>30, <1>31, <1>32, <1>33, <2>1, <2>2 DEF Table
<1>35. LiveAt(u, mp, key) /\ u.node[mp].val = Nil BY <1>3, <1>14, <1>20 DEF LiveAt
<1>36. \A j \in DOMAIN u.node : j # mp /\ u.node[j].key # Nil => \E o \in DOMAIN t.node : Alike(u.node[j], t.node[o])
  BY <1>2, <1>14, <1>20
<1>37. \A o \in DOMAIN t.node : t.node[o].val # Nil => \E j \in DOMAIN u.node : j # mp /\ Alike(u.node[j], t.node[o])
  <2> SUFFICES ASSUME NEW o \in DOMAIN t.node, t.node[o].val # Nil
               PROVE  \E j \in DOMAIN u.node : j # mp /\ Alike(u.node[j], t.node[o])
    OBVIOUS
  <2>1. o # n BY <1>1, <1>5 DEF FreeNodes
  <2>2. CASE o = mp
    <3>1. Alike(u.node[n], t.node[mp]) BY <1>14 DEF Alike
    <3> QED BY <1>5, <1>6, <1>14, <2>2, <3>1
  <2>3. CASE o # mp BY <1>2, <1>14, <1>20, <2>1, <2>3
  <2> QED BY <2>2, <2>3
<1>39. Made(t, u, key, mp) BY <1>13, <1>17, <1>34, <1>35, <1>36, <1>37 DEF Made, m
<1> QED BY <1>39 DEF u, prev

----------------------------------------------------------------------------
(* Keys that keep their places.                                              *)
\* Place makes a node for a key, in each of its cases.
LEMMA PlaceKeeps ==
    ASSUME NEW t, Table(t), NEW key \in Keys, luaH_get(t, key) = Nowhere, HasRoom(t, key)
    PROVE  \E i : Place(t, key).at = <<"node", i>> /\ Made(t, Place(t, key).t, key, i)
<1> DEFINE mp == mainposition(t, key)
           n == getfreepos(t)
           othern == mainposition(t, t.node[mp].key)
           u1 == [t EXCEPT !.node[mp] = Node(key, Nil, t.node[mp].next)]
           u2 == [t EXCEPT !.node = [t.node EXCEPT ![Previous(t, othern, mp)].next = n, ![n] = t.node[mp],
                                                   ![mp] = Node(key, Nil, NoNode)], !.lastfree = n]
           u3 == [t EXCEPT !.node = [t.node EXCEPT ![n] = Node(key, Nil, t.node[mp].next), ![mp].next = n], !.lastfree = n]
<1>1. Place(t, key) = IF t.node[mp].val = Nil /\ ~t.dummy THEN [t |-> u1, at |-> <<"node", mp>>]
                      ELSE IF othern # mp THEN [t |-> u2, at |-> <<"node", mp>>]
                      ELSE [t |-> u3, at |-> <<"node", n>>]
  BY DEF Place
<1>2. CASE t.node[mp].val = Nil /\ ~t.dummy
  <2>1. Made(t, u1, key, mp) BY <1>2, PlacedAtHome
  <2> HIDE DEF u1, u2, u3, n, mp, othern
  <2>2. Place(t, key) = [t |-> u1, at |-> <<"node", mp>>] BY <1>1, <1>2
  <2> QED BY <2>1, <2>2
<1>3. CASE ~(t.node[mp].val = Nil /\ ~t.dummy)
  <2>1. n # NoNode BY <1>3 DEF HasRoom
  <2>2. ~t.dummy BY <2>1, FreeFound
  <2>3. t.node[mp].val # Nil BY <1>3, <2>2
  <2>4. CASE othern # mp
    <3>1. Made(t, u2, key, mp) BY <2>1, <2>3, <2>4, PlacedMoving
    <3> HIDE DEF u1, u2, u3, n, mp, othern
    <3>2. Place(t, key) = [t |-> u2, at |-> <<"node", mp>>] BY <1>1, <1>3, <2>4
    <3> QED BY <3>1, <3>2
  <2>5. CASE othern = mp
    <3>1. Made(t, u3, key, n) BY <2>1, <2>3, <2>5, PlacedAfter
    <3> HIDE DEF u1, u2, u3, n, mp, othern
    <3>2. Place(t, key) = [t |-> u3, at |-> <<"node", n>>] BY <1>1, <1>3, <2>5
    <3> QED BY <3>1, <3>2
  <2> QED BY <2>4, <2>5
<1> QED BY <1>2, <1>3

\* A node made for a key leaves every value what it was.
LEMMA MadeValues ==
    ASSUME NEW t, Table(t), NEW u, NEW key \in Keys, luaH_get(t, key) = Nowhere, NEW i, Made(t, u, key, i)
    PROVE  luaH_get(u, key) = <<"node", i>> /\ \A k \in Keys : Value(u, k) = Value(t, k)
<1>1. Table(u) /\ u.array = t.array /\ LiveAt(u, i, key) /\ u.node[i].val = Nil BY DEF Made
<1>2. luaH_get(u, key) = <<"node", i>> BY <1>1, GetNode
<1>3. Value(u, key) = Value(t, key)
  <2>1. Value(u, key) = Nil BY <1>1, ValueFacts
  <2>2. Value(t, key) = Nil BY ValueFacts
  <2> QED BY <2>1, <2>2
<1>4. ASSUME NEW k \in Keys, k # key PROVE Value(u, k) = Value(t, k)
  <2>1. ASSUME NEW o, LiveAt(t, o, k), t.node[o].val # Nil
        PROVE  \E j : LiveAt(u, j, k) /\ u.node[j].val = t.node[o].val
    <3>1. PICK j \in DOMAIN u.node : j # i /\ Alike(u.node[j], t.node[o]) BY <2>1 DEF Made, LiveAt
    <3> QED BY <2>1, <3>1 DEF LiveAt, Alike
  <2>2. ASSUME NEW j, LiveAt(u, j, k), u.node[j].val # Nil
        PROVE  \E o : LiveAt(t, o, k) /\ u.node[j].val = t.node[o].val
    <3>1. j # i /\ j \in DOMAIN u.node /\ u.node[j].key # Nil BY <1>1, <1>4, <2>2, KeyKinds DEF LiveAt
    <3>2. PICK o \in DOMAIN t.node : Alike(u.node[j], t.node[o]) BY <3>1 DEF Made
    <3> QED BY <2>2, <3>2 DEF LiveAt, Alike
  <2> QED BY <1>1, <2>1, <2>2, SameValue
<1> QED BY <1>2, <1>3, <1>4

\* at is the place of a key in u, which is t but for a node made for it.
Ready(t, u, key, at) ==
  /\ Table(u) /\ u.array = t.array /\ u.flags = t.flags /\ u.dummy = t.dummy /\ SizeNode(u) = SizeNode(t)
  /\ at = luaH_get(u, key) /\ at # Nowhere
  /\ \A k \in Keys : Value(u, k) = Value(t, k)
  /\ \A j \in DOMAIN u.node : u.node[j].key # Nil /\ at # <<"node", j>> => \E o \in DOMAIN t.node : Alike(u.node[j], t.node[o])

\* Place makes a key ready, ...
LEMMA PlaceReady ==
    ASSUME NEW t, Table(t), NEW key \in Keys, luaH_get(t, key) = Nowhere, HasRoom(t, key)
    PROVE  Ready(t, Place(t, key).t, key, Place(t, key).at)
<1>1. PICK i : Place(t, key).at = <<"node", i>> /\ Made(t, Place(t, key).t, key, i) BY PlaceKeeps
<1> DEFINE u == Place(t, key).t
           at == Place(t, key).at
<1> HIDE DEF u, at
<1>2. at = <<"node", i>> /\ Made(t, u, key, i) BY <1>1 DEF u, at
<1>3. luaH_get(u, key) = <<"node", i>> /\ \A k \in Keys : Value(u, k) = Value(t, k) BY <1>2, MadeValues
<1>4. at # Nowhere BY <1>2, Places
<1>5. Ready(t, u, key, at) BY <1>2, <1>3, <1>4 DEF Made, Ready
<1> QED BY <1>5 DEF u, at

\* ... and so does finding it.
LEMMA SlotReady ==
    ASSUME NEW t, Table(t), NEW key \in Keys, luaH_get(t, key) # Nowhere \/ HasRoom(t, key)
    PROVE  Ready(t, Slot(t, key).t, key, Slot(t, key).at)
<1>1. CASE luaH_get(t, key) # Nowhere
  <2>1. Slot(t, key) = [t |-> t, at |-> luaH_get(t, key)] BY <1>1 DEF Slot
  <2>2. \A j \in DOMAIN t.node : Alike(t.node[j], t.node[j]) BY DEF Alike
  <2>3. Ready(t, t, key, luaH_get(t, key)) BY <1>1, <2>2 DEF Ready
  <2> QED BY <2>1, <2>3
<1>2. CASE luaH_get(t, key) = Nowhere
  <2>1. Slot(t, key) = Place(t, key) BY <1>2 DEF Slot
  <2> QED BY <1>2, <2>1, PlaceReady
<1> QED BY <1>1, <1>2

----------------------------------------------------------------------------
NodeKept(a, b) ==
  /\ b.key = a.key /\ b.next = a.next
  /\ b.tt = a.tt \/ (b.tt = "dead" /\ b.val = Nil /\ a.key # Nil /\ a.key[1] = "str")
  /\ b.val # Nil => a.key # Nil /\ a.tt = "live"

\* u has the keys and links of t; a value may have changed, and entries
\* without one may have lost their keys.
ShapeKept(t, u) ==
  /\ u \in TableSet /\ DOMAIN u.node = DOMAIN t.node /\ DOMAIN u.array = DOMAIN t.array
  /\ u.lastfree = t.lastfree /\ u.dummy = t.dummy
  /\ \A i \in DOMAIN t.node : NodeKept(t.node[i], u.node[i])
  /\ \A j \in DOMAIN u.array : u.array[j] # Nil => Num(j) \in Keys

\* With the links go the chains and the main positions.
LEMMA ShapeLinks ==
    ASSUME NEW t, NEW u, ShapeKept(t, u)
    PROVE  /\ SizeNode(u) = SizeNode(t) /\ Links(u) = Links(t)
           /\ (\A n : Chain(u, n) = Chain(t, n)) /\ \A k : mainposition(u, k) = mainposition(t, k)
<1>1. SizeNode(u) = SizeNode(t) BY DEF ShapeKept, NodeKept, SizeNode
<1>2. Links(u) = Links(t)
  <2>1. DOMAIN u.node = DOMAIN t.node /\ \A i \in DOMAIN t.node : u.node[i].next = t.node[i].next BY DEF ShapeKept, NodeKept
  <2> QED BY <2>1 DEF Links
<1> QED BY <1>1, <1>2 DEF Chain, mainposition

\* A table of the same shape is one.
LEMMA ShapeTable ==
    ASSUME NEW t, Table(t), NEW u, ShapeKept(t, u)
    PROVE  Table(u)
<1>1. /\ SizeNode(u) = SizeNode(t) /\ Links(u) = Links(t)
      /\ (\A n : Chain(u, n) = Chain(t, n)) /\ \A k : mainposition(u, k) = mainposition(t, k)
  BY ShapeLinks
<1>2. /\ t \in TableSet /\ t.lastfree <= SizeNode(t) /\ Straight(SizeNode(t), Links(t)) /\ FreeNodes(t) /\ DeadNodes(t)
      /\ Reached(t) /\ LiveOnce(t) /\ LiveFirst(t) /\ ArrayPart(t) /\ DummyNode(t)
  BY DEF Table
<1> DEFINE N == DOMAIN t.node
<1>3. DOMAIN u.node = N /\ u \in TableSet /\ u.lastfree = t.lastfree /\ u.dummy = t.dummy /\ DOMAIN u.array = DOMAIN t.array
  BY DEF ShapeKept, NodeKept
<1>4. \A i \in N :
       /\ u.node[i].key = t.node[i].key /\ u.node[i].next = t.node[i].next
       /\ u.node[i].tt = t.node[i].tt
          \/ (u.node[i].tt = "dead" /\ u.node[i].val = Nil /\ t.node[i].key # Nil /\ t.node[i].key[1] = "str")
       /\ u.node[i].val # Nil => t.node[i].key # Nil /\ t.node[i].tt = "live"
  <2>1. \A i \in N : NodeKept(t.node[i], u.node[i]) BY DEF ShapeKept
  <2> HIDE DEF N
  <2>2. ASSUME NEW i \in N
        PROVE /\ u.node[i].key = t.node[i].key /\ u.node[i].next = t.node[i].next
              /\ u.node[i].tt = t.node[i].tt
                 \/ (u.node[i].tt = "dead" /\ u.node[i].val = Nil /\ t.node[i].key # Nil /\ t.node[i].key[1] = "str")
              /\ u.node[i].val # Nil => t.node[i].key # Nil /\ t.node[i].tt = "live"
    <3>1. NodeKept(t.node[i], u.node[i]) BY <2>1
    <3> QED BY <3>1 DEF NodeKept
  <2> QED BY <2>2
<1>5. N = 0..SizeNode(t) - 1 /\ \A i \in N : t.node[i] \in NodeSet /\ u.node[i] \in NodeSet BY <1>1, <1>2, <1>3, TableNodes
<1>6. \A i \in N : t.node[i].next # NoNode => t.node[i].next \in N
  <2>1. \A i \in N : Links(t)[i] \in -1..SizeNode(t) - 1 /\ Links(t)[i] = t.node[i].next
    BY <1>2, <1>5, LinksOf DEF Straight, LinkSet
  <2>2. SizeNode(t) \in Nat BY <1>2, TableNodes
  <2> HIDE DEF N
  <2> QED BY <1>5, <2>1, <2>2 DEF NoNode
<1> HIDE DEF N
<1>7. FreeNodes(u)
  <2>1. ASSUME NEW i \in N PROVE u.node[i].next # NoNode => u.node[u.node[i].next].key # Nil
    BY <1>2, <1>4, <1>6 DEF FreeNodes, N
  <2>2. ASSUME NEW i \in N, u.node[i].key = Nil
        PROVE u.node[i].next = NoNode /\ u.node[i].val = Nil /\ u.node[i].tt = "live"
    BY <1>2, <1>4, <2>2 DEF FreeNodes, N
  <2>3. ASSUME NEW i \in N, u.lastfree <= i PROVE u.node[i].key # Nil \/ u.dummy
    <3>1. t.node[i].key # Nil \/ t.dummy BY <1>2, <1>3, <2>3 DEF FreeNodes, N
    <3> QED BY <1>3, <1>4, <3>1
  <2> QED BY <1>3, <2>1, <2>2, <2>3 DEF FreeNodes
<1>8. DeadNodes(u) BY <1>2, <1>3, <1>4 DEF DeadNodes, N
<1>9. Reached(u)
  <2> SUFFICES ASSUME NEW i \in N, u.node[i].key # Nil
               PROVE  LET p == mainposition(u, u.node[i].key)
                      IN i \in Chain(u, p) /\ u.node[p].key # Nil /\ mainposition(u, u.node[p].key) = p
    BY <1>3 DEF Reached
  <2> DEFINE p == mainposition(t, t.node[i].key)
  <2>1. u.node[i].key = t.node[i].key BY <1>4
  <2>2. i \in Chain(t, p) /\ t.node[p].key # Nil /\ mainposition(t, t.node[p].key) = p
    BY <1>2, <2>1 DEF Reached, N
  <2>3. p \in N
    <3>1. t.node[i].key \in Keys BY <1>5, <2>1 DEF NodeSet, Entries
    <3> QED BY <1>2, <1>5, <3>1, HomeIn
  <2> HIDE DEF p
  <2>4. u.node[p].key = t.node[p].key BY <1>4, <2>3
  <2> QED BY <1>1, <2>1, <2>2, <2>4 DEF p
<1>10. LiveOnce(u) BY <1>2, <1>3, <1>4 DEF LiveOnce, N
<1>11. LiveFirst(u)
  <2> SUFFICES ASSUME NEW i \in N, NEW j \in N, u.node[i].key # Nil, u.node[i].key = u.node[j].key,
                      u.node[i].tt = "live", u.node[j].tt = "dead"
               PROVE  i \notin Chain(u, j)
    BY <1>3 DEF LiveFirst
  <2>1. t.node[i].tt = "live" /\ t.node[i].key # Nil /\ t.node[i].key = t.node[j].key BY <1>4
  <2>2. t.node[j].tt \in {"live", "dead"} BY <1>5 DEF NodeSet
  <2>3. t.node[j].tt = "dead"
    <3>1. ASSUME t.node[j].tt = "live" PROVE FALSE
      <4>1. i = j BY <1>2, <2>1, <3>1 DEF LiveOnce, N
      <4> QED BY <4>1
    <3> QED BY <2>2, <3>1
  <2> QED BY <1>1, <1>2, <2>1, <2>3 DEF LiveFirst, N
<1>12. ArrayPart(u)
  <2>1. \A j \in DOMAIN u.array : u.array[j] # Nil => Num(j) \in Keys BY DEF ShapeKept, NodeKept
  <2>2. \A i \in N : u.node[i].key # Nil /\ u.node[i].key[1] = "num" => u.node[i].key[2] \notin DOMAIN u.array
    BY <1>2, <1>3, <1>4 DEF ArrayPart, N
  <2> QED BY <1>3, <2>1, <2>2 DEF ArrayPart
<1>13. DummyNode(u)
  <2>1. ASSUME u.dummy PROVE DOMAIN u.node = {0} /\ u.node[0].key = Nil /\ u.lastfree = 0
    <3>1. t.dummy BY <1>3, <2>1
    <3>2. N = {0} /\ t.node[0].key = Nil /\ t.lastfree = 0 BY <1>2, <3>1 DEF DummyNode, N
    <3> QED BY <1>3, <1>4, <3>2
  <2> QED BY <2>1 DEF DummyNode
<1> QED BY <1>1, <1>2, <1>3, <1>7, <1>8, <1>9, <1>10, <1>11, <1>12, <1>13 DEF Table

\* Ranges tell their ends.
LEMMA SameLen ==
    ASSUME NEW a \in Nat, NEW b \in Nat, 1..a = 1..b
    PROVE  a = b
<1>1. CASE a < b
  <2>1. b \in 1..b /\ b \notin 1..a BY <1>1
  <2> QED BY <2>1
<1>2. CASE b < a
  <2>1. a \in 1..a /\ a \notin 1..b BY <1>2
  <2> QED BY <2>1
<1> QED BY <1>1, <1>2

\* A key a traversal has met keeps its number.
LEMMA ShapeIndex ==
    ASSUME NEW t, Table(t), NEW u, ShapeKept(t, u), NEW key \in Entries
    PROVE  findindex(u, key) = findindex(t, key)
<1>1. /\ (\A n : Chain(u, n) = Chain(t, n)) /\ \A k : mainposition(u, k) = mainposition(t, k)
  BY ShapeLinks
<1>2. CASE key = Nil BY <1>2 DEF findindex
<1>3. CASE key # Nil
  <2> DEFINE mp == mainposition(t, key)
             A == {x \in Chain(t, mp) : t.node[x].key = key /\ (TRUE \/ t.node[x].tt = "live")}
             B == {x \in Chain(u, mp) : u.node[x].key = key /\ (TRUE \/ u.node[x].tt = "live")}
  <2>1. key \in Keys BY <1>3 DEF Entries
  <2>2. Chain(t, mp) \subseteq DOMAIN t.node
    <3>1. t \in TableSet /\ Links(t) \in LinkSet(SizeNode(t)) BY DEF Table, Straight
    <3> QED BY <2>1, <3>1, HomeIn, ChainStart, TableNodes DEF Chain
  <2>3. A = B BY <1>1, <2>2 DEF ShapeKept, NodeKept
  <2> DEFINE First(L, S) == CHOOSE x \in S : S \subseteq ChainOf(L, x)
  <2>4. InChain(t, mp, key, TRUE) = IF A = {} THEN Nowhere ELSE <<"node", First(Links(t), A)>>
    BY DEF InChain, Chain
  <2>5. InChain(u, mp, key, TRUE) = IF B = {} THEN Nowhere ELSE <<"node", First(Links(u), B)>>
    BY DEF InChain, Chain
  <2>6. InChain(u, mp, key, TRUE) = InChain(t, mp, key, TRUE)
    <3>1. Links(u) = Links(t) BY ShapeLinks
    <3> DEFINE X == InChain(t, mp, key, TRUE)
               Y == InChain(u, mp, key, TRUE)
               a == First(Links(t), A)
               b == First(Links(u), B)
    <3>2. a = b
      <4> HIDE DEF A, B, First
      <4> QED BY <2>3, <3>1
    <3>3. (X = IF A = {} THEN Nowhere ELSE <<"node", a>>) /\ (Y = IF B = {} THEN Nowhere ELSE <<"node", b>>)
      BY <2>4, <2>5
    <3> HIDE DEF A, B, First, mp, X, Y, a, b
    <3>4. X = Y BY <2>3, <3>2, <3>3
    <3> QED BY <3>4 DEF X, Y
  <2>7. DOMAIN u.array = DOMAIN t.array /\ Len(u.array) = Len(t.array)
    <3>1. DOMAIN u.array = DOMAIN t.array /\ u.array \in Seq(Entries) /\ t.array \in Seq(Entries)
      BY DEF ShapeKept, NodeKept, Table, TableSet
    <3>2. DOMAIN u.array = 1..Len(u.array) /\ DOMAIN t.array = 1..Len(t.array)
          /\ Len(u.array) \in Nat /\ Len(t.array) \in Nat BY <3>1
    <3> QED BY <3>1, <3>2, SameLen
  <2>8. mainposition(u, key) = mp BY <1>1
  <2> HIDE DEF mp
  <2> QED BY <1>1, <2>6, <2>7, <2>8 DEF findindex, mp
<1> QED BY <1>2, <1>3

\* When no entry lost its key, keys are where they were.
LEMMA ShapeGet ==
    ASSUME NEW t, Table(t), NEW u, ShapeKept(t, u), \A i \in DOMAIN t.node : u.node[i].tt = t.node[i].tt, NEW key \in Keys
    PROVE  luaH_get(u, key) = luaH_get(t, key)
<1>1. Table(u) /\ DOMAIN u.node = DOMAIN t.node /\ DOMAIN u.array = DOMAIN t.array BY ShapeTable DEF ShapeKept, NodeKept
<1>2. InArray(t, key) <=> InArray(u, key) BY <1>1 DEF InArray
<1>3. \A i : LiveAt(t, i, key) <=> LiveAt(u, i, key)
  <2>1. \A i \in DOMAIN t.node : u.node[i].key = t.node[i].key BY DEF ShapeKept, NodeKept
  <2> QED BY <1>1, <2>1 DEF LiveAt
<1>4. CASE InArray(t, key) BY <1>2, <1>4, GetArray
<1>5. CASE ~InArray(t, key) /\ \E i : LiveAt(t, i, key) BY <1>1, <1>3, <1>5, GetNode
<1>6. CASE ~InArray(t, key) /\ ~\E i : LiveAt(t, i, key)
  <2>1. luaH_get(t, key) = Nowhere BY <1>6, GetNowhere
  <2>2. luaH_get(u, key) = Nowhere BY <1>1, <1>2, <1>3, <1>6, GetNowhere
  <2> QED BY <2>1, <2>2
<1> QED BY <1>4, <1>5, <1>6

----------------------------------------------------------------------------
(* Values stored, and entries inserted again.                                *)
\* The outcomes of luaH_get.
LEMMA GetCases ==
    ASSUME NEW t, Table(t), NEW key \in Keys
    PROVE  \/ luaH_get(t, key) = Nowhere /\ ~InArray(t, key) /\ \A i : ~LiveAt(t, i, key)
           \/ luaH_get(t, key) = <<"array", key[2]>> /\ InArray(t, key)
           \/ \E i : luaH_get(t, key) = <<"node", i>> /\ LiveAt(t, i, key) /\ ~InArray(t, key)
<1>1. CASE InArray(t, key) BY <1>1, GetArray
<1>2. CASE \E i : LiveAt(t, i, key) BY <1>2, GetNode
<1>3. CASE ~InArray(t, key) /\ ~\E i : LiveAt(t, i, key) BY <1>3, GetNowhere
<1> QED BY <1>1, <1>2, <1>3

\* Only entries that are alive have values.
LEMMA ValuesLive ==
    ASSUME NEW t, Table(t), NEW i \in DOMAIN t.node, t.node[i].val # Nil
    PROVE  t.node[i].key # Nil /\ t.node[i].key \in Keys /\ t.node[i].tt = "live"
<1>1. t.node[i] \in NodeSet BY TableNodes DEF Table
<1>2. t.node[i].key \in Entries /\ t.node[i].tt \in {"live", "dead"} BY <1>1 DEF NodeSet
<1>3. t.node[i].key # Nil BY DEF Table, FreeNodes
<1>4. t.node[i].tt # "dead" BY DEF Table, DeadNodes
<1> QED BY <1>2, <1>3, <1>4 DEF Entries

\* The flags play no part in any of this.
LEMMA FlagsKept ==
    ASSUME NEW t, Table(t), NEW F \in SUBSET Events
    PROVE  /\ ShapeKept(t, [t EXCEPT !.flags = F]) /\ Table([t EXCEPT !.flags = F])
           /\ [t EXCEPT !.flags = F].flags = F
           /\ [t EXCEPT !.flags = F].node = t.node /\ [t EXCEPT !.flags = F].array = t.array
           /\ [t EXCEPT !.flags = F].dummy = t.dummy
           /\ \A k \in Keys : luaH_get([t EXCEPT !.flags = F], k) = luaH_get(t, k)
                              /\ Value([t EXCEPT !.flags = F], k) = Value(t, k)
<1> DEFINE u == [t EXCEPT !.flags = F]
<1>1. t \in TableSet /\ ArrayPart(t) BY DEF Table
<1>2. /\ u \in TableSet /\ u.node = t.node /\ u.array = t.array /\ u.lastfree = t.lastfree /\ u.dummy = t.dummy
      /\ u.flags = F
  BY <1>1 DEF TableSet
<1> HIDE DEF u
<1>3. ShapeKept(t, u)
  <2>1. \A i \in DOMAIN t.node : t.node[i].val # Nil => t.node[i].key # Nil /\ t.node[i].tt = "live" BY ValuesLive
  <2>2. \A j \in DOMAIN t.array : t.array[j] # Nil => Num(j) \in Keys BY <1>1 DEF ArrayPart
  <2>3. u.dummy = t.dummy BY <1>2
  <2>4. \A i \in DOMAIN t.node :
         /\ u.node[i].key = t.node[i].key /\ u.node[i].next = t.node[i].next
         /\ u.node[i].tt = t.node[i].tt
         /\ u.node[i].val # Nil => t.node[i].key # Nil /\ t.node[i].tt = "live"
    BY <1>2, <2>1
  <2>5. u \in TableSet /\ DOMAIN u.node = DOMAIN t.node /\ DOMAIN u.array = DOMAIN t.array
        /\ u.lastfree = t.lastfree
    BY <1>2
  <2>6. \A j \in DOMAIN u.array : u.array[j] # Nil => Num(j) \in Keys BY <1>2, <2>2
  <2>7. \A i \in DOMAIN t.node : NodeKept(t.node[i], u.node[i]) BY <2>4 DEF NodeKept
  <2> QED BY <2>3, <2>5, <2>6, <2>7 DEF ShapeKept
<1>4. Table(u) BY <1>3, ShapeTable
<1>5. ASSUME NEW k \in Keys PROVE luaH_get(u, k) = luaH_get(t, k) /\ Value(u, k) = Value(t, k)
  <2>1. luaH_get(u, k) = luaH_get(t, k) BY <1>2, <1>3, ShapeGet
  <2> QED BY <1>2, <2>1 DEF Value, ValueAt
<1> QED BY <1>2, <1>3, <1>4, <1>5 DEF u

\* Storing a value changes the one entry.
LEMMA StoreKeeps ==
    ASSUME NEW t, Table(t), NEW key \in Keys, NEW at, at = luaH_get(t, key), at # Nowhere, NEW v \in Entries
    PROVE  /\ ShapeKept(t, Store(t, at, v)) /\ Table(Store(t, at, v)) /\ Store(t, at, v).flags = t.flags
           /\ \A k \in Keys : luaH_get(Store(t, at, v), k) = luaH_get(t, k)
           /\ Value(Store(t, at, v), key) = v
           /\ \A k \in Keys : k # key => Value(Store(t, at, v), k) = Value(t, k)
           /\ \A j \in DOMAIN t.node : at # <<"node", j>> => Store(t, at, v).node[j] = t.node[j]
           /\ \A j \in DOMAIN t.node : at = <<"node", j>> =>
                Store(t, at, v).node[j].key = key /\ Store(t, at, v).node[j].val = v
<1> DEFINE u == Store(t, at, v)
<1>1. t \in TableSet /\ ArrayPart(t) BY DEF Table
<1>2. t.node \in [0..SizeNode(t) - 1 -> NodeSet] /\ SizeNode(t) \in Nat \ {0} /\ t.array \in Seq(Entries)
  BY <1>1, TableNodes DEF TableSet
<1>3. CASE InArray(t, key)
  <2> DEFINE j == key[2]
  <2>1. at = <<"array", j>> /\ at[1] = "array" /\ at[2] = j BY <1>3, GetArray
  <2>2. u = [t EXCEPT !.array[j] = v] BY <2>1 DEF Store
  <2>3. j \in DOMAIN t.array /\ Num(j) \in Keys BY <1>3, KeyKinds DEF InArray
  <2>4. [t.array EXCEPT ![j] = v] \in Seq(Entries) BY <1>2, <2>3
  <2>5. /\ u.array = [t.array EXCEPT ![j] = v] /\ u.node = t.node /\ u.lastfree = t.lastfree /\ u.dummy = t.dummy
        /\ u.flags = t.flags
    BY <1>1, <2>2 DEF TableSet
  <2>6. u \in TableSet BY <1>1, <2>2, <2>4 DEF TableSet
  <2> HIDE DEF u, j
  <2>7. \A i \in DOMAIN t.array : i # j => u.array[i] = t.array[i] BY <2>5
  <2>8. u.array[j] = v /\ DOMAIN u.array = DOMAIN t.array BY <2>3, <2>5
  <2>9. \A i \in DOMAIN u.array : u.array[i] # Nil => Num(i) \in Keys BY <1>1, <2>3, <2>7, <2>8 DEF ArrayPart
  <2>10. ShapeKept(t, u)
    <3>1. \A i \in DOMAIN t.node : t.node[i].val # Nil => t.node[i].key # Nil /\ t.node[i].tt = "live" BY ValuesLive
    <3>2. \A i \in DOMAIN t.node :
           /\ u.node[i].key = t.node[i].key /\ u.node[i].next = t.node[i].next
           /\ u.node[i].tt = t.node[i].tt
           /\ u.node[i].val # Nil => t.node[i].key # Nil /\ t.node[i].tt = "live"
      BY <2>5, <3>1
    <3>3. u.dummy = t.dummy BY <2>5
    <3>4. DOMAIN u.node = DOMAIN t.node /\ u.lastfree = t.lastfree BY <2>5
    <3>5. \A i \in DOMAIN t.node : NodeKept(t.node[i], u.node[i]) BY <3>2 DEF NodeKept
    <3>6. DOMAIN u.array = DOMAIN t.array BY <2>8
    <3> QED BY <2>6, <2>9, <3>3, <3>4, <3>5, <3>6 DEF ShapeKept
  <2>11. Table(u) BY <2>10, ShapeTable
  <2>12. \A k \in Keys : luaH_get(u, k) = luaH_get(t, k) BY <2>5, <2>10, ShapeGet
  <2>13. Value(u, key) = v
    <3>1. InArray(u, key) BY <1>3, <2>8 DEF InArray
    <3> QED BY <2>8, <2>11, <3>1, ValueFacts DEF j
  <2>14. ASSUME NEW k \in Keys, k # key PROVE Value(u, k) = Value(t, k)
    <3>1. CASE InArray(t, k)
      <4>1. k[2] # j /\ k[2] \in DOMAIN t.array BY <1>3, <2>14, <3>1, KeyKinds DEF InArray, j
      <4>2. InArray(u, k) BY <2>8, <3>1 DEF InArray
      <4>3. u.array[k[2]] = t.array[k[2]] BY <2>7, <4>1
      <4> QED BY <2>11, <3>1, <4>2, <4>3, ValueFacts
    <3>2. CASE ~InArray(t, k)
      <4>1. ~InArray(u, k) BY <2>8, <3>2 DEF InArray
      <4>2. \A i : LiveAt(u, i, k) <=> LiveAt(t, i, k) BY <2>5 DEF LiveAt
      <4> QED BY <2>5, <2>11, <3>2, <4>1, <4>2, ValueFacts
    <3> QED BY <3>1, <3>2
  <2>15. \A i : at # <<"node", i>> BY <2>1, Places
  <2> QED BY <2>5, <2>10, <2>11, <2>12, <2>13, <2>14, <2>15 DEF u
<1>4. CASE ~InArray(t, key)
  <2>1. PICK i : at = <<"node", i>> /\ LiveAt(t, i, key) BY <1>4, GetCases
  <2>2. at[1] # "array" /\ at[2] = i BY <2>1
  <2>3. u = [t EXCEPT !.node[i].val = v] BY <2>2 DEF Store
  <2>4. i \in 0..SizeNode(t) - 1 /\ t.node[i].key = key /\ t.node[i].tt = "live" /\ DOMAIN t.node = 0..SizeNode(t) - 1
    BY <1>2, <2>1 DEF LiveAt
  <2>5. t.node[i] \in NodeSet BY <1>2, <2>4
  <2>6. [t.node[i] EXCEPT !.val = v] \in NodeSet BY <2>5 DEF NodeSet
  <2>7. /\ u.node = [t.node EXCEPT ![i].val = v] /\ u.array = t.array /\ u.lastfree = t.lastfree /\ u.dummy = t.dummy
        /\ u.flags = t.flags
    BY <1>1, <2>3 DEF TableSet
  <2>8. u.node[i] = [t.node[i] EXCEPT !.val = v] /\ DOMAIN u.node = DOMAIN t.node
        /\ \A j \in DOMAIN t.node : j # i => u.node[j] = t.node[j]
    BY <2>4, <2>7
  <2>9. u.node[i].val = v /\ u.node[i].key = key /\ u.node[i].tt = "live" /\ u.node[i].next = t.node[i].next
    BY <2>4, <2>5, <2>8 DEF NodeSet
  <2>10. u.node \in NodeArrays
    <3>1. u.node \in [0..SizeNode(t) - 1 -> NodeSet] BY <1>2, <2>4, <2>6, <2>7
    <3> QED BY <1>2, <3>1 DEF NodeArrays
  <2>11. u \in TableSet BY <1>1, <2>3, <2>7, <2>10 DEF TableSet
  <2> HIDE DEF u
  <2>12. key # Nil BY KeyKinds
  <2>13. ASSUME NEW j \in DOMAIN t.node
         PROVE /\ u.node[j].key = t.node[j].key /\ u.node[j].next = t.node[j].next
               /\ u.node[j].tt = t.node[j].tt
               /\ u.node[j].val # Nil => t.node[j].key # Nil /\ t.node[j].tt = "live"
    <3>1. CASE j = i BY <2>4, <2>9, <2>12, <3>1
    <3>2. CASE j # i BY <2>8, <3>2, ValuesLive
    <3> QED BY <3>1, <3>2
  <2>14. ShapeKept(t, u)
    <3>1. \A j \in DOMAIN u.array : u.array[j] # Nil => Num(j) \in Keys BY <1>1, <2>7 DEF ArrayPart
    <3>2. DOMAIN u.array = DOMAIN t.array /\ u.lastfree = t.lastfree BY <2>7
    <3>3. u.dummy = t.dummy BY <2>7
    <3>4. \A o \in DOMAIN t.node : NodeKept(t.node[o], u.node[o]) BY <2>13 DEF NodeKept
    <3>5. DOMAIN u.node = DOMAIN t.node BY <2>8
    <3> QED BY <2>11, <3>1, <3>2, <3>3, <3>4, <3>5 DEF ShapeKept
  <2>15. Table(u) BY <2>14, ShapeTable
  <2>16. \A k \in Keys : luaH_get(u, k) = luaH_get(t, k) BY <2>13, <2>14, ShapeGet
  <2>17. Value(u, key) = v
    <3>1. LiveAt(u, i, key) BY <2>4, <2>8, <2>9 DEF LiveAt
    <3> QED BY <2>9, <2>15, <3>1, ValueFacts
  <2>18. ASSUME NEW k \in Keys, k # key PROVE Value(u, k) = Value(t, k)
    <3>1. \A j : LiveAt(u, j, k) <=> LiveAt(t, j, k) BY <2>8, <2>13 DEF LiveAt
    <3>2. \A j : LiveAt(t, j, k) => u.node[j].val = t.node[j].val BY <2>4, <2>8, <2>18 DEF LiveAt
    <3>3. InArray(u, k) <=> InArray(t, k) BY <2>7 DEF InArray
    <3>4. CASE InArray(t, k) BY <2>7, <2>15, <3>3, <3>4, ValueFacts
    <3>5. CASE \E j : LiveAt(t, j, k) BY <2>15, <3>1, <3>2, <3>5, ValueFacts
    <3>6. CASE ~InArray(t, k) /\ ~\E j : LiveAt(t, j, k) BY <2>15, <3>1, <3>3, <3>6, ValueFacts
    <3> QED BY <3>4, <3>5, <3>6
  <2>19. \A j \in DOMAIN t.node : at # <<"node", j>> => u.node[j] = t.node[j] BY <2>1, <2>8
  <2>20. \A j \in DOMAIN t.node : at = <<"node", j>> => u.node[j].key = key /\ u.node[j].val = v
    BY <2>1, <2>9, Places
  <2> QED BY <2>7, <2>14, <2>15, <2>16, <2>17, <2>18, <2>19, <2>20 DEF u
<1> QED BY <1>3, <1>4

\* Every node that has a key has a value.
Full(t) == \A i \in DOMAIN t.node : t.node[i].key # Nil => t.node[i].val # Nil
KeysIn(t, K) == \A i \in DOMAIN t.node : t.node[i].key # Nil => t.node[i].key \in K

\* A table with fewer keys than nodes, all of them with values, has room:
\* without a free node each node would hold another of the other keys.
LEMMA RoomLeft ==
    ASSUME NEW t, Table(t), Full(t), NEW K, IsFiniteSet(K), KeysIn(t, K), NEW key \in K, key \in Keys,
           Cardinality(K) <= SizeNode(t), ~t.dummy, luaH_get(t, key) = Nowhere
    PROVE  HasRoom(t, key)
<1> SUFFICES ASSUME getfreepos(t) = NoNode PROVE FALSE
  BY DEF HasRoom
<1> DEFINE m == SizeNode(t)
           N == DOMAIN t.node
           M == K \ {key}
           f == [i \in N |-> t.node[i].key]
           free == {n \in 0..t.lastfree - 1 : t.node[n].key = Nil}
<1>1. t \in TableSet /\ t.lastfree \in Nat /\ t.lastfree <= m /\ FreeNodes(t) /\ LiveOnce(t) BY DEF Table, TableSet
<1>2. m \in Nat \ {0} /\ N = 0..m - 1 BY <1>1, TableNodes
<1>3. free = {}
  <2>1. ASSUME free # {} PROVE FALSE
    <3>1. getfreepos(t) = CHOOSE n \in free : \A o \in free : o <= n BY <2>1 DEF getfreepos
    <3>2. free \in SUBSET Nat /\ \A x \in free : x <= t.lastfree BY <1>1
    <3> HIDE DEF free
    <3>3. \E x \in free : \A o \in free : o <= x BY <1>1, <2>1, <3>2, GreatestNat
    <3>4. getfreepos(t) \in Nat BY <3>1, <3>2, <3>3
    <3> QED BY <3>4 DEF NoNode
  <2> QED BY <2>1
<1> HIDE DEF m
<1>4. ASSUME NEW i \in N PROVE t.node[i].key # Nil
  <2>1. CASE i < t.lastfree
    <3>1. i \notin free BY <1>3
    <3> QED BY <1>1, <1>2, <2>1, <3>1
  <2>2. CASE ~(i < t.lastfree)
    <3>1. t.lastfree <= i BY <1>1, <1>2, <2>2
    <3>2. t.node[i].key # Nil \/ t.dummy BY <1>1, <3>1 DEF FreeNodes
    <3> QED BY <3>2
  <2> QED BY <2>1, <2>2
<1> HIDE DEF free
<1>5. \A i \in N : t.node[i].key \in K /\ t.node[i].tt = "live" BY <1>4, ValuesLive DEF KeysIn, Full
<1>6. \A i \in N : t.node[i].key # key BY <1>5, ValueFacts DEF LiveAt
<1>7. f \in [N -> M] BY <1>5, <1>6
<1>8. IsFiniteSet(M) /\ Cardinality(M) = Cardinality(K) - 1 BY FS_RemoveElement
<1>9. Cardinality(M) < Cardinality(N)
  <2>1. Cardinality(N) = m BY DEF m, SizeNode
  <2>2. Cardinality(K) \in Nat BY FS_CardinalityType
  <2> QED BY <1>2, <1>8, <2>1, <2>2 DEF m
<1>10. IsFiniteSet(N)
  <2>1. 0 \in Int /\ m - 1 \in Int BY <1>2
  <2> QED BY <1>2, <2>1, FS_Interval
<1>11. \A i, j \in N : f[i] = f[j] => i = j
  <2>1. \A i, j \in N : t.node[i].key = t.node[j].key => i = j BY <1>1, <1>4, <1>5 DEF LiveOnce
  <2> QED BY <2>1
<1> HIDE DEF f, N, M
<1>12. \E x, y \in N : x # y /\ f[x] = f[y] BY <1>7, <1>8, <1>9, <1>10, FS_PigeonHole
<1> QED BY <1>11, <1>12

\* An entry that is inserted again.
LEMMA AgainKeeps ==
    ASSUME NEW t, Table(t), Full(t), NEW entry, entry.val # Nil, entry.val \in Entries, entry.key \in Keys,
           NEW F \in SUBSET Events,
           luaH_get(t, entry.key) # Nowhere \/ HasRoom(t, entry.key)
    PROVE  /\ Table(Again(t, entry, F)) /\ Full(Again(t, entry, F))
           /\ DOMAIN Again(t, entry, F).array = DOMAIN t.array /\ Again(t, entry, F).flags = F
           /\ SizeNode(Again(t, entry, F)) = SizeNode(t) /\ Again(t, entry, F).dummy = t.dummy
           /\ Value(Again(t, entry, F), entry.key) = entry.val
           /\ \A k \in Keys : k # entry.key => Value(Again(t, entry, F), k) = Value(t, k)
           /\ \A K : KeysIn(t, K) /\ (luaH_get(t, entry.key) = Nowhere => entry.key \in K) => KeysIn(Again(t, entry, F), K)
<1> DEFINE key == entry.key
           v == entry.val
           r == Slot(t, key)
           s == Store(r.t, r.at, v)
           w == [s EXCEPT !.flags = F]
<1>1. Again(t, entry, F) = w BY DEF Again
<1>2. Ready(t, r.t, key, r.at) BY SlotReady
<1> HIDE DEF w
<1> DEFINE u == r.t
           at == r.at
<1> HIDE DEF u, at
<1>3. Ready(t, u, key, at) BY <1>2 DEF u, at
<1>4. /\ Table(u) /\ u.array = t.array /\ u.dummy = t.dummy /\ SizeNode(u) = SizeNode(t)
      /\ at = luaH_get(u, key) /\ at # Nowhere
      /\ \A k \in Keys : Value(u, k) = Value(t, k)
      /\ \A j \in DOMAIN u.node : u.node[j].key # Nil /\ at # <<"node", j>> =>
           \E o \in DOMAIN t.node : Alike(u.node[j], t.node[o])
  BY <1>3 DEF Ready
<1>5. s = Store(u, at, v) BY DEF u, at
<1> HIDE DEF s, r
<1> HIDE DEF key, v
<1>6. key \in Keys /\ v \in Entries /\ v # Nil BY DEF key, v
<1>7. /\ ShapeKept(u, s) /\ Table(s) /\ Value(s, key) = v
      /\ \A k \in Keys : k # key => Value(s, k) = Value(u, k)
      /\ \A j \in DOMAIN u.node : at # <<"node", j>> => s.node[j] = u.node[j]
      /\ \A j \in DOMAIN u.node : at = <<"node", j>> => s.node[j].key = key /\ s.node[j].val = v
  BY <1>4, <1>5, <1>6, StoreKeeps
<1>8. /\ Table(w) /\ w.flags = F /\ w.node = s.node /\ w.array = s.array /\ w.dummy = s.dummy
      /\ \A k \in Keys : Value(w, k) = Value(s, k)
  BY <1>7, FlagsKept DEF w
<1>9. DOMAIN s.node = DOMAIN u.node /\ DOMAIN s.array = DOMAIN u.array /\ s.dummy = u.dummy BY <1>7 DEF ShapeKept
<1>10. DOMAIN w.array = DOMAIN t.array BY <1>4, <1>8, <1>9
<1>11. SizeNode(w) = SizeNode(t) BY <1>4, <1>8, <1>9 DEF SizeNode
<1>12. w.dummy = t.dummy BY <1>4, <1>8, <1>9
<1>13. Full(w)
  <2>1. ASSUME NEW j \in DOMAIN u.node, s.node[j].key # Nil PROVE s.node[j].val # Nil
    <3>1. CASE at = <<"node", j>> BY <1>6, <1>7, <3>1
    <3>2. CASE at # <<"node", j>>
      <4>1. s.node[j] = u.node[j] BY <1>7, <3>2
      <4>2. PICK o \in DOMAIN t.node : Alike(u.node[j], t.node[o]) BY <1>4, <2>1, <3>2, <4>1
      <4> QED BY <2>1, <4>1, <4>2 DEF Full, Alike
    <3> QED BY <3>1, <3>2
  <2> QED BY <1>8, <1>9, <2>1 DEF Full
<1>14. ASSUME NEW K, KeysIn(t, K), luaH_get(t, key) = Nowhere => key \in K PROVE KeysIn(w, K)
  <2>1. ASSUME NEW j \in DOMAIN u.node, s.node[j].key # Nil PROVE s.node[j].key \in K
    <3>1. CASE at = <<"node", j>>
      <4>1. s.node[j].key = key BY <1>7, <3>1
      <4>2. CASE luaH_get(t, key) = Nowhere BY <1>14, <4>1, <4>2
      <4>3. CASE luaH_get(t, key) # Nowhere
        <5>1. r = [t |-> t, at |-> luaH_get(t, key)] BY <4>3 DEF Slot, r, key
        <5>2. u = t /\ at = luaH_get(t, key) BY <5>1 DEF u, at
        <5>3. LiveAt(t, j, key) BY <1>6, <3>1, <5>2, GetCases, Places
        <5> QED BY <1>14, <2>1, <4>1, <5>3 DEF KeysIn, LiveAt
      <4> QED BY <4>2, <4>3
    <3>2. CASE at # <<"node", j>>
      <4>1. s.node[j] = u.node[j] BY <1>7, <3>2
      <4>2. PICK o \in DOMAIN t.node : Alike(u.node[j], t.node[o]) BY <1>4, <2>1, <3>2, <4>1
      <4> QED BY <1>14, <2>1, <4>1, <4>2 DEF KeysIn, Alike
    <3> QED BY <3>1, <3>2
  <2> QED BY <1>8, <1>9, <2>1 DEF KeysIn
<1>15. Value(w, key) = v /\ \A k \in Keys : k # key => Value(w, k) = Value(t, k) BY <1>4, <1>6, <1>7, <1>8
<1> QED BY <1>1, <1>8, <1>10, <1>11, <1>12, <1>13, <1>14, <1>15 DEF key, v

----------------------------------------------------------------------------
(* Sizing anew.                                                              *)
\* The nodes resize starts with.
LEMMA EmptyNodesFacts ==
    ASSUME NEW size \in Nat
    PROVE  \E n \in Nat \ {0} :
             /\ size <= n /\ EmptyNodes(size).node = [i \in 0..n - 1 |-> Node(Nil, Nil, NoNode)]
             /\ EmptyNodes(size).dummy \in BOOLEAN /\ (EmptyNodes(size).dummy <=> size = 0)
             /\ EmptyNodes(size).lastfree = (IF size = 0 THEN 0 ELSE n) /\ (size = 0 => n = 1)
<1> DEFINE n == IF size = 0 THEN 1 ELSE TwoTo[CeilLog2(size)]
<1>1. n \in Nat \ {0} /\ size <= n /\ (size = 0 => n = 1) BY CeilLog2Enough
<1> HIDE DEF n
<1>2. EmptyNodes(size) = [node |-> [i \in 0..n - 1 |-> Node(Nil, Nil, NoNode)], dummy |-> size = 0,
                          lastfree |-> IF size = 0 THEN 0 ELSE n]
  BY DEF EmptyNodes, n
<1>3. EmptyNodes(size).dummy = (size = 0) BY <1>2
<1>4. EmptyNodes(size).node = [i \in 0..n - 1 |-> Node(Nil, Nil, NoNode)] BY <1>2
<1>5. EmptyNodes(size).lastfree = (IF size = 0 THEN 0 ELSE n) BY <1>2
<1> QED BY <1>1, <1>3, <1>4, <1>5

\* A table whose nodes are all empty.
LEMMA EmptyTable ==
    ASSUME NEW u \in TableSet, NEW n \in Nat \ {0}, u.node = [i \in 0..n - 1 |-> Node(Nil, Nil, NoNode)],
           u.lastfree = (IF u.dummy THEN 0 ELSE n), u.dummy => n = 1,
           \A j \in DOMAIN u.array : u.array[j] # Nil => Num(j) \in Keys
    PROVE  Table(u) /\ Full(u) /\ SizeNode(u) = n /\ \A i \in DOMAIN u.node : u.node[i].key = Nil
<1>1. DOMAIN u.node = 0..n - 1
      /\ \A i \in 0..n - 1 : /\ u.node[i].key = Nil /\ u.node[i].val = Nil /\ u.node[i].next = NoNode
                             /\ u.node[i].tt = "live"
  BY DEF Node
<1>2. SizeNode(u) = n
  <2>1. SizeNode(u) \in Nat \ {0} /\ DOMAIN u.node = 0..SizeNode(u) - 1 BY TableNodes
  <2> DEFINE m == SizeNode(u)
  <2> HIDE DEF m
  <2>2. m \in Nat \ {0} /\ 0..m - 1 = 0..n - 1 BY <1>1, <2>1 DEF m
  <2>3. m - 1 \in 0..n - 1 /\ n - 1 \in 0..m - 1 BY <2>2
  <2> QED BY <2>2, <2>3 DEF m
<1>3. u.lastfree <= SizeNode(u) BY <1>2
<1>4. Straight(SizeNode(u), Links(u))
  <2>1. Links(u) = [i \in 0..n - 1 |-> NoNode] BY <1>1 DEF Links
  <2>2. Links(u) \in LinkSet(n) BY <2>1 DEF LinkSet, NoNode
  <2>3. \A i \in 0..n - 1 : Links(u)[i] = NoNode BY <2>1
  <2>4. NoCircle(Links(u)) BY <2>1, <2>3 DEF NoCircle
  <2> QED BY <1>2, <2>2, <2>3, <2>4 DEF Straight
<1>5. FreeNodes(u) BY <1>1 DEF FreeNodes
<1>6. DeadNodes(u) BY <1>1 DEF DeadNodes
<1>7. Reached(u) BY <1>1 DEF Reached
<1>8. LiveOnce(u) /\ LiveFirst(u) BY <1>1 DEF LiveOnce, LiveFirst
<1>9. ArrayPart(u) BY <1>1 DEF ArrayPart
<1>10. DummyNode(u) BY <1>1 DEF DummyNode
<1>11. Full(u) BY <1>1 DEF Full
<1> QED BY <1>1, <1>2, <1>3, <1>4, <1>5, <1>6, <1>7, <1>8, <1>9, <1>10, <1>11 DEF Table

\* u, on its way from t through luaH_resize: the keys done have their values,
\* and no key another than it had.
Moving(t, u, K, nasize, nhsize, done) ==
  /\ Table(u) /\ Full(u) /\ DOMAIN u.array = 1..nasize /\ nhsize <= SizeNode(u) /\ (u.dummy <=> nhsize = 0)
  /\ KeysIn(u, K)
  /\ \A k \in Keys : Value(u, k) = Nil \/ Value(u, k) = Value(t, k)
  /\ \A k \in Keys \cap done : Value(u, k) = Value(t, k)

\* One entry inserted again by luaH_resize, for which there is room.
LEMMA TurnKeeps ==
    ASSUME NEW t, NEW u, NEW K, NEW nasize \in Nat, NEW nhsize \in Nat, NEW done, Moving(t, u, K, nasize, nhsize, done),
           IsFiniteSet(K), Cardinality(K) <= nhsize,
           NEW entry, NEW F \in SUBSET Events,
           entry.val # Nil => /\ entry.key \in Keys /\ entry.val \in Entries /\ entry.val = Value(t, entry.key)
                              /\ entry.key \in K \/ (entry.key[1] = "num" /\ entry.key[2] <= nasize),
           NEW next, next \subseteq done \cup (IF entry.val = Nil THEN {} ELSE {entry.key})
    PROVE  Moving(t, Again(u, entry, F), K, nasize, nhsize, next)
<1>1. CASE entry.val = Nil
  <2>1. Again(u, entry, F) = u /\ next \subseteq done BY <1>1 DEF Again
  <2> QED BY <2>1 DEF Moving
<1>2. CASE entry.val # Nil
  <2> DEFINE key == entry.key
             w == Again(u, entry, F)
  <2> HIDE DEF w
  <2>1. key \in Keys /\ entry.val = Value(t, key) /\ next \subseteq done \cup {key} BY <1>2
  <2>2. /\ Table(u) /\ Full(u) /\ DOMAIN u.array = 1..nasize /\ nhsize <= SizeNode(u) /\ (u.dummy <=> nhsize = 0)
        /\ KeysIn(u, K)
    BY DEF Moving
  <2>3. luaH_get(u, key) = Nowhere => key \in K
    <3>1. ASSUME key[1] = "num", key[2] <= nasize PROVE InArray(u, key)
      <4>1. key[2] \in Nat \ {0} BY <2>1, <3>1, KeyKinds, TableKeys
      <4> QED BY <2>2, <3>1, <4>1 DEF InArray
    <3> QED BY <1>2, <2>1, <2>2, <3>1, ValueFacts
  <2>4. ASSUME luaH_get(u, key) = Nowhere PROVE HasRoom(u, key)
    <3>1. key \in K BY <2>3, <2>4
    <3>2. Cardinality(K) # 0 BY <3>1, FS_EmptySet
    <3>3. Cardinality(K) \in Nat /\ SizeNode(u) \in Nat BY <2>2, FS_CardinalityType, TableNodes DEF Table
    <3>4. nhsize # 0 /\ Cardinality(K) <= SizeNode(u) BY <2>2, <3>2, <3>3
    <3>5. ~u.dummy BY <2>2, <3>4
    <3> QED BY <2>1, <2>2, <2>4, <3>1, <3>4, <3>5, RoomLeft
  <2>5. /\ Table(w) /\ Full(w) /\ DOMAIN w.array = DOMAIN u.array /\ SizeNode(w) = SizeNode(u) /\ w.dummy = u.dummy
        /\ Value(w, key) = entry.val
        /\ \A k \in Keys : k # key => Value(w, k) = Value(u, k)
        /\ KeysIn(w, K)
    BY <1>2, <2>1, <2>2, <2>3, <2>4, AgainKeeps DEF w
  <2>6. \A k \in Keys : Value(w, k) = Nil \/ Value(w, k) = Value(t, k) BY <2>1, <2>5 DEF Moving
  <2>7. \A k \in Keys \cap next : Value(w, k) = Value(t, k) BY <2>1, <2>5 DEF Moving
  <2>8. DOMAIN w.array = 1..nasize /\ nhsize <= SizeNode(w) BY <2>2, <2>5
  <2>9. w.dummy <=> nhsize = 0 BY <2>2, <2>5
  <2>10. Moving(t, w, K, nasize, nhsize, next) BY <2>5, <2>6, <2>7, <2>8, <2>9 DEF Moving
  <2> QED BY <2>10 DEF w
<1> QED BY <1>1, <1>2

\* Sizing a table anew keeps every value, given room for the keys K outside
\* of the array.
LEMMA ResizeKeeps ==
    ASSUME NEW t, Table(t), NEW nasize \in Nat, NEW nhsize \in Nat, NEW K, IsFiniteSet(K), Cardinality(K) <= nhsize,
           \A k \in Present(t) : k \in K \/ (k[1] = "num" /\ k[2] <= nasize)
    PROVE  Moving(t, resize(t, nasize, nhsize), K, nasize, nhsize, Keys)
<1> DEFINE old == Len(t.array)
           going == IF old > nasize THEN old - nasize ELSE 0
           nodes == EmptyNodes(nhsize)
           sized == [t EXCEPT !.array = [i \in 1..nasize |-> IF i <= old THEN t.array[i] ELSE Nil],
                              !.node = nodes.node, !.dummy = nodes.dummy, !.lastfree = nodes.lastfree]
           m == SizeNode(t)
           Arr(i) == [key |-> Num(nasize + i), val |-> t.array[nasize + i]]
           Nod(i) == t.node[m - (i - going)]
           Turn(made, i) == IF i <= going THEN Again(made, Arr(i), made.flags)
                            ELSE Again(made, Nod(i), {})
           D(n, f) == f = [i \in 0..n |-> IF i = 0 THEN sized ELSE Turn(f[i - 1], i)]
           total == going + m
           made == CHOOSE f : D(total, f)
           Entry(i) == IF i <= going THEN Arr(i) ELSE Nod(i)
           Kept == {k \in Keys : InArray(t, k) /\ k[2] <= nasize}
           Done(n) == Kept \cup {Entry(o).key : o \in {p \in 1..n : Entry(p).val # Nil}}
<1>1. resize(t, nasize, nhsize) = made[total] BY DEF resize
<1>2. t \in TableSet /\ ArrayPart(t) /\ m \in Nat \ {0} /\ DOMAIN t.node = 0..m - 1 /\ t.node \in [0..m - 1 -> NodeSet]
      /\ t.array \in Seq(Entries) /\ DOMAIN t.array = 1..old /\ old \in Nat /\ t.flags \in SUBSET Events
  <2>1. t \in TableSet /\ ArrayPart(t) BY DEF Table
  <2>2. m \in Nat \ {0} /\ DOMAIN t.node = 0..m - 1 /\ t.node \in [0..m - 1 -> NodeSet] BY <2>1, TableNodes
  <2>3. t.array \in Seq(Entries) /\ t.flags \in SUBSET Events BY <2>1 DEF TableSet
  <2> QED BY <2>1, <2>2, <2>3
<1>3. going \in Nat /\ going + nasize >= old /\ (going > 0 => going + nasize = old) BY <1>2
<1>4. total \in Nat BY <1>2, <1>3
\* What resize starts from.
<1>5. Moving(t, sized, K, nasize, nhsize, Kept)
  <2>1. PICK n \in Nat \ {0} :
             /\ nhsize <= n /\ nodes.node = [i \in 0..n - 1 |-> Node(Nil, Nil, NoNode)]
             /\ nodes.dummy \in BOOLEAN /\ (nodes.dummy <=> nhsize = 0)
             /\ nodes.lastfree = (IF nhsize = 0 THEN 0 ELSE n) /\ (nhsize = 0 => n = 1)
    BY EmptyNodesFacts
  <2> HIDE DEF nodes
  <2>2. /\ sized.array = [i \in 1..nasize |-> IF i <= old THEN t.array[i] ELSE Nil]
        /\ sized.node = nodes.node /\ sized.lastfree = nodes.lastfree
    BY <1>2 DEF TableSet
  <2>3. sized.dummy = nodes.dummy BY <1>2 DEF TableSet
  <2>4. sized.array \in Seq(Entries) /\ DOMAIN sized.array = 1..nasize
    <3>1. \A i \in 1..nasize : (IF i <= old THEN t.array[i] ELSE Nil) \in Entries BY <1>2 DEF Entries
    <3>2. sized.array \in [1..nasize -> Entries] BY <2>2, <3>1
    <3> QED BY <3>2, SeqDef
  <2>5. nodes.node \in NodeArrays
    <3>1. Node(Nil, Nil, NoNode) \in NodeSet BY DEF Node, NodeSet, Entries, NoNode
    <3>2. nodes.node \in [0..n - 1 -> NodeSet] BY <2>1, <3>1
    <3> QED BY <3>2 DEF NodeArrays
  <2>6. nodes.lastfree \in Nat BY <2>1
  <2>7. sized \in TableSet BY <1>2, <2>1, <2>2, <2>4, <2>5, <2>6 DEF TableSet
  <2> HIDE DEF sized
  <2>8. \A j \in DOMAIN sized.array : sized.array[j] # Nil => Num(j) \in Keys /\ j \in DOMAIN t.array /\ sized.array[j] = t.array[j]
    BY <1>2, <2>2, <2>4 DEF ArrayPart
  <2>9. sized.lastfree = (IF sized.dummy THEN 0 ELSE n) BY <2>1, <2>2, <2>3
  <2>10. sized.dummy => n = 1 BY <2>1, <2>3
  <2>11. sized.node = [i \in 0..n - 1 |-> Node(Nil, Nil, NoNode)] BY <2>1, <2>2
  <2>12. Table(sized) /\ Full(sized) /\ SizeNode(sized) = n /\ \A i \in DOMAIN sized.node : sized.node[i].key = Nil
    BY <2>7, <2>8, <2>9, <2>10, <2>11, EmptyTable
  <2>13. KeysIn(sized, K) BY <2>12 DEF KeysIn
  <2>14. ASSUME NEW k \in Keys PROVE (Value(sized, k) = Nil \/ Value(sized, k) = Value(t, k))
                                     /\ (k \in Kept => Value(sized, k) = Value(t, k))
    <3>1. CASE InArray(sized, k)
      <4>1. Value(sized, k) = sized.array[k[2]] /\ k[2] \in 1..nasize BY <2>4, <2>12, <3>1, ValueFacts DEF InArray
      <4>2. CASE InArray(t, k)
        <5>1. Value(t, k) = t.array[k[2]] BY <4>2, ValueFacts
        <5>2. k[2] <= old BY <1>2, <4>2 DEF InArray
        <5>3. sized.array[k[2]] = t.array[k[2]] BY <2>2, <4>1, <5>2
        <5> QED BY <4>1, <5>1, <5>3
      <4>3. CASE ~InArray(t, k)
        <5>1. k[2] \notin DOMAIN t.array BY <3>1, <4>3 DEF InArray
        <5>2. sized.array[k[2]] = Nil BY <2>4, <2>8, <4>1, <5>1
        <5> QED BY <4>1, <4>3, <5>2
      <4> QED BY <4>2, <4>3
    <3>2. CASE ~InArray(sized, k)
      <4>1. Value(sized, k) = Nil BY <2>12, <3>2, ValueFacts, KeyKinds DEF LiveAt
      <4>2. k \notin Kept BY <1>2, <2>4, <3>2 DEF InArray
      <4> QED BY <4>1, <4>2
    <3> QED BY <3>1, <3>2
  <2> HIDE DEF Kept
  <2>15. nhsize <= SizeNode(sized) BY <2>1, <2>12
  <2>16. sized.dummy <=> nhsize = 0 BY <2>1, <2>3
  <2> QED BY <2>4, <2>12, <2>13, <2>14, <2>15, <2>16 DEF Moving
\* The entries have the values that t has.
<1>6. ASSUME NEW i \in 1..total, Entry(i).val # Nil
      PROVE  /\ Entry(i).key \in Keys /\ Entry(i).val \in Entries /\ Entry(i).val = Value(t, Entry(i).key)
             /\ Entry(i).key \in K \/ (Entry(i).key[1] = "num" /\ Entry(i).key[2] <= nasize)
  <2>1. CASE i <= going
    <3> DEFINE j == nasize + i
    <3>1. Entry(i).key = Num(j) /\ Entry(i).val = t.array[j] BY <2>1
    <3>2. j \in 1..old BY <1>2, <1>3, <1>4, <2>1
    <3> HIDE DEF j, Entry, going, total
    <3>3. Num(j) \in Keys /\ t.array[j] \in Entries BY <1>2, <1>6, <3>1, <3>2 DEF ArrayPart
    <3>4. InArray(t, Num(j)) /\ Num(j)[2] = j BY <1>2, <3>2, KeyKinds DEF InArray
    <3>5. Value(t, Num(j)) = t.array[j] BY <3>3, <3>4, ValueFacts
    <3>6. Num(j) \in Present(t) BY <1>2, <1>6, <3>1, <3>2 DEF Present
    <3> QED BY <3>1, <3>3, <3>5, <3>6
  <2>2. CASE ~(i <= going)
    <3> DEFINE o == m - (i - going)
    <3>1. Entry(i) = t.node[o] BY <2>2
    <3>2. o \in DOMAIN t.node
      <4>1. i \in Nat /\ i <= going + m BY <1>2, <1>3
      <4> HIDE DEF going, m, total
      <4> QED BY <1>2, <1>3, <2>2, <4>1
    <3> HIDE DEF o, Entry, going, total
    <3>3. t.node[o].key \in Keys /\ t.node[o].tt = "live" BY <1>6, <3>1, <3>2, ValuesLive
    <3>4. LiveAt(t, o, t.node[o].key) BY <3>2, <3>3 DEF LiveAt
    <3>5. Value(t, t.node[o].key) = t.node[o].val BY <3>3, <3>4, ValueFacts
    <3>6. t.node[o].key \in Present(t) BY <1>6, <3>1, <3>2 DEF Present
    <3>7. t.node[o].val \in Entries BY <1>2, <3>2 DEF NodeSet
    <3> QED BY <3>1, <3>3, <3>5, <3>6, <3>7
  <2> QED BY <2>1, <2>2
\* One turn.
<1>7. ASSUME NEW n \in Nat, n + 1 <= total, NEW u, Moving(t, u, K, nasize, nhsize, Done(n))
      PROVE  Moving(t, Turn(u, n + 1), K, nasize, nhsize, Done(n + 1))
  <2> DEFINE entry == Entry(n + 1)
             F == IF n + 1 <= going THEN u.flags ELSE {}
  <2>1. Turn(u, n + 1) = Again(u, entry, F) OBVIOUS
  <2>2. F \in SUBSET Events BY <1>7 DEF Moving, Table, TableSet
  <2>3. n + 1 \in 1..total BY <1>4, <1>7
  <2>4. entry.val # Nil => /\ entry.key \in Keys /\ entry.val \in Entries /\ entry.val = Value(t, entry.key)
                           /\ entry.key \in K \/ (entry.key[1] = "num" /\ entry.key[2] <= nasize)
    BY <1>6, <2>3
  <2>5. Done(n + 1) \subseteq Done(n) \cup (IF entry.val = Nil THEN {} ELSE {entry.key})
    <3> HIDE DEF Entry, Kept
    <3>1. \A p \in 1..n + 1 : p = n + 1 \/ p \in 1..n OBVIOUS
    <3> QED BY <3>1
  <2> HIDE DEF Done, F, entry, Turn
  <2> QED BY <1>7, <2>1, <2>2, <2>4, <2>5, TurnKeeps
<1> HIDE DEF Turn, sized
\* The turns taken one after the other.
<1>8. ASSUME NEW n \in Nat PROVE \E f : D(n, f)
  <2> DEFINE T == {k \in Nat : \E f : D(k, f)}
  <2>1. 0 \in T
    <3> DEFINE f == [i \in 0..0 |-> sized]
    <3>1. D(0, f) OBVIOUS
    <3> QED BY <3>1
  <2>2. ASSUME NEW k \in Nat, k \in T PROVE k + 1 \in T
    <3>1. PICK f : D(k, f) BY <2>2
    <3> DEFINE g == [i \in 0..k + 1 |-> IF i = k + 1 THEN Turn(f[k], k + 1) ELSE f[i]]
    <3>2. ASSUME NEW i \in 0..k + 1 PROVE g[i] = IF i = 0 THEN sized ELSE Turn(g[i - 1], i)
      <4>1. CASE i = k + 1
        <5>1. i - 1 = k /\ k \in 0..k + 1 /\ k # k + 1 /\ i # 0 BY <4>1
        <5>2. g[i - 1] = f[k] BY <5>1
        <5>3. g[i] = Turn(f[k], k + 1) BY <4>1
        <5> QED BY <4>1, <5>1, <5>2, <5>3
      <4>2. CASE i # k + 1 /\ i # 0
        <5>1. i \in 0..k /\ i - 1 \in 0..k /\ i - 1 # k + 1 /\ i - 1 \in 0..k + 1 BY <4>2
        <5>2. g[i] = f[i] /\ g[i - 1] = f[i - 1] BY <4>2, <5>1
        <5>3. f[i] = Turn(f[i - 1], i) BY <3>1, <4>2, <5>1
        <5> QED BY <4>2, <5>2, <5>3
      <4>3. CASE i # k + 1 /\ i = 0
        <5>1. 0 \in 0..k OBVIOUS
        <5>2. g[0] = f[0] BY <4>3
        <5>3. f[0] = sized BY <3>1, <5>1
        <5> QED BY <4>3, <5>2, <5>3
      <4> QED BY <4>1, <4>2, <4>3
    <3>3. g = [i \in 0..k + 1 |-> g[i]] OBVIOUS
    <3> HIDE DEF g
    <3>4. D(k + 1, g) BY <3>2, <3>3
    <3> HIDE DEF D
    <3> QED BY <3>4
  <2> HIDE DEF T
  <2>3. Nat \subseteq T BY <2>1, <2>2, NatSets
  <2> QED BY <2>3 DEF T
<1>9. D(total, made)
  <2> HIDE DEF D
  <2>1. \E f : D(total, f) BY <1>4, <1>8
  <2> QED BY <2>1
<1> HIDE DEF made, total, going, m
<1>10. made[0] = sized /\ \A n \in Nat : n + 1 <= total => made[n + 1] = Turn(made[n], n + 1)
  <2>1. made[0] = sized BY <1>4, <1>9
  <2>2. \A i \in 0..total : made[i] = IF i = 0 THEN sized ELSE Turn(made[i - 1], i) BY <1>9
  <2>3. ASSUME NEW n \in Nat, n + 1 <= total PROVE made[n + 1] = Turn(made[n], n + 1)
    <3>1. n + 1 \in 0..total /\ n + 1 # 0 /\ n + 1 - 1 = n BY <1>4, <2>3
    <3>2. made[n + 1] = Turn(made[n + 1 - 1], n + 1) BY <2>2, <3>1
    <3> QED BY <3>1, <3>2
  <2> QED BY <2>1, <2>3
<1> HIDE DEF D
<1>11. \A n \in Nat : n <= total => Moving(t, made[n], K, nasize, nhsize, Done(n))
  <2> DEFINE T == {n \in Nat : n <= total => Moving(t, made[n], K, nasize, nhsize, Done(n))}
  <2>1. 0 \in T
    <3>1. Done(0) = Kept
      <4>1. {p \in 1..0 : Entry(p).val # Nil} = {} OBVIOUS
      <4> HIDE DEF Entry, Kept
      <4> QED BY <4>1
    <3> HIDE DEF Done, Kept
    <3> QED BY <1>5, <1>10, <3>1
  <2>2. ASSUME NEW n \in Nat, n \in T PROVE n + 1 \in T
    <3> HIDE DEF Done, Kept
    <3>1. CASE n + 1 <= total
      <4>1. n <= total BY <1>4, <3>1
      <4>2. Moving(t, made[n], K, nasize, nhsize, Done(n)) BY <2>2, <4>1
      <4>3. Moving(t, Turn(made[n], n + 1), K, nasize, nhsize, Done(n + 1)) BY <1>7, <3>1, <4>2
      <4>4. made[n + 1] = Turn(made[n], n + 1) BY <1>10, <3>1
      <4> QED BY <4>3, <4>4
    <3>2. CASE ~(n + 1 <= total) BY <3>2
    <3> QED BY <3>1, <3>2
  <2> HIDE DEF T
  <2>3. Nat \subseteq T BY <2>1, <2>2, NatSets
  <2> QED BY <2>3 DEF T
<1>12. Moving(t, made[total], K, nasize, nhsize, Done(total))
  <2> HIDE DEF Done, Kept
  <2>1. total \in Nat /\ total <= total BY <1>4
  <2> QED BY <1>11, <2>1
\* Every value was among the entries.
<1>13. ASSUME NEW k \in Keys, Value(t, k) # Nil PROVE k \in Done(total)
  <2>1. CASE InArray(t, k) /\ k[2] <= nasize BY <2>1
  <2>2. CASE InArray(t, k) /\ ~(k[2] <= nasize)
    <3> DEFINE i == k[2] - nasize
    <3>1. k[2] \in 1..old /\ k = Num(k[2]) BY <1>2, <2>2, KeyKinds DEF InArray
    <3>2. i \in 1..going /\ nasize + i = k[2]
      <4> DEFINE x == k[2]
      <4>1. x \in 1..old /\ ~(x <= nasize) BY <2>2, <3>1
      <4> HIDE DEF x, old
      <4>2. x - nasize \in 1..old - nasize /\ nasize + (x - nasize) = x /\ old > nasize BY <1>2, <4>1
      <4>3. going = old - nasize BY <4>2 DEF going
      <4> QED BY <4>2, <4>3 DEF x
    <3>3. i <= going /\ i \in 1..total BY <1>2, <1>3, <3>2 DEF total
    <3>4. Entry(i) = Arr(i) BY <3>3
    <3>5. Entry(i).key = k /\ Entry(i).val = t.array[k[2]] BY <3>1, <3>2, <3>4
    <3>6. Entry(i).val # Nil BY <1>13, <2>2, <3>5, ValueFacts
    <3> HIDE DEF Entry, i, Kept
    <3> QED BY <3>3, <3>5, <3>6
  <2>3. CASE ~InArray(t, k)
    <3>1. PICK o \in DOMAIN t.node : LiveAt(t, o, k) BY <1>13, <2>3, ValueFacts
    <3> DEFINE i == going + (m - o)
    <3>2. i \in 1..total /\ ~(i <= going) /\ m - (i - going) = o BY <1>2, <1>3, <3>1 DEF total
    <3>3. Entry(i) = t.node[o] BY <3>2
    <3>4. Entry(i).key = k /\ Entry(i).val = Value(t, k) BY <3>1, <3>3, ValueFacts DEF LiveAt
    <3> HIDE DEF Entry, i, Kept
    <3> QED BY <1>13, <3>2, <3>4
  <2> QED BY <2>1, <2>2, <2>3
<1>14. \A k \in Keys : Value(made[total], k) = Value(t, k)
  <2> HIDE DEF Done, made
  <2> QED BY <1>12, <1>13 DEF Moving
<1> HIDE DEF Done, made
<1>15. Moving(t, made[total], K, nasize, nhsize, Keys) BY <1>12, <1>14 DEF Moving
<1> QED BY <1>1, <1>15

----------------------------------------------------------------------------
(* Growing.                                                                  *)
\* A function has finitely many values on a finite set.
LEMMA ImageFinite ==
    ASSUME NEW A, IsFiniteSet(A), NEW f, DOMAIN f = A
    PROVE  IsFiniteSet({f[x] : x \in A})
<1> DEFINE B == {f[x] : x \in A}
           g == [x \in A |-> f[x]]
<1>1. g \in Surjection(A, B) BY DEF Surjection
<1> QED BY <1>1, FS_Surjection

\* The keys that have values are finitely many.
LEMMA PresentFinite ==
    ASSUME NEW t, Table(t)
    PROVE  IsFiniteSet(Present(t)) /\ Present(t) \subseteq Keys
<1> DEFINE A == {j \in DOMAIN t.array : t.array[j] # Nil}
           B == {j \in DOMAIN t.node : t.node[j].val # Nil}
           f == [i \in A |-> Num(i)]
           g == [i \in B |-> t.node[i].key]
<1>1. t \in TableSet /\ ArrayPart(t) BY DEF Table
<1>2. SizeNode(t) \in Nat \ {0} /\ DOMAIN t.node = 0..SizeNode(t) - 1 BY <1>1, TableNodes
<1>3. t.array \in Seq(Entries) /\ DOMAIN t.array = 1..Len(t.array) /\ Len(t.array) \in Nat BY <1>1 DEF TableSet
<1>4. IsFiniteSet(A)
  <2>1. IsFiniteSet(1..Len(t.array)) BY <1>3, FS_Interval
  <2> QED BY <1>3, <2>1, FS_Subset
<1>5. IsFiniteSet(B)
  <2>1. 0 \in Int /\ SizeNode(t) - 1 \in Int BY <1>2
  <2>2. IsFiniteSet(0..SizeNode(t) - 1) BY <2>1, FS_Interval
  <2> QED BY <1>2, <2>2, FS_Subset
<1>6. DOMAIN f = A /\ DOMAIN g = B /\ (\A x \in A : f[x] = Num(x)) /\ \A x \in B : g[x] = t.node[x].key OBVIOUS
<1>7. Present(t) = {Num(i) : i \in A} \cup {t.node[i].key : i \in B} BY DEF Present
<1>8. \A i \in A : Num(i) \in Keys BY <1>1 DEF ArrayPart
<1>9. \A i \in B : t.node[i].key \in Keys BY ValuesLive
<1> HIDE DEF A, B, f, g
<1>10. Present(t) = {f[i] : i \in A} \cup {g[i] : i \in B} BY <1>6, <1>7
<1>11. IsFiniteSet({f[i] : i \in A}) /\ IsFiniteSet({g[i] : i \in B}) BY <1>4, <1>5, <1>6, ImageFinite
<1>12. IsFiniteSet(Present(t)) BY <1>10, <1>11, FS_Union
<1> QED BY <1>7, <1>8, <1>9, <1>12

\* The size of the array is one of the sizes considered, or none.
LEMMA SizesFound ==
    ASSUME NEW ints, IsFiniteSet(ints)
    PROVE  /\ computesizes(ints).n \in Nat
           /\ computesizes(ints).na = Cardinality({k \in ints : k[2] <= computesizes(ints).n})
<1> DEFINE Below(n) == Cardinality({k \in ints : k[2] <= n})
           c == Cardinality(ints)
           sizes == {n \in {TwoTo[i] : i \in 0..c} :
                       /\ n \div 2 < c
                       /\ Below(n) > n \div 2
                       /\ \E k \in ints : k[2] <= n /\ (n = 1 \/ k[2] > n \div 2)}
           best == IF sizes = {} THEN 0 ELSE CHOOSE n \in sizes : \A o \in sizes : o <= n
<1>1. computesizes(ints) = [n |-> best, na |-> Below(best)] BY DEF computesizes
<1>2. c \in Nat BY FS_CardinalityType
<1>3. sizes \in SUBSET Nat /\ \A x \in sizes : x <= 2 * c
  <2>1. \A i \in 0..c : TwoTo[i] \in Nat BY <1>2, TwoToGrows
  <2>2. \A n \in Nat : n \div 2 < c => n <= 2 * c BY <1>2
  <2> HIDE DEF c, Below
  <2> QED BY <2>1, <2>2
<1>4. best \in Nat
  <2>1. 2 * c \in Nat BY <1>2
  <2> DEFINE b == 2 * c
  <2> HIDE DEF sizes, b
  <2>2. CASE sizes # {}
    <3>1. b \in Nat /\ \A x \in sizes : x <= b BY <1>3, <2>1 DEF b
    <3>2. \E x \in sizes : \A o \in sizes : o <= x BY <1>3, <2>2, <3>1, GreatestNat
    <3> QED BY <1>3, <2>2, <3>2
  <2> QED BY <2>2
<1> HIDE DEF best
<1> QED BY <1>1, <1>4

\* rehash keeps every value and leaves room for the key it was called for.
LEMMA RehashKeeps ==
    ASSUME NEW t, Table(t), NEW key \in Keys
    PROVE  /\ Table(rehash(t, key)) /\ \A k \in Keys : Value(rehash(t, key), k) = Value(t, k)
           /\ LET w == [rehash(t, key) EXCEPT !.flags = {}] IN luaH_get(w, key) # Nowhere \/ HasRoom(w, key)
<1> DEFINE used == Present(t) \cup {key}
           ints == {k \in used : k[1] = "num"}
           n == computesizes(ints).n
           low == {k \in ints : k[2] <= n}
           K == used \ low
           nh == Cardinality(used) - computesizes(ints).na
           u == resize(t, n, nh)
           w == [u EXCEPT !.flags = {}]
<1>1. rehash(t, key) = u BY DEF rehash
<1>2. IsFiniteSet(used) /\ used \subseteq Keys BY PresentFinite, FS_AddElement
<1>3. IsFiniteSet(ints) BY <1>2, FS_Subset
<1>4. n \in Nat /\ computesizes(ints).na = Cardinality(low) BY <1>3, SizesFound
<1>5. IsFiniteSet(K) /\ Cardinality(K) = nh /\ nh \in Nat
  <2>1. used \cap low = low OBVIOUS
  <2> HIDE DEF used, low
  <2>2. IsFiniteSet(used \ low) /\ Cardinality(used \ low) = Cardinality(used) - Cardinality(low) BY <1>2, <2>1, FS_Difference
  <2>3. Cardinality(used \ low) \in Nat BY <2>2, FS_CardinalityType
  <2> QED BY <1>4, <2>2, <2>3
<1>6. \A k \in Present(t) : k \in K \/ (k[1] = "num" /\ k[2] <= n) OBVIOUS
<1> HIDE DEF n
<1>7. key \in K \/ (key[1] = "num" /\ key[2] <= n) OBVIOUS
<1> HIDE DEF used, low, ints, K, nh, u
<1>8. Cardinality(K) <= nh BY <1>5
<1>9. Moving(t, u, K, n, nh, Keys) BY <1>4, <1>5, <1>6, <1>8, ResizeKeeps DEF u
<1>10. /\ Table(u) /\ Full(u) /\ DOMAIN u.array = 1..n /\ nh <= SizeNode(u) /\ (u.dummy <=> nh = 0)
       /\ KeysIn(u, K)
       /\ \A k \in Keys : Value(u, k) = Value(t, k)
  BY <1>9 DEF Moving
<1>11. Table(w) /\ w.node = u.node /\ w.array = u.array /\ w.dummy = u.dummy BY <1>10, FlagsKept
<1> HIDE DEF w
<1>12. Full(w) /\ KeysIn(w, K) /\ SizeNode(w) = SizeNode(u) BY <1>10, <1>11 DEF Full, KeysIn, SizeNode
<1>13. ASSUME luaH_get(w, key) = Nowhere PROVE HasRoom(w, key)
  <2>1. key \in K
    <3>1. ASSUME key[1] = "num", key[2] <= n PROVE InArray(w, key)
      <4>1. key[2] \in Nat \ {0} BY <3>1, KeyKinds, TableKeys
      <4> QED BY <1>4, <1>10, <1>11, <3>1, <4>1 DEF InArray
    <3>2. ~InArray(w, key) BY <1>11, <1>13, ValueFacts
    <3> QED BY <1>7, <3>1, <3>2
  <2>2. Cardinality(K) # 0 BY <1>5, <2>1, FS_EmptySet
  <2>3. nh # 0 /\ Cardinality(K) <= SizeNode(w) BY <1>5, <1>10, <1>12, <2>2
  <2>4. ~w.dummy BY <1>10, <1>11, <2>3
  <2> QED BY <1>5, <1>11, <1>12, <1>13, <2>1, <2>3, <2>4, RoomLeft
<1> QED BY <1>1, <1>10, <1>13 DEF w

\* u is t with a place made for a key, in whatever way.
Grown(t, u, key, at) ==
  /\ Table(u) /\ (u.flags = t.flags \/ u.flags = {})
  /\ at = luaH_get(u, key) /\ at # Nowhere
  /\ \A k \in Keys : Value(u, k) = Value(t, k)

\* newkey makes a place, with or without rehash.
LEMMA NewkeyGrows ==
    ASSUME NEW t, Table(t), NEW key \in Keys, luaH_get(t, key) = Nowhere
    PROVE  Grown(t, newkey(t, key).t, key, newkey(t, key).at)
<1>1. CASE HasRoom(t, key)
  <2>1. newkey(t, key) = Place(t, key) BY <1>1 DEF newkey
  <2>2. Ready(t, Place(t, key).t, key, Place(t, key).at) BY <1>1, PlaceReady
  <2> QED BY <2>1, <2>2 DEF Ready, Grown
<1>2. CASE ~HasRoom(t, key)
  <2> DEFINE u == rehash(t, key)
             w == [u EXCEPT !.flags = {}]
             r == Slot(w, key)
  <2>1. newkey(t, key) = r BY <1>2 DEF newkey
  <2>2. Table(u) /\ (\A k \in Keys : Value(u, k) = Value(t, k)) /\ (luaH_get(w, key) # Nowhere \/ HasRoom(w, key))
    BY RehashKeeps
  <2> HIDE DEF u
  <2>3. Table(w) /\ w.flags = {} /\ \A k \in Keys : Value(w, k) = Value(u, k) BY <2>2, FlagsKept
  <2> HIDE DEF w
  <2>4. Ready(w, r.t, key, r.at) BY <2>2, <2>3, SlotReady
  <2> HIDE DEF r
  <2>5. Grown(t, r.t, key, r.at) BY <2>2, <2>3, <2>4 DEF Ready, Grown
  <2> QED BY <2>1, <2>5
<1> QED BY <1>1, <1>2

\* A key that is there stays where it is, with all the rest.
Settled(t, u, key, at) ==
  /\ Grown(t, u, key, at)
  /\ luaH_get(t, key) # Nowhere => u = t \/ u = [t EXCEPT !.flags = {}]

\* luaH_setnum and luaH_set find or make a place.
LEMMA SetnumSettles ==
    ASSUME NEW t, Table(t), NEW key \in Keys, key[1] = "num"
    PROVE  Settled(t, luaH_setnum(t, key).t, key, luaH_setnum(t, key).at)
<1>1. luaH_getnum(t, key) = luaH_get(t, key) BY DEF luaH_get
<1>2. CASE luaH_get(t, key) # Nowhere
  <2>1. luaH_setnum(t, key) = [t |-> t, at |-> luaH_get(t, key)] BY <1>1, <1>2 DEF luaH_setnum
  <2> QED BY <1>2, <2>1 DEF Settled, Grown
<1>3. CASE luaH_get(t, key) = Nowhere
  <2>1. luaH_setnum(t, key) = newkey(t, key) BY <1>1, <1>3 DEF luaH_setnum
  <2> QED BY <1>3, <2>1, NewkeyGrows DEF Settled
<1> QED BY <1>2, <1>3

\* luaH_set forgets the flags besides.
LEMMA SetSettles ==
    ASSUME NEW t, Table(t), NEW key \in Keys
    PROVE  Settled(t, luaH_set(t, key).t, key, luaH_set(t, key).at) /\ luaH_set(t, key).t.flags = {}
<1> DEFINE w == [t EXCEPT !.flags = {}]
           at == luaH_get(t, key)
<1>1. luaH_set(t, key) = IF at # Nowhere THEN [t |-> w, at |-> at] ELSE newkey(w, key) BY DEF luaH_set
<1>2. Table(w) /\ w.flags = {} /\ \A k \in Keys : luaH_get(w, k) = luaH_get(t, k) /\ Value(w, k) = Value(t, k)
  BY FlagsKept
<1>3. CASE at # Nowhere
  <2>1. Settled(t, w, key, at)
    <3>1. at = luaH_get(w, key) BY <1>2
    <3>2. w = [t EXCEPT !.flags = {}] OBVIOUS
    <3> HIDE DEF w
    <3> QED BY <1>2, <1>3, <3>1, <3>2 DEF Settled, Grown
  <2> HIDE DEF w
  <2>2. luaH_set(t, key) = [t |-> w, at |-> at] BY <1>1, <1>3
  <2> QED BY <1>2, <2>1, <2>2
<1>4. CASE at = Nowhere
  <2> HIDE DEF w
  <2>1. luaH_set(t, key) = newkey(w, key) BY <1>1, <1>4
  <2>2. Grown(w, newkey(w, key).t, key, newkey(w, key).at) BY <1>2, <1>4, NewkeyGrows
  <2> DEFINE u == newkey(w, key).t
             p == newkey(w, key).at
  <2> HIDE DEF u, p
  <2>3. Grown(w, u, key, p) BY <2>2 DEF u, p
  <2>4. u.flags = {} BY <1>2, <2>3 DEF Grown
  <2>5. Settled(t, u, key, p) BY <1>2, <1>4, <2>3, <2>4 DEF Grown, Settled
  <2> QED BY <2>1, <2>4, <2>5 DEF u, p
<1> QED BY <1>3, <1>4

----------------------------------------------------------------------------
(* Storing a value.                                                          *)
\* Shapes are kept by one change after the other.
LEMMA ShapeTrans ==
    ASSUME NEW t, NEW u, NEW w, ShapeKept(t, u), ShapeKept(u, w)
    PROVE  ShapeKept(t, w)
<1>1. /\ w \in TableSet /\ DOMAIN w.node = DOMAIN t.node /\ DOMAIN w.array = DOMAIN t.array
      /\ w.lastfree = t.lastfree
  BY DEF ShapeKept
<1>2. w.dummy = t.dummy BY DEF ShapeKept
<1>3. ASSUME NEW i \in DOMAIN t.node PROVE NodeKept(t.node[i], w.node[i])
  <2>1. NodeKept(t.node[i], u.node[i]) /\ NodeKept(u.node[i], w.node[i]) BY DEF ShapeKept
  <2> QED BY <2>1 DEF NodeKept
<1>4. \A j \in DOMAIN w.array : w.array[j] # Nil => Num(j) \in Keys BY DEF ShapeKept
<1> QED BY <1>1, <1>2, <1>3, <1>4 DEF ShapeKept

\* u is t with a place for a key, and other flags perhaps.
Prepared(t, u, key, at) ==
  /\ Table(u) /\ at = luaH_get(u, key) /\ at # Nowhere
  /\ \A k \in Keys : Value(u, k) = Value(t, k)
  /\ luaH_get(t, key) # Nowhere => ShapeKept(t, u) /\ \A k \in Keys : luaH_get(u, k) = luaH_get(t, k)

\* Flags may stay what they are.
LEMMA SameFlags ==
    ASSUME NEW t \in TableSet
    PROVE  [t EXCEPT !.flags = t.flags] = t
BY DEF TableSet

\* What luaH_set leaves is prepared for a value, ...
LEMMA SettledPrepared ==
    ASSUME NEW t, Table(t), NEW u, NEW key \in Keys, NEW at, Settled(t, u, key, at)
    PROVE  Prepared(t, u, key, at)
<1>1. t \in TableSet /\ t.flags \in SUBSET Events BY DEF Table, TableSet
<1>2. ASSUME luaH_get(t, key) # Nowhere PROVE ShapeKept(t, u) /\ \A k \in Keys : luaH_get(u, k) = luaH_get(t, k)
  <2>1. u = t \/ u = [t EXCEPT !.flags = {}] BY <1>2 DEF Settled
  <2>2. CASE u = t
    <3>1. u = [t EXCEPT !.flags = t.flags] BY <1>1, <2>2, SameFlags
    <3> QED BY <1>1, <3>1, FlagsKept
  <2>3. CASE u = [t EXCEPT !.flags = {}] BY <2>3, FlagsKept
  <2> QED BY <2>1, <2>2, <2>3
<1> QED BY <1>2 DEF Settled, Grown, Prepared

\* ... with any flags.
LEMMA PreparedFlags ==
    ASSUME NEW t, NEW u, NEW key \in Keys, NEW at, Prepared(t, u, key, at), NEW F \in SUBSET Events
    PROVE  Prepared(t, [u EXCEPT !.flags = F], key, at)
<1> DEFINE w == [u EXCEPT !.flags = F]
<1>1. ShapeKept(u, w) /\ Table(w) /\ \A k \in Keys : luaH_get(w, k) = luaH_get(u, k) /\ Value(w, k) = Value(u, k)
  BY FlagsKept DEF Prepared
<1> HIDE DEF w
<1>2. luaH_get(t, key) # Nowhere => ShapeKept(t, w) BY <1>1, ShapeTrans DEF Prepared
<1>3. Prepared(t, w, key, at) BY <1>1, <1>2 DEF Prepared
<1> QED BY <1>3 DEF w

\* What a value stored in its place, and other flags, make of a table.
Written(t, w, key, v) ==
  /\ Table(w) /\ Value(w, key) = v /\ \A k \in Keys : k # key => Value(w, k) = Value(t, k)
  /\ luaH_get(t, key) # Nowhere => ShapeKept(t, w) /\ \A k \in Keys : luaH_get(w, k) = luaH_get(t, k)

\* Then a value can be stored, ...
LEMMA StoreWrites ==
    ASSUME NEW t, NEW u, NEW key \in Keys, NEW at, Prepared(t, u, key, at), NEW v \in Entries
    PROVE  Written(t, Store(u, at, v), key, v) /\ Store(u, at, v).flags = u.flags
<1> DEFINE s == Store(u, at, v)
<1>1. /\ ShapeKept(u, s) /\ Table(s) /\ s.flags = u.flags
      /\ \A k \in Keys : luaH_get(s, k) = luaH_get(u, k)
      /\ Value(s, key) = v
      /\ \A k \in Keys : k # key => Value(s, k) = Value(u, k)
  BY StoreKeeps DEF Prepared
<1> HIDE DEF s
<1>2. luaH_get(t, key) # Nowhere => ShapeKept(t, s) BY <1>1, ShapeTrans DEF Prepared
<1>3. Written(t, s, key, v) BY <1>1, <1>2 DEF Prepared, Written
<1> QED BY <1>1, <1>3 DEF s

\* ... and flags changed after it.
LEMMA WrittenFlags ==
    ASSUME NEW t, NEW s, NEW key \in Keys, NEW v, Written(t, s, key, v), NEW F \in SUBSET Events
    PROVE  Written(t, [s EXCEPT !.flags = F], key, v) /\ [s EXCEPT !.flags = F].flags = F
<1> DEFINE w == [s EXCEPT !.flags = F]
<1>1. ShapeKept(s, w) /\ Table(w) /\ w.flags = F
      /\ \A k \in Keys : luaH_get(w, k) = luaH_get(s, k) /\ Value(w, k) = Value(s, k)
  BY FlagsKept DEF Written
<1> HIDE DEF w
<1>2. luaH_get(t, key) # Nowhere => ShapeKept(t, w) BY <1>1, ShapeTrans DEF Written
<1>3. Written(t, w, key, v) BY <1>1, <1>2 DEF Written
<1> QED BY <1>1, <1>3 DEF w

\* Looking for a metamethod may leave its flag.
LEMMA FasttmKeeps ==
    ASSUME NEW t, Table(t), NEW event \in Events
    PROVE  \E F \in SUBSET Events :
             /\ fasttm(t, event).t = [t EXCEPT !.flags = F]
             /\ \A e \in F : e \in t.flags \/ (e = event /\ Value(t, Str(event)) = Nil)
<1>1. t \in TableSet /\ t.flags \in SUBSET Events BY DEF Table, TableSet
<1> DEFINE tm == Value(t, Str(event))
<1> HIDE DEF tm
<1>2. fasttm(t, event) = IF event \in t.flags THEN [t |-> t, tm |-> Nil]
                         ELSE [t |-> IF tm = Nil THEN [t EXCEPT !.flags = @ \cup {event}] ELSE t, tm |-> tm]
  BY DEF fasttm, tm
<1>3. CASE event \in t.flags \/ tm # Nil
  <2>1. fasttm(t, event).t = t BY <1>2, <1>3
  <2>2. fasttm(t, event).t = [t EXCEPT !.flags = t.flags] BY <1>1, <2>1, SameFlags
  <2> QED BY <1>1, <2>2
<1>4. CASE event \notin t.flags /\ tm = Nil
  <2> DEFINE F == t.flags \cup {event}
  <2>1. fasttm(t, event).t = [t EXCEPT !.flags = F] BY <1>2, <1>4
  <2>2. F \in SUBSET Events BY <1>1
  <2>3. \A e \in F : e \in t.flags \/ (e = event /\ Value(t, Str(event)) = Nil) BY <1>4 DEF tm
  <2> QED BY <2>1, <2>2, <2>3
<1> QED BY <1>3, <1>4

----------------------------------------------------------------------------
(* The numbers of elements, for a traversal.                                 *)
\* The key and the value of an element, by its number.
KeyAt(t, j) == IF j <= Len(t.array) THEN Num(j) ELSE t.node[j - Len(t.array) - 1].key
ValAt(t, j) == IF j <= Len(t.array) THEN t.array[j] ELSE t.node[j - Len(t.array) - 1].val

\* The parts of a table are as long as their sizes say.
LEMMA TableSizes ==
    ASSUME NEW t, Table(t)
    PROVE  /\ Len(t.array) \in Nat /\ DOMAIN t.array = 1..Len(t.array)
           /\ SizeNode(t) \in Nat \ {0} /\ DOMAIN t.node = 0..SizeNode(t) - 1
<1>1. t \in TableSet /\ t.array \in Seq(Entries) BY DEF Table, TableSet
<1> QED BY <1>1, TableNodes

\* A value that is there has a number.
LEMMA PositionFacts ==
    ASSUME NEW t, Table(t), NEW key \in Keys, Value(t, key) # Nil
    PROVE  /\ Position(t, key) \in 1..Len(t.array) + SizeNode(t)
           /\ KeyAt(t, Position(t, key)) = key /\ ValAt(t, Position(t, key)) = Value(t, key)
<1>1. /\ Len(t.array) \in Nat /\ DOMAIN t.array = 1..Len(t.array)
      /\ SizeNode(t) \in Nat \ {0} /\ DOMAIN t.node = 0..SizeNode(t) - 1
  BY TableSizes
<1> DEFINE l == Len(t.array)
           m == SizeNode(t)
<1> HIDE DEF l, m
<1>2. l \in Nat /\ DOMAIN t.array = 1..l /\ m \in Nat \ {0} /\ DOMAIN t.node = 0..m - 1 BY <1>1 DEF l, m
<1>3. CASE InArray(t, key)
  <2>1. Position(t, key) = key[2] BY <1>3, GetArray DEF Position
  <2>2. key[2] \in 1..l /\ key = Num(key[2]) BY <1>2, <1>3, KeyKinds DEF InArray
  <2>3. KeyAt(t, key[2]) = key /\ ValAt(t, key[2]) = t.array[key[2]] BY <2>2 DEF KeyAt, ValAt, l
  <2>4. key[2] \in 1..l + m BY <1>2, <2>2
  <2> QED BY <1>3, <2>1, <2>3, <2>4, ValueFacts DEF l, m
<1>4. CASE ~InArray(t, key)
  <2>1. PICK i \in DOMAIN t.node : LiveAt(t, i, key) BY <1>4, ValueFacts
  <2>2. luaH_get(t, key) = <<"node", i>> BY <2>1, GetNode
  <2>3. Position(t, key) = l + i + 1 BY <2>2 DEF Position, l
  <2>4. l + i + 1 \in 1..l + m /\ ~(l + i + 1 <= l) /\ l + i + 1 - l - 1 = i BY <1>2, <2>1
  <2> DEFINE p == l + i + 1
  <2>5. p \in 1..l + m /\ ~(p <= l) /\ p - l - 1 = i /\ Position(t, key) = p
    <3>1. p \in 1..l + m /\ ~(p <= l) /\ p - l - 1 = i BY <1>2, <2>1
    <3>2. Position(t, key) = p BY <2>3
    <3> QED BY <3>1, <3>2
  <2> HIDE DEF p
  <2>6. KeyAt(t, p) = t.node[p - l - 1].key /\ ValAt(t, p) = t.node[p - l - 1].val BY <2>5 DEF KeyAt, ValAt, l
  <2>7. KeyAt(t, p) = t.node[i].key /\ ValAt(t, p) = t.node[i].val BY <2>5, <2>6
  <2> QED BY <2>1, <2>5, <2>7, ValueFacts DEF LiveAt, l, m
<1> QED BY <1>3, <1>4

\* Among the nodes with a key, the one that is alive is found first.
LEMMA AliveFound ==
    ASSUME NEW t, Table(t), NEW key \in Keys, NEW i, LiveAt(t, i, key)
    PROVE  InChain(t, mainposition(t, key), key, TRUE) = <<"node", i>>
<1> DEFINE mp == mainposition(t, key)
           m == SizeNode(t)
           next == Links(t)
           hits == {x \in Chain(t, mp) : t.node[x].key = key /\ (TRUE \/ t.node[x].tt = "live")}
<1>1. t \in TableSet /\ next \in LinkSet(m) /\ Reached(t) /\ LiveOnce(t) /\ LiveFirst(t) BY DEF Table, Straight
<1>2. m \in Nat \ {0} /\ DOMAIN t.node = 0..m - 1 /\ t.node \in [0..m - 1 -> NodeSet] BY <1>1, TableNodes
<1>3. mp \in 0..m - 1 BY <1>1, HomeIn
<1>4. key # Nil BY KeyKinds
<1> HIDE DEF m, next
<1>5. Chain(t, mp) \subseteq 0..m - 1 BY <1>1, <1>2, <1>3, ChainStart DEF Chain, next
<1>6. i \in 0..m - 1 /\ t.node[i].key = key /\ t.node[i].tt = "live" BY <1>2 DEF LiveAt
<1>7. i \in hits
  <2>1. i \in Chain(t, mp) BY <1>1, <1>2, <1>4, <1>6 DEF Reached
  <2> QED BY <1>6, <2>1
<1>8. ASSUME NEW y \in hits PROVE y = i \/ (y \in 0..m - 1 /\ t.node[y].key = key /\ t.node[y].tt = "dead" /\ i \notin Chain(t, y))
  <2>1. y \in 0..m - 1 /\ t.node[y].key = key BY <1>5
  <2>2. t.node[y].tt \in {"live", "dead"} BY <1>2, <2>1 DEF NodeSet
  <2>3. CASE t.node[y].tt = "live" BY <1>1, <1>2, <1>4, <1>6, <2>1, <2>3 DEF LiveOnce
  <2>4. CASE t.node[y].tt = "dead" BY <1>1, <1>2, <1>4, <1>6, <2>1, <2>4 DEF LiveFirst
  <2> QED BY <2>2, <2>3, <2>4
<1>9. hits \subseteq Chain(t, i)
  <2> SUFFICES ASSUME NEW y \in hits PROVE y \in Chain(t, i)
    OBVIOUS
  <2>1. CASE y = i BY <1>1, <1>2, <1>6, <2>1, ChainStart DEF Chain, next
  <2>2. CASE y # i
    <3>1. i \notin Chain(t, y) BY <1>8, <2>2
    <3>2. y \in ChainOf(next, mp) /\ i \in ChainOf(next, mp) BY <1>7 DEF Chain, next
    <3> HIDE DEF mp, hits
    <3>3. y \in ChainOf(next, i) \/ i \in ChainOf(next, y) BY <1>1, <1>2, <1>3, <3>2, ChainTotal
    <3> QED BY <3>1, <3>3 DEF Chain, next
  <2> QED BY <2>1, <2>2
<1>10. \A x \in hits : hits \subseteq Chain(t, x) => x = i BY <1>7, <1>8
<1>11. InChain(t, mp, key, TRUE) = IF hits = {} THEN Nowhere ELSE <<"node", CHOOSE x \in hits : hits \subseteq Chain(t, x)>>
  BY DEF InChain
<1> HIDE DEF hits, mp
<1>12. (CHOOSE x \in hits : hits \subseteq Chain(t, x)) = i BY <1>7, <1>9, <1>10
<1> QED BY <1>7, <1>11, <1>12 DEF mp

\* The key of an element with a value leads to its number again.
LEMMA IndexFacts ==
    ASSUME NEW t, Table(t), NEW j \in 1..Len(t.array) + SizeNode(t), ValAt(t, j) # Nil
    PROVE  /\ KeyAt(t, j) \in Keys /\ findindex(t, KeyAt(t, j)) = j /\ Position(t, KeyAt(t, j)) = j
           /\ Value(t, KeyAt(t, j)) = ValAt(t, j)
<1>1. /\ Len(t.array) \in Nat /\ DOMAIN t.array = 1..Len(t.array)
      /\ SizeNode(t) \in Nat \ {0} /\ DOMAIN t.node = 0..SizeNode(t) - 1
  BY TableSizes
<1> DEFINE l == Len(t.array)
           m == SizeNode(t)
           key == KeyAt(t, j)
<1> HIDE DEF l, m, key
<1>2. l \in Nat /\ DOMAIN t.array = 1..l /\ m \in Nat \ {0} /\ DOMAIN t.node = 0..m - 1 /\ j \in 1..l + m
  BY <1>1 DEF l, m
<1>3. CASE j <= l
  <2>1. key = Num(j) /\ ValAt(t, j) = t.array[j] BY <1>3 DEF KeyAt, ValAt, l, key
  <2>2. j \in 1..l BY <1>2, <1>3
  <2>3. key \in Keys BY <1>2, <2>1, <2>2 DEF Table, ArrayPart
  <2>4. InArray(t, key) /\ key[2] = j /\ key # Nil /\ key[1] = "num" BY <1>2, <2>1, <2>2, <2>3, KeyKinds DEF InArray
  <2>5. Value(t, key) = ValAt(t, j) BY <2>1, <2>3, <2>4, ValueFacts
  <2>6. findindex(t, key) = j BY <2>4 DEF findindex, InArray
  <2>7. Position(t, key) = j BY <2>4, GetArray DEF Position
  <2> QED BY <2>3, <2>5, <2>6, <2>7 DEF key
<1>4. CASE ~(j <= l)
  <2> DEFINE i == j - l - 1
  <2>1. i \in DOMAIN t.node /\ l + i + 1 = j BY <1>2, <1>4
  <2>2. key = t.node[i].key /\ ValAt(t, j) = t.node[i].val BY <1>4 DEF KeyAt, ValAt, l, key
  <2> HIDE DEF i
  <2>3. key \in Keys /\ LiveAt(t, i, key) BY <2>1, <2>2, ValuesLive DEF LiveAt
  <2>4. luaH_get(t, key) = <<"node", i>> /\ ~InArray(t, key) BY <2>3, GetNode
  <2>5. Value(t, key) = ValAt(t, j) BY <2>2, <2>3, ValueFacts
  <2>6. Position(t, key) = j BY <2>1, <2>4 DEF Position, l
  <2>7. InChain(t, mainposition(t, key), key, TRUE) = <<"node", i>> BY <2>3, AliveFound
  <2>8. key # Nil /\ <<"node", i>> # Nowhere BY <2>3, KeyKinds, Places
  <2> DEFINE at == InChain(t, mainposition(t, key), key, TRUE)
  <2>9. findindex(t, key) = IF key = Nil THEN 0
                            ELSE IF key[1] = "num" /\ key[2] \in DOMAIN t.array THEN key[2]
                            ELSE IF at = Nowhere THEN NoNode
                            ELSE l + at[2] + 1
    BY DEF findindex, l
  <2> HIDE DEF at
  <2>10. at # Nowhere /\ at[2] = i
    <3>1. at = <<"node", i>> BY <2>7 DEF at
    <3> QED BY <2>8, <3>1
  <2>11. findindex(t, key) = l + i + 1 BY <2>4, <2>8, <2>9, <2>10 DEF InArray
  <2> QED BY <2>1, <2>3, <2>5, <2>6, <2>11 DEF key
<1> QED BY <1>3, <1>4

\* What luaH_next comes to.
LEMMA NextFacts ==
    ASSUME NEW t, Table(t), NEW key, findindex(t, key) \in 0..Len(t.array) + SizeNode(t)
    PROVE  /\ luaH_next(t, key).state # "error"
           /\ luaH_next(t, key).state = "end" =>
                \A j \in findindex(t, key) + 1..Len(t.array) + SizeNode(t) : ValAt(t, j) = Nil
           /\ luaH_next(t, key).state = "on" =>
                \E j \in findindex(t, key) + 1..Len(t.array) + SizeNode(t) :
                  /\ ValAt(t, j) # Nil /\ luaH_next(t, key).key = KeyAt(t, j)
                  /\ \A o \in findindex(t, key) + 1..Len(t.array) + SizeNode(t) : ValAt(t, o) # Nil => j <= o
<1>1. Len(t.array) \in Nat /\ SizeNode(t) \in Nat \ {0} BY TableSizes
<1> DEFINE i == findindex(t, key)
           size == Len(t.array)
           last == size + SizeNode(t)
           left == {j \in i + 1..last : ValAt(t, j) # Nil}
           first == CHOOSE j \in left : \A o \in left : j <= o
<1>2. luaH_next(t, key) = IF i = NoNode THEN [state |-> "error", key |-> key]
                          ELSE IF left = {} THEN [state |-> "end", key |-> key]
                          ELSE [state |-> "on", key |-> KeyAt(t, first)]
  BY DEF luaH_next, KeyAt, ValAt
<1>3. i \in Nat /\ last \in Nat /\ i # NoNode BY <1>1 DEF NoNode
<1>4. left \in SUBSET Nat BY <1>3
<1>5. ASSUME left # {} PROVE first \in left /\ \A o \in left : first <= o
  <2> HIDE DEF left
  <2>1. \E j \in left : \A o \in left : j <= o BY <1>4, <1>5, LeastNat
  <2> QED BY <2>1
<1> HIDE DEF first
<1>6. CASE left = {}
  <2>1. luaH_next(t, key).state = "end" BY <1>2, <1>3, <1>6
  <2> QED BY <1>6, <2>1
<1>7. CASE left # {}
  <2>1. luaH_next(t, key).state = "on" /\ luaH_next(t, key).key = KeyAt(t, first) BY <1>2, <1>3, <1>7
  <2>2. first \in i + 1..last /\ ValAt(t, first) # Nil BY <1>5, <1>7
  <2>3. \A o \in i + 1..last : ValAt(t, o) # Nil => first <= o BY <1>5, <1>7
  <2> HIDE DEF i, last, left
  <2>4. \E j \in i + 1..last : /\ ValAt(t, j) # Nil /\ luaH_next(t, key).key = KeyAt(t, j)
                               /\ \A o \in i + 1..last : ValAt(t, o) # Nil => j <= o
    BY <2>1, <2>2, <2>3
  <2> QED BY <2>1, <2>4 DEF i, last
<1> QED BY <1>6, <1>7

----------------------------------------------------------------------------
(* Borders.                                                                  *)
\* Searching between a present i and an absent j ends next to a border.
LEMMA BinarySearchFinds ==
    ASSUME NEW i \in Nat, NEW j \in Nat, i < j, NEW absent, j \in absent
    PROVE  LET r == BinarySearch(i, j, absent)
           IN r \in i..j - 1 /\ (r = i \/ r \notin absent) /\ r + 1 \in absent
<1> DEFINE S == Nat \X Nat
           start == <<i, j>>
           step == [k \in Nat |-> [e \in S |-> Halved(e, absent)]]
           n == j - i
           D(f) == f = [k \in 0..n |-> IF k = 0 THEN start ELSE Halved(f[k - 1], absent)]
           ends == CHOOSE f : D(f)
           J(k, e) == /\ e \in S /\ i <= e[1] /\ e[1] < e[2]
                      /\ e[1] = i \/ e[1] \notin absent
                      /\ e[2] \in absent /\ e[2] <= j
                      /\ e[2] - e[1] <= 1 \/ e[2] - e[1] <= n - k
<1>1. n \in Nat /\ start \in S OBVIOUS
<1>2. ASSUME NEW e \in S PROVE Halved(e, absent) \in S
  <2>1. e[1] \in Nat /\ e[2] \in Nat OBVIOUS
  <2>2. (e[1] + e[2]) \div 2 \in Nat BY <2>1
  <2> QED BY <2>1, <2>2 DEF Halved
<1>3. step \in [Nat -> [S -> S]] BY <1>2
<1>4. \A k \in Nat : \A e \in S : step[k][e] = Halved(e, absent) OBVIOUS
<1> HIDE DEF step
<1>5. \E f : Steps(f, n, S, start, step) BY <1>1, <1>3, StepsExist
<1>6. \E f : D(f)
  <2>1. PICK f : Steps(f, n, S, start, step) BY <1>5
  <2> HIDE DEF n, start, S
  <2>2. ASSUME NEW k \in 0..n PROVE f[k] = IF k = 0 THEN start ELSE Halved(f[k - 1], absent)
    <3>1. CASE k = 0 BY <2>1, <3>1 DEF Steps
    <3>2. CASE k # 0
      <4>1. k \in 1..n /\ k \in Nat /\ k - 1 \in 0..n BY <1>1, <3>2
      <4>2. f[k] = step[k][f[k - 1]] /\ f[k - 1] \in S BY <2>1, <4>1 DEF Steps
      <4> QED BY <1>4, <3>2, <4>1, <4>2
    <3> QED BY <3>1, <3>2
  <2>3. f = [k \in 0..n |-> f[k]] BY <2>1 DEF Steps
  <2>4. D(f) BY <2>2, <2>3
  <2> HIDE DEF D
  <2> QED BY <2>4
<1>7. BinarySearch(i, j, absent) = ends[n][1] BY DEF BinarySearch
<1>8. D(ends)
  <2> HIDE DEF D
  <2> QED BY <1>6
<1> HIDE DEF ends
<1>9. \A k \in 0..n : ends[k] = IF k = 0 THEN start ELSE Halved(ends[k - 1], absent) BY <1>8
<1> HIDE DEF D
<1>10. J(0, ends[0])
  <2>1. ends[0] = <<i, j>> BY <1>1, <1>9
  <2> HIDE DEF ends
  <2> QED BY <2>1
<1>11. ASSUME NEW k \in Nat, NEW e, J(k, e) PROVE J(k + 1, Halved(e, absent))
  <2> DEFINE a == e[1]
             b == e[2]
             m == (a + b) \div 2
  <2>1. a \in Nat /\ b \in Nat /\ e = <<a, b>> /\ i <= a /\ a < b /\ (a = i \/ a \notin absent) /\ b \in absent /\ b <= j
        /\ (b - a <= 1 \/ b - a <= n - k)
    BY <1>11
  <2>2. Halved(e, absent) = IF b - a <= 1 THEN e ELSE IF m \in absent THEN <<a, m>> ELSE <<m, b>> BY DEF Halved
  <2> HIDE DEF a, b
  <2>3. CASE b - a <= 1
    <3>1. Halved(e, absent) = <<a, b>> BY <2>1, <2>2, <2>3
    <3> QED BY <2>1, <2>3, <3>1
  <2>4. CASE ~(b - a <= 1)
    <3>1. m \in Nat /\ a < m /\ m < b /\ b - m < b - a /\ m - a < b - a BY <2>1, <2>4
    <3> HIDE DEF m
    <3>2. CASE m \in absent
      <4>1. Halved(e, absent) = <<a, m>> BY <2>2, <2>4, <3>2
      <4>2. m - a <= n - (k + 1) BY <1>1, <2>1, <2>4, <3>1
      <4>3. i <= a /\ a < m /\ m <= j BY <2>1, <3>1
      <4> HIDE DEF n
      <4> QED BY <2>1, <3>1, <3>2, <4>1, <4>2, <4>3
    <3>3. CASE m \notin absent
      <4>1. Halved(e, absent) = <<m, b>> BY <2>2, <2>4, <3>3
      <4>2. b - m <= n - (k + 1) BY <1>1, <2>1, <2>4, <3>1
      <4>3. i <= m /\ m < b /\ b <= j BY <2>1, <3>1
      <4> HIDE DEF n
      <4> QED BY <2>1, <3>1, <3>3, <4>1, <4>2, <4>3
    <3> QED BY <3>2, <3>3
  <2> QED BY <2>3, <2>4
<1>12. \A k \in Nat : k <= n => J(k, ends[k])
  <2> DEFINE T == {k \in Nat : k <= n => J(k, ends[k])}
  <2> HIDE DEF J, n
  <2>1. 0 \in T BY <1>10
  <2>2. ASSUME NEW k \in Nat, k \in T PROVE k + 1 \in T
    <3>1. ASSUME k + 1 <= n PROVE J(k + 1, ends[k + 1])
      <4>1. k <= n /\ k + 1 \in 0..n /\ k + 1 # 0 /\ k + 1 - 1 = k BY <1>1, <3>1
      <4>2. J(k, ends[k]) BY <2>2, <4>1
      <4>3. ends[k + 1] = Halved(ends[k], absent) BY <1>9, <4>1
      <4> QED BY <1>11, <4>2, <4>3
    <3> QED BY <3>1
  <2> HIDE DEF T
  <2>3. Nat \subseteq T BY <2>1, <2>2, NatSets
  <2> QED BY <2>3 DEF T
<1>13. J(n, ends[n])
  <2> HIDE DEF J
  <2> QED BY <1>1, <1>12
<1> DEFINE a == ends[n][1]
           b == ends[n][2]
<1>14. a \in Nat /\ b \in Nat /\ i <= a /\ a < b /\ (a = i \/ a \notin absent) /\ b \in absent /\ b <= j
       /\ (b - a <= 1 \/ b - a <= n - n)
  BY <1>13
<1> HIDE DEF a, b
<1>15. b = a + 1 BY <1>1, <1>14
<1>16. a \in i..j - 1 /\ a + 1 \in absent BY <1>14, <1>15
<1>17. BinarySearch(i, j, absent) = a BY <1>7 DEF a
<1> QED BY <1>14, <1>16, <1>17

\* A number is absent when it has no value.
LEMMA AbsentMeans ==
    ASSUME NEW t, Table(t), NEW n \in Nat
    PROVE  NumAbsent(t, n) <=> ~(Num(n) \in Keys /\ Value(t, Num(n)) # Nil)
<1>1. CASE Num(n) \in Keys
  <2>1. luaH_getnum(t, Num(n)) = luaH_get(t, Num(n)) BY KeyKinds DEF luaH_get
  <2> QED BY <1>1, <2>1 DEF NumAbsent, Value
<1>2. CASE Num(n) \notin Keys BY <1>2 DEF NumAbsent, Table, ArrayPart
<1> QED BY <1>1, <1>2

\* The key n has a value in t, which is what NumAbsent denies.
HasNum(t, n) == Num(n) \in Keys /\ Value(t, Num(n)) # Nil

\* Only positive integers are keys of this kind.
LEMMA NumbersNat ==
    ASSUME NEW t, NEW n, HasNum(t, n)
    PROVE  n \in Nat
<1>1. Num(n) \in Keys /\ Num(n)[1] = "num" /\ Num(n)[2] = n BY KeyKinds DEF HasNum
<1>2. Num(n)[2] \in Numbers BY <1>1, KeyKinds
<1> QED BY <1>1, <1>2, TableKeys

\* Numbers beyond the array that have values are in as many nodes.
LEMMA NodesCount ==
    ASSUME NEW t, Table(t), NEW s \in [0..SizeNode(t) -> Nat],
           \A k \in 0..SizeNode(t) : HasNum(t, s[k]) /\ s[k] \notin DOMAIN t.array,
           \A k, o \in 0..SizeNode(t) : o < k => s[o] # s[k]
    PROVE  FALSE
<1> DEFINE m == SizeNode(t)
           N == DOMAIN t.node
           Q == 0..m
           f == [k \in Q |-> CHOOSE i \in N : LiveAt(t, i, Num(s[k]))]
<1>1. m \in Nat \ {0} /\ N = 0..m - 1 BY TableSizes
<1> HIDE DEF m
<1>2. ASSUME NEW k \in Q PROVE f[k] \in N /\ LiveAt(t, f[k], Num(s[k]))
  <2> DEFINE key == Num(s[k])
  <2>1. key \in Keys /\ Value(t, key) # Nil /\ ~InArray(t, key)
    BY KeyKinds DEF HasNum, InArray, m
  <2> HIDE DEF key
  <2>2. \E i \in N : LiveAt(t, i, key) BY <2>1, ValueFacts
  <2>3. f[k] = CHOOSE i \in N : LiveAt(t, i, key) BY DEF key
  <2> HIDE DEF f, N
  <2>4. f[k] \in N /\ LiveAt(t, f[k], key) BY <2>2, <2>3
  <2> QED BY <2>4 DEF key
<1>3. f \in [Q -> N] BY <1>2
<1>4. ASSUME NEW k \in Q, NEW o \in Q, f[k] = f[o] PROVE k = o
  <2>1. Num(s[k]) = Num(s[o]) BY <1>2, <1>4 DEF LiveAt
  <2>2. s[k] = s[o] BY <2>1 DEF Num
  <2>3. k \in Nat /\ o \in Nat /\ k \in 0..SizeNode(t) /\ o \in 0..SizeNode(t) BY <1>1 DEF m
  <2>4. ~(o < k) /\ ~(k < o) BY <2>2, <2>3
  <2> QED BY <2>3, <2>4
<1>5. IsFiniteSet(Q) /\ Cardinality(Q) = m + 1
  <2>1. 0 \in Int /\ m \in Int /\ ~(0 > m) BY <1>1
  <2> QED BY <1>1, <2>1, FS_Interval
<1>6. IsFiniteSet(N) /\ Cardinality(N) = m
  <2>1. 0 \in Int /\ m - 1 \in Int /\ ~(0 > m - 1) BY <1>1
  <2> QED BY <1>1, <2>1, FS_Interval
<1>7. Cardinality(N) < Cardinality(Q) BY <1>1, <1>5, <1>6
<1> HIDE DEF f, N, Q
<1>8. \E x, y \in Q : x # y /\ f[x] = f[y] BY <1>3, <1>5, <1>6, <1>7, FS_PigeonHole
<1> QED BY <1>4, <1>8

\* The search beyond the array comes to a border.
LEMMA UnboundFinds ==
    ASSUME NEW t, Table(t), NEW j \in Nat, j = Len(t.array), j = 0 \/ HasNum(t, j)
    PROVE  LET n == unbound_search(t, j)
           IN n \in Nat /\ (n = 0 \/ HasNum(t, n)) /\ ~HasNum(t, n + 1)
<1> DEFINE S == Nat \X Nat
           start == <<j, j + 1>>
           m == SizeNode(t)
           step == [k \in Nat |-> [e \in S |-> Doubled(t, e)]]
           D(f) == f = [k \in 0..m |-> IF k = 0 THEN start ELSE Doubled(t, f[k - 1])]
           ends == CHOOSE f : D(f)
           lo == ends[m][1]
           hi == ends[m][2]
           absent == {n \in lo + 1..hi : NumAbsent(t, n)}
<1>1. m \in Nat \ {0} /\ DOMAIN t.array = 1..j BY TableSizes
<1>2. start \in S OBVIOUS
<1> HIDE DEF m
<1>3. ASSUME NEW e \in S PROVE Doubled(t, e) \in S
  <2>1. e[2] \in Nat /\ 2 * e[2] \in Nat OBVIOUS
  <2> QED BY <2>1 DEF Doubled
<1>4. step \in [Nat -> [S -> S]] BY <1>3
<1>5. \A k \in Nat : \A e \in S : step[k][e] = Doubled(t, e) OBVIOUS
<1> HIDE DEF step
<1>6. \E f : Steps(f, m, S, start, step) BY <1>1, <1>2, <1>4, StepsExist
<1>7. \E f : D(f)
  <2>1. PICK f : Steps(f, m, S, start, step) BY <1>6
  <2> HIDE DEF start, S
  <2>2. ASSUME NEW k \in 0..m PROVE f[k] = IF k = 0 THEN start ELSE Doubled(t, f[k - 1])
    <3>1. CASE k = 0 BY <2>1, <3>1 DEF Steps
    <3>2. CASE k # 0
      <4>1. k \in 1..m /\ k \in Nat /\ k - 1 \in 0..m BY <1>1, <3>2
      <4>2. f[k] = step[k][f[k - 1]] /\ f[k - 1] \in S BY <2>1, <4>1 DEF Steps
      <4> QED BY <1>5, <3>2, <4>1, <4>2
    <3> QED BY <3>1, <3>2
  <2>3. f = [k \in 0..m |-> f[k]] BY <2>1 DEF Steps
  <2>4. D(f) BY <2>2, <2>3
  <2> HIDE DEF D
  <2> QED BY <2>4
<1>8. unbound_search(t, j) = BinarySearch(lo, hi, absent) BY DEF unbound_search, m
<1>9. D(ends)
  <2> HIDE DEF D
  <2> QED BY <1>7
<1> HIDE DEF ends
<1>10. \A k \in 0..m : ends[k] = IF k = 0 THEN start ELSE Doubled(t, ends[k - 1]) BY <1>9
<1> HIDE DEF D
<1> DEFINE J(k) == /\ ends[k] \in S /\ ends[k][1] < ends[k][2] /\ j < ends[k][2]
                   /\ ends[k][1] = j \/ HasNum(t, ends[k][1])
                   /\ HasNum(t, ends[k][2]) => \A o \in Nat : o < k => HasNum(t, ends[o][2]) /\ ends[o][2] < ends[k][2]
<1>11. J(0)
  <2>1. ends[0] = <<j, j + 1>> BY <1>1, <1>10
  <2> HIDE DEF ends
  <2> QED BY <2>1
<1>12. ASSUME NEW k \in Nat, k + 1 <= m, J(k) PROVE J(k + 1)
  <2>1. k + 1 \in 0..m /\ k + 1 # 0 /\ k + 1 - 1 = k BY <1>1, <1>12
  <2>2. ends[k + 1] = Doubled(t, ends[k]) BY <1>10, <2>1
  <2> DEFINE e == ends[k]
             a == e[1]
             b == e[2]
  <2>3. a \in Nat /\ b \in Nat /\ e = <<a, b>> /\ a < b /\ j < b /\ (a = j \/ HasNum(t, a)) BY <1>12
  <2>4. Doubled(t, e) = IF NumAbsent(t, b) THEN e ELSE <<b, 2 * b>> BY DEF Doubled
  <2>5. NumAbsent(t, b) <=> ~HasNum(t, b) BY <2>3, AbsentMeans DEF HasNum
  <2>6. HasNum(t, b) => \A o \in Nat : o < k => HasNum(t, ends[o][2]) /\ ends[o][2] < b BY <1>12
  <2> HIDE DEF a, b, e
  <2>7. CASE ~HasNum(t, b)
    <3>1. ends[k + 1] = <<a, b>> BY <2>2, <2>3, <2>4, <2>5, <2>7 DEF e
    <3> QED BY <2>3, <2>7, <3>1
  <2>8. CASE HasNum(t, b)
    <3>1. ends[k + 1] = <<b, 2 * b>> BY <2>2, <2>4, <2>5, <2>8 DEF e
    <3>2. b < 2 * b /\ j < 2 * b /\ 2 * b \in Nat BY <2>3
    <3>3. ASSUME NEW o \in Nat, o < k + 1 PROVE HasNum(t, ends[o][2]) /\ ends[o][2] < 2 * b
      <4>1. CASE o = k BY <2>8, <3>2, <4>1 DEF b, e
      <4>2. CASE o # k
        <5>1. o < k BY <3>3, <4>2
        <5>2. HasNum(t, ends[o][2]) /\ ends[o][2] < b BY <2>6, <2>8, <5>1
        <5>3. ends[o][2] < 2 * b
          <6>1. \A x \in Nat : x < b => x < 2 * b BY <2>3
          <6>2. ends[o][2] \in Nat BY <5>2, NumbersNat
          <6> QED BY <5>2, <6>1, <6>2
        <5> QED BY <5>2, <5>3
      <4> QED BY <4>1, <4>2
    <3> QED BY <2>3, <2>8, <3>1, <3>2, <3>3
  <2> QED BY <2>7, <2>8
<1>13. \A k \in Nat : k <= m => J(k)
  <2> DEFINE T == {k \in Nat : k <= m => J(k)}
  <2> HIDE DEF J
  <2>1. 0 \in T BY <1>11
  <2>2. ASSUME NEW k \in Nat, k \in T PROVE k + 1 \in T
    <3>1. ASSUME k + 1 <= m PROVE J(k + 1)
      <4>1. k <= m BY <1>1, <3>1
      <4> QED BY <1>12, <2>2, <3>1, <4>1
    <3> QED BY <3>1
  <2> HIDE DEF T
  <2>3. Nat \subseteq T BY <2>1, <2>2, NatSets
  <2> QED BY <2>3 DEF T
<1>14. lo \in Nat /\ hi \in Nat /\ lo < hi /\ j < hi /\ (lo = j \/ HasNum(t, lo))
       /\ (HasNum(t, hi) => \A o \in Nat : o < m => HasNum(t, ends[o][2]))
  BY <1>1, <1>13
\* Were hi present too, there would be more such numbers than nodes.
<1>15. ~HasNum(t, hi)
  <2> SUFFICES ASSUME HasNum(t, hi) PROVE FALSE
    OBVIOUS
  <2> DEFINE s == [k \in 0..m |-> ends[k][2]]
  <2>1. ASSUME NEW k \in 0..m PROVE HasNum(t, ends[k][2]) /\ ends[k][2] \in Nat /\ j < ends[k][2]
    <3>1. k \in Nat /\ k <= m /\ (k = m \/ k < m) BY <1>1
    <3>2. J(k) BY <1>13, <3>1
    <3>3. HasNum(t, ends[k][2]) BY <1>14, <3>1
    <3> QED BY <3>2, <3>3
  <2>2. s \in [0..m -> Nat] BY <2>1
  <2>3. \A k \in 0..m : HasNum(t, s[k]) /\ s[k] \notin DOMAIN t.array BY <1>1, <2>1
  <2>4. ASSUME NEW k \in 0..m, NEW o \in 0..m, o < k PROVE s[o] # s[k]
    <3>1. k \in Nat /\ o \in Nat /\ k <= m BY <1>1
    <3>2. J(k) /\ HasNum(t, ends[k][2]) BY <1>13, <2>1, <3>1
    <3>3. ends[o][2] < ends[k][2] BY <2>4, <3>1, <3>2
    <3>4. ends[o][2] \in Nat /\ ends[k][2] \in Nat BY <2>1
    <3>5. ends[o][2] # ends[k][2] BY <3>3, <3>4
    <3> QED BY <3>5
  <2> HIDE DEF s
  <2> QED BY <2>2, <2>3, <2>4, NodesCount DEF m
<1> HIDE DEF lo, hi, J
<1>16. hi \in absent
  <2>1. NumAbsent(t, hi) BY <1>14, <1>15, AbsentMeans DEF HasNum
  <2> QED BY <1>14, <2>1
<1> DEFINE n == BinarySearch(lo, hi, absent)
<1>17. n \in lo..hi - 1 /\ (n = lo \/ n \notin absent) /\ n + 1 \in absent
  <2> HIDE DEF absent
  <2> QED BY <1>14, <1>16, BinarySearchFinds
<1> HIDE DEF n
<1>18. n \in Nat /\ n + 1 \in Nat BY <1>14, <1>17
<1>19. ~HasNum(t, n + 1) BY <1>17, <1>18, AbsentMeans DEF HasNum
<1>20. n = 0 \/ HasNum(t, n)
  <2>1. CASE n = lo BY <1>14, <2>1
  <2>2. CASE n # lo
    <3>1. n \in lo + 1..hi BY <1>14, <1>17, <2>2
    <3>2. ~NumAbsent(t, n) BY <1>17, <2>2, <3>1
    <3> QED BY <1>18, <3>2, AbsentMeans DEF HasNum
  <2> QED BY <2>1, <2>2
<1>21. unbound_search(t, j) = n BY <1>8 DEF n
<1> QED BY <1>18, <1>19, <1>20, <1>21

\* luaH_getn comes to a border in each of its cases.
LEMMA GetnFinds ==
    ASSUME NEW t, Table(t)
    PROVE  luaH_getn(t) \in Nat /\ (luaH_getn(t) = 0 \/ HasNum(t, luaH_getn(t))) /\ ~HasNum(t, luaH_getn(t) + 1)
<1> DEFINE j == Len(t.array)
           absent == {n \in 1..j : t.array[n] = Nil}
<1>1. j \in Nat /\ DOMAIN t.array = 1..j BY TableSizes
<1>2. ASSUME NEW n \in 1..j PROVE HasNum(t, n) <=> t.array[n] # Nil
  <2>1. InArray(t, Num(n)) BY <1>1, KeyKinds DEF InArray
  <2>2. Num(n) \in Keys => Value(t, Num(n)) = t.array[n] BY <2>1, KeyKinds, ValueFacts
  <2>3. t.array[n] # Nil => Num(n) \in Keys BY <1>1 DEF Table, ArrayPart
  <2> QED BY <2>2, <2>3 DEF HasNum
<1>3. luaH_getn(t) = IF j > 0 /\ t.array[j] = Nil THEN BinarySearch(0, j, absent)
                     ELSE IF t.dummy THEN j ELSE unbound_search(t, j)
  BY DEF luaH_getn
<1> HIDE DEF j
<1>4. CASE j > 0 /\ t.array[j] = Nil
  <2> DEFINE n == BinarySearch(0, j, absent)
  <2>1. j \in absent BY <1>1, <1>4
  <2>2. n \in 0..j - 1 /\ (n = 0 \/ n \notin absent) /\ n + 1 \in absent
    <3> HIDE DEF absent
    <3>1. 0 \in Nat /\ 0 < j BY <1>1, <1>4
    <3> QED BY <1>1, <2>1, <3>1, BinarySearchFinds
  <2> HIDE DEF n
  <2>3. n \in Nat /\ n + 1 \in 1..j /\ (n = 0 \/ n \in 1..j) BY <1>1, <2>2
  <2>4. luaH_getn(t) = n BY <1>3, <1>4 DEF n
  <2> QED BY <1>2, <2>2, <2>3, <2>4
<1>5. CASE ~(j > 0 /\ t.array[j] = Nil)
  <2>1. j = 0 \/ HasNum(t, j) BY <1>1, <1>2, <1>5
  <2>2. CASE t.dummy
    <3>1. luaH_getn(t) = j BY <1>3, <1>5, <2>2
    <3>2. ASSUME Num(j + 1) \in Keys PROVE Value(t, Num(j + 1)) = Nil
      <4>1. ~InArray(t, Num(j + 1)) BY <1>1, KeyKinds DEF InArray
      <4>2. \A i \in DOMAIN t.node : t.node[i].key = Nil BY <2>2 DEF Table, DummyNode
      <4>3. \A i \in DOMAIN t.node : ~LiveAt(t, i, Num(j + 1)) BY <3>2, <4>2, KeyKinds DEF LiveAt
      <4> QED BY <3>2, <4>1, <4>3, ValueFacts
    <3> QED BY <1>1, <2>1, <3>1, <3>2 DEF HasNum
  <2>3. CASE ~t.dummy
    <3>1. luaH_getn(t) = unbound_search(t, j) BY <1>3, <1>5, <2>3
    <3>2. j = Len(t.array) BY DEF j
    <3> QED BY <1>1, <2>1, <3>1, <3>2, UnboundFinds
  <2> QED BY <2>2, <2>3
<1> QED BY <1>4, <1>5

----------------------------------------------------------------------------
(* The steps of the specification.                                           *)
\* luaH_new makes an empty table.
LEMMA NewTable ==
    ASSUME NEW na \in Nat, NEW nh \in Nat
    PROVE  /\ Table(luaH_new(na, nh)) /\ luaH_new(na, nh).flags = Events
           /\ \A k \in Keys : Value(luaH_new(na, nh), k) = Nil
<1> DEFINE nodes == EmptyNodes(nh)
           u == luaH_new(na, nh)
<1>1. PICK n \in Nat \ {0} :
             /\ nh <= n /\ nodes.node = [i \in 0..n - 1 |-> Node(Nil, Nil, NoNode)]
             /\ nodes.dummy \in BOOLEAN /\ (nodes.dummy <=> nh = 0)
             /\ nodes.lastfree = (IF nh = 0 THEN 0 ELSE n) /\ (nh = 0 => n = 1)
  BY EmptyNodesFacts
<1> HIDE DEF nodes
<1>2. u = [array |-> [i \in 1..na |-> Nil], node |-> nodes.node, dummy |-> nodes.dummy,
           lastfree |-> nodes.lastfree, flags |-> Events]
  BY DEF luaH_new, nodes
<1> HIDE DEF u
<1>3. u.array = [i \in 1..na |-> Nil] /\ u.node = nodes.node /\ u.lastfree = nodes.lastfree /\ u.flags = Events BY <1>2
<1>4. u.dummy = nodes.dummy BY <1>2
<1>5. u.array \in Seq(Entries)
  <2>1. u.array \in [1..na -> Entries] BY <1>3 DEF Entries
  <2> QED BY <2>1, SeqDef
<1>6. nodes.node \in NodeArrays
  <2>1. Node(Nil, Nil, NoNode) \in NodeSet BY DEF Node, NodeSet, Entries, NoNode
  <2>2. nodes.node \in [0..n - 1 -> NodeSet] BY <1>1, <2>1
  <2> QED BY <2>2 DEF NodeArrays
<1>7. nodes.lastfree \in Nat BY <1>1
<1>8. u \in TableSet BY <1>1, <1>2, <1>3, <1>5, <1>6, <1>7 DEF TableSet
<1>9. u.node = [i \in 0..n - 1 |-> Node(Nil, Nil, NoNode)] BY <1>1, <1>3
<1>10. u.lastfree = (IF u.dummy THEN 0 ELSE n) BY <1>1, <1>3, <1>4
<1>11. u.dummy => n = 1 BY <1>1, <1>4
<1>12. \A j \in DOMAIN u.array : u.array[j] = Nil BY <1>3
<1>13. Table(u) /\ \A i \in DOMAIN u.node : u.node[i].key = Nil BY <1>8, <1>9, <1>10, <1>11, <1>12, EmptyTable
<1>14. ASSUME NEW k \in Keys PROVE Value(u, k) = Nil
  <2>1. CASE InArray(u, k) BY <1>12, <1>13, <2>1, ValueFacts DEF InArray
  <2>2. CASE ~InArray(u, k)
    <3>1. \A i \in DOMAIN u.node : ~LiveAt(u, i, k) BY <1>13, KeyKinds DEF LiveAt
    <3> QED BY <1>13, <2>2, <3>1, ValueFacts
  <2> QED BY <2>1, <2>2
<1> QED BY <1>3, <1>13, <1>14 DEF u

\* The invariant holds at the start.
LEMMA InitIInv == Init => IInv
<1> SUFFICES ASSUME Init PROVE IInv
  OBVIOUS
<1>1. PICK na \in Sizes, nh \in Sizes : h = luaH_new(na, nh) BY DEF Init
<1>2. na \in Nat /\ nh \in Nat BY TableKeys
<1>3. Table(h) /\ h.flags = Events /\ \A k \in Keys : Value(h, k) = Nil BY <1>1, <1>2, NewTable
<1>4. contents = [k \in Keys |-> Nil] /\ iter = NoTraversal BY DEF Init
<1>5. TypeOK BY <1>4 DEF TypeOK, NoTraversal, Entries
<1>6. FindsStored BY <1>3, <1>4 DEF FindsStored
<1>7. AbsentRemembered BY <1>3, <1>4, KeyKinds DEF AbsentRemembered
<1>8. Walk BY <1>4 DEF Walk, NoTraversal
<1> QED BY <1>3, <1>5, <1>6, <1>7, <1>8 DEF IInv

\* A traversal goes on undisturbed in a table whose elements keep their
\* numbers.
LEMMA WalkKept ==
    ASSUME TypeOK, Table(h), Walk, NEW u, u = h', ShapeKept(h, u),
           \A k \in Keys : contents[k] # Nil => luaH_get(u, k) = luaH_get(h, k),
           \A k \in Keys : contents'[k] # Nil => contents[k] # Nil,
           iter'.on => iter.on /\ iter'.key = iter.key /\ iter'.seen = iter.seen /\ iter'.kept \subseteq iter.kept,
           \A k \in iter'.kept : contents'[k] # Nil
    PROVE  Walk'
<1> SUFFICES ASSUME iter'.on PROVE LET f == findindex(u, iter'.key)
      IN /\ f \in 0..Len(u.array) + SizeNode(u)
         /\ IsInjective(iter'.seen)
         /\ \A k \in ToSet(iter'.seen) : contents'[k] # Nil => Position(u, k) <= f
         /\ \A k \in iter'.kept : contents'[k] # Nil /\ (Position(u, k) <= f => k \in ToSet(iter'.seen))
  BY DEF Walk
<1>1. iter.on /\ iter'.key = iter.key /\ iter'.seen = iter.seen /\ iter'.kept \subseteq iter.kept
      /\ iter.key \in Entries /\ iter.seen \in Seq(Keys) /\ iter.kept \subseteq Keys
  BY DEF TypeOK
<1> DEFINE f == findindex(h, iter.key)
<1>2. /\ f \in 0..Len(h.array) + SizeNode(h)
      /\ IsInjective(iter.seen)
      /\ \A k \in ToSet(iter.seen) : contents[k] # Nil => Position(h, k) <= f
      /\ \A k \in iter.kept : contents[k] # Nil /\ (Position(h, k) <= f => k \in ToSet(iter.seen))
  BY <1>1 DEF Walk
<1>3. findindex(u, iter'.key) = f BY <1>1, ShapeIndex
<1>4. SizeNode(u) = SizeNode(h) BY ShapeLinks
<1>5. Len(u.array) = Len(h.array)
  <2>1. Table(u) /\ DOMAIN u.array = DOMAIN h.array BY ShapeTable DEF ShapeKept
  <2>2. DOMAIN u.array = 1..Len(u.array) /\ DOMAIN h.array = 1..Len(h.array)
        /\ Len(u.array) \in Nat /\ Len(h.array) \in Nat
    BY <2>1, TableSizes
  <2> QED BY <2>1, <2>2, SameLen
<1>6. ASSUME NEW k \in Keys, contents[k] # Nil PROVE Position(u, k) = Position(h, k)
  <2>1. luaH_get(u, k) = luaH_get(h, k) BY <1>6
  <2> QED BY <1>5, <2>1 DEF Position
<1>7. ToSet(iter.seen) \subseteq Keys BY <1>1 DEF ToSet
<1> HIDE DEF f
<1> QED BY <1>1, <1>2, <1>3, <1>4, <1>5, <1>6, <1>7

\* A value that was written.
LEMMA StoredKeeps ==
    ASSUME IInv, NEW key \in Keys, NEW v \in {Nil, key}, NEW u, u = h', Written(h, u, key, v), Stored(key, v),
           \A event \in u.flags : event \in h.flags /\ Str(event) # key
    PROVE  IInv'
<1>1. TypeOK /\ Table(h) /\ FindsStored /\ AbsentRemembered /\ Walk BY DEF IInv
<1>2. contents' = [contents EXCEPT ![key] = v]
      /\ iter' = IF contents[key] = Nil THEN NoTraversal
                 ELSE IF v = Nil THEN [iter EXCEPT !.kept = @ \ {key}] ELSE iter
  BY DEF Stored
<1>3. contents \in [Keys -> Entries] /\ iter \in [on : BOOLEAN, key : Entries, seen : Seq(Keys), kept : SUBSET Keys]
  BY <1>1 DEF TypeOK
<1>4. contents'[key] = v /\ \A k \in Keys : k # key => contents'[k] = contents[k] BY <1>2, <1>3
<1>5. TypeOK'
  <2>1. contents' \in [Keys -> Entries] BY <1>2, <1>3 DEF Entries
  <2>2. iter' \in [on : BOOLEAN, key : Entries, seen : Seq(Keys), kept : SUBSET Keys]
    <3>1. NoTraversal \in [on : BOOLEAN, key : Entries, seen : Seq(Keys), kept : SUBSET Keys]
      BY DEF NoTraversal, Entries
    <3>2. [iter EXCEPT !.kept = @ \ {key}] \in [on : BOOLEAN, key : Entries, seen : Seq(Keys), kept : SUBSET Keys]
      BY <1>3
    <3> QED BY <1>2, <1>3, <3>1, <3>2
  <2> QED BY <2>1, <2>2 DEF TypeOK
<1>6. Table(u) /\ Value(u, key) = v /\ \A k \in Keys : k # key => Value(u, k) = Value(h, k) BY DEF Written
<1>7. FindsStored'
  <2>1. \A k \in Keys : Value(u, k) = contents'[k] BY <1>1, <1>4, <1>6 DEF FindsStored
  <2> QED BY <2>1 DEF FindsStored
<1>8. AbsentRemembered'
  <2>1. u.flags \subseteq Events BY <1>6 DEF Table, TableSet
  <2>2. \A event \in u.flags : contents'[Str(event)] = Nil BY <1>1, <1>4, <2>1, KeyKinds DEF AbsentRemembered
  <2> QED BY <2>2 DEF AbsentRemembered
<1>9. Walk'
  <2>1. CASE contents[key] = Nil
    <3>1. iter'.on = FALSE BY <1>2, <2>1 DEF NoTraversal
    <3> QED BY <3>1 DEF Walk
  <2>2. CASE contents[key] # Nil
    <3>1. luaH_get(h, key) # Nowhere BY <1>1, <2>2, ValueFacts DEF FindsStored
    <3>2. ShapeKept(h, u) /\ \A k \in Keys : luaH_get(u, k) = luaH_get(h, k) BY <3>1 DEF Written
    <3>3. \A k \in Keys : contents'[k] # Nil => contents[k] # Nil BY <1>4, <2>2
    <3>4. iter' = IF v = Nil THEN [iter EXCEPT !.kept = @ \ {key}] ELSE iter BY <1>2, <2>2
    <3>5. /\ iter'.on => iter.on
          /\ iter'.key = iter.key /\ iter'.seen = iter.seen /\ iter'.kept \subseteq iter.kept
          /\ (v = Nil => key \notin iter'.kept)
      BY <1>3, <3>4
    <3>6. CASE iter.on
      <4>1. \A k \in iter.kept : contents[k] # Nil BY <1>1, <3>6 DEF Walk
      <4>2. \A k \in iter'.kept : contents'[k] # Nil
        <5> SUFFICES ASSUME NEW k \in iter'.kept PROVE contents'[k] # Nil
          OBVIOUS
        <5>1. k \in Keys /\ contents[k] # Nil BY <1>3, <3>5, <4>1
        <5>2. CASE k = key BY <1>4, <3>5, <5>1, <5>2, KeyKinds
        <5>3. CASE k # key BY <1>4, <5>1, <5>3
        <5> QED BY <5>2, <5>3
      <4> QED BY <1>1, <3>2, <3>3, <3>5, <4>2, WalkKept
    <3>7. CASE ~iter.on BY <3>5, <3>7 DEF Walk
    <3> QED BY <3>6, <3>7
  <2> QED BY <2>1, <2>2
<1>10. Table(h)' BY <1>6
<1> QED BY <1>5, <1>7, <1>8, <1>9, <1>10 DEF IInv

\* lua_rawset, ...
LEMMA RawsetKeeps ==
    ASSUME IInv, NEW key \in Keys, NEW v \in {Nil, key}, lua_rawset(key, v)
    PROVE  IInv'
<1>1. Table(h) BY DEF IInv
<1> DEFINE r == luaH_set(h, key)
           u == Store(r.t, r.at, v)
<1>2. h' = u /\ Stored(key, v) BY DEF lua_rawset
<1>3. Settled(h, r.t, key, r.at) /\ r.t.flags = {} BY <1>1, SetSettles
<1> HIDE DEF r
<1>4. Prepared(h, r.t, key, r.at) BY <1>1, <1>3, SettledPrepared
<1>5. v \in Entries BY DEF Entries
<1>6. Written(h, u, key, v) /\ u.flags = {} BY <1>3, <1>4, <1>5, StoreWrites
<1> HIDE DEF u
<1> QED BY <1>2, <1>6, StoredKeeps

\* ... lua_rawseti, which leaves the flags when it sets a number, ...
LEMMA RawsetiKeeps ==
    ASSUME IInv, NEW key \in Keys, NEW v \in {Nil, key}, lua_rawseti(key, v)
    PROVE  IInv'
<1>1. Table(h) /\ key[1] = "num" BY DEF IInv, lua_rawseti
<1> DEFINE r == luaH_setnum(h, key)
           u == Store(r.t, r.at, v)
<1>2. h' = u /\ Stored(key, v) BY DEF lua_rawseti
<1>3. Settled(h, r.t, key, r.at) BY <1>1, SetnumSettles
<1> HIDE DEF r
<1>4. Prepared(h, r.t, key, r.at) /\ (r.t.flags = h.flags \/ r.t.flags = {}) BY <1>1, <1>3, SettledPrepared DEF Settled, Grown
<1>5. v \in Entries BY DEF Entries
<1>6. Written(h, u, key, v) /\ u.flags = r.t.flags
  <2>1. Prepared(h, r.t, key, r.at) BY <1>4
  <2> QED BY <1>5, <2>1, StoreWrites
<1>7. \A event \in u.flags : event \in h.flags /\ Str(event) # key BY <1>1, <1>4, <1>6, KeyKinds
<1> HIDE DEF u
<1> QED BY <1>2, <1>6, <1>7, StoredKeeps

\* What changes no value, and ends a traversal.
LEMMA PreparedKeeps ==
    ASSUME IInv, NEW u, u = h', Table(u), \A k \in Keys : Value(u, k) = Value(h, k),
           contents' = contents, iter' = NoTraversal, \A event \in u.flags : contents[Str(event)] = Nil
    PROVE  IInv'
<1>1. TypeOK /\ FindsStored BY DEF IInv
<1>2. TypeOK' BY <1>1 DEF TypeOK, NoTraversal, Entries
<1>3. FindsStored' BY <1>1 DEF FindsStored
<1>4. AbsentRemembered' BY DEF AbsentRemembered
<1>5. iter'.on = FALSE BY DEF NoTraversal
<1>6. Walk' BY <1>5 DEF Walk
<1>7. Table(h)' OBVIOUS
<1> QED BY <1>2, <1>3, <1>4, <1>6, <1>7 DEF IInv

\* luaV_settable stores, or leaves the key to the metamethod.
LEMMA SettableKeeps ==
    ASSUME IInv, NEW key \in Keys, NEW v \in {Nil, key}, luaV_settable(key, v)
    PROVE  IInv'
<1>1. Table(h) /\ FindsStored BY DEF IInv
<1> DEFINE r == luaH_set(h, key)
           there == ValueAt(r.t, r.at) # Nil
           tm == fasttm(r.t, "__newindex")
           stored == there \/ tm.tm = Nil
           after == IF there THEN r.t ELSE tm.t
<1>2. IF stored THEN h' = [Store(after, r.at, v) EXCEPT !.flags = {}] /\ Stored(key, v)
      ELSE h' = after /\ contents' = contents /\ iter' = NoTraversal
  BY DEF luaV_settable, Assign
<1>3. Settled(h, r.t, key, r.at) /\ r.t.flags = {} BY <1>1, SetSettles
<1> HIDE DEF r
<1>4. Prepared(h, r.t, key, r.at) BY <1>1, <1>3, SettledPrepared
<1>5. Table(r.t) /\ \A k \in Keys : Value(r.t, k) = Value(h, k) BY <1>4 DEF Prepared
<1>6. PICK F \in SUBSET Events : /\ tm.t = [r.t EXCEPT !.flags = F]
                                 /\ \A e \in F : e \in r.t.flags \/ (e = "__newindex" /\ Value(r.t, Str("__newindex")) = Nil)
  BY <1>5, FasttmKeeps, TableKeys
<1> DEFINE w == [r.t EXCEPT !.flags = F]
<1>7. Prepared(h, tm.t, key, r.at) /\ tm.t.flags = F
  <2>1. Prepared(h, w, key, r.at) BY <1>4, PreparedFlags
  <2>2. w.flags = F BY <1>5, FlagsKept
  <2>3. tm.t = w BY <1>6
  <2> HIDE DEF w, tm
  <2> QED BY <2>1, <2>2, <2>3
<1> HIDE DEF tm, there
<1>8. Prepared(h, after, key, r.at) /\ \A e \in after.flags : e = "__newindex" /\ Value(h, Str("__newindex")) = Nil
  <2>1. \A e \in F : e = "__newindex" /\ Value(h, Str("__newindex")) = Nil BY <1>3, <1>5, <1>6, KeyKinds
  <2>2. CASE there BY <1>3, <1>4, <2>2
  <2>3. CASE ~there BY <1>7, <2>1, <2>3
  <2> QED BY <2>2, <2>3
<1> HIDE DEF after, stored
<1>9. CASE stored
  <2> DEFINE s == Store(after, r.at, v)
             u == [s EXCEPT !.flags = {}]
  <2>1. h' = u /\ Stored(key, v) BY <1>2, <1>9
  <2>2. v \in Entries BY DEF Entries
  <2>3. Written(h, s, key, v) BY <1>8, <2>2, StoreWrites
  <2> HIDE DEF s
  <2>4. Written(h, u, key, v) /\ u.flags = {} BY <2>3, WrittenFlags
  <2> HIDE DEF u
  <2> QED BY <2>1, <2>4, StoredKeeps
<1>10. CASE ~stored
  <2>1. h' = after /\ contents' = contents /\ iter' = NoTraversal BY <1>2, <1>10
  <2>2. Table(after) /\ \A k \in Keys : Value(after, k) = Value(h, k) BY <1>8 DEF Prepared
  <2>3. Str("__newindex") \in Keys BY KeyKinds, TableKeys
  <2>4. \A e \in after.flags : contents[Str(e)] = Nil BY <1>1, <1>8, <2>3 DEF FindsStored
  <2> QED BY <2>1, <2>2, <2>4, PreparedKeeps
<1> QED BY <1>9, <1>10

\* What changes no value, and lets a traversal go on.
LEMMA ShapeKeeps ==
    ASSUME IInv, NEW u, u = h', ShapeKept(h, u),
           \A k \in Keys : Value(u, k) = Value(h, k),
           \A k \in Keys : contents[k] # Nil => luaH_get(u, k) = luaH_get(h, k),
           contents' = contents, iter' = iter, \A event \in u.flags : contents[Str(event)] = Nil
    PROVE  IInv'
<1>1. TypeOK /\ Table(h) /\ FindsStored /\ Walk BY DEF IInv
<1>2. TypeOK' BY <1>1 DEF TypeOK
<1>3. FindsStored' BY <1>1 DEF FindsStored
<1>4. AbsentRemembered' BY DEF AbsentRemembered
<1>5. Table(u) BY <1>1, ShapeTable
<1>6. Walk'
  <2>1. CASE iter.on
    <3>1. \A k \in iter'.kept : contents'[k] # Nil BY <1>1, <2>1 DEF Walk
    <3>2. iter'.kept \subseteq iter.kept /\ \A k \in Keys : contents'[k] # Nil => contents[k] # Nil OBVIOUS
    <3> QED BY <1>1, <3>1, <3>2, WalkKept
  <2>2. CASE ~iter.on
    <3>1. ~iter'.on BY <2>2
    <3> QED BY <3>1 DEF Walk
  <2> QED BY <2>1, <2>2
<1>7. Table(h)' BY <1>5
<1> QED BY <1>2, <1>3, <1>4, <1>6, <1>7 DEF IInv

\* A lookup of a metamethod.
LEMMA GettmKeeps ==
    ASSUME IInv, NEW event \in Events, luaT_gettm(event)
    PROVE  IInv'
<1>1. Table(h) /\ FindsStored /\ AbsentRemembered BY DEF IInv
<1>2. PICK F \in SUBSET Events : /\ fasttm(h, event).t = [h EXCEPT !.flags = F]
                                 /\ \A e \in F : e \in h.flags \/ (e = event /\ Value(h, Str(event)) = Nil)
  BY <1>1, FasttmKeeps
<1> DEFINE u == [h EXCEPT !.flags = F]
<1>3. h' = u /\ contents' = contents /\ iter' = iter BY <1>2 DEF luaT_gettm
<1>4. ShapeKept(h, u) /\ u.flags = F /\ \A k \in Keys : luaH_get(u, k) = luaH_get(h, k) /\ Value(u, k) = Value(h, k)
  BY <1>1, FlagsKept
<1> HIDE DEF u
<1>5. \A e \in u.flags : contents[Str(e)] = Nil
  <2>1. Str(event) \in Keys BY KeyKinds
  <2> QED BY <1>1, <1>2, <1>4, <2>1 DEF AbsentRemembered, FindsStored
<1> QED BY <1>3, <1>4, <1>5, ShapeKeeps

\* The collector clears keys that have no value.
LEMMA RemoveentriesKeeps ==
    ASSUME IInv, removeentries
    PROVE  IInv'
<1>1. Table(h) /\ FindsStored /\ AbsentRemembered BY DEF IInv
<1> DEFINE Cleared(n) == IF n.val = Nil /\ n.key # Nil /\ Collectable(n.key) THEN [n EXCEPT !.tt = "dead"] ELSE n
           u == [h EXCEPT !.node = [i \in DOMAIN @ |-> Cleared(@[i])]]
<1>2. h' = u /\ contents' = contents /\ iter' = iter BY DEF removeentries
<1>3. h \in TableSet /\ ArrayPart(h) BY <1>1 DEF Table
<1>4. SizeNode(h) \in Nat \ {0} /\ h.node \in [0..SizeNode(h) - 1 -> NodeSet] BY <1>3, TableNodes
<1>5. ASSUME NEW n \in NodeSet
      PROVE /\ Cleared(n) \in NodeSet /\ Cleared(n).key = n.key /\ Cleared(n).val = n.val /\ Cleared(n).next = n.next
            /\ Cleared(n).tt = n.tt \/ (Cleared(n).tt = "dead" /\ n.val = Nil /\ n.key # Nil /\ n.key[1] = "str")
  <2>1. CASE n.val = Nil /\ n.key # Nil /\ Collectable(n.key)
    <3>1. Cleared(n) = [n EXCEPT !.tt = "dead"] BY <2>1
    <3>2. [n EXCEPT !.tt = "dead"] \in NodeSet BY DEF NodeSet
    <3>3. [n EXCEPT !.tt = "dead"].key = n.key /\ [n EXCEPT !.tt = "dead"].val = n.val
          /\ [n EXCEPT !.tt = "dead"].next = n.next /\ [n EXCEPT !.tt = "dead"].tt = "dead"
      BY DEF NodeSet
    <3> HIDE DEF Cleared
    <3> QED BY <2>1, <3>1, <3>2, <3>3 DEF Collectable
  <2>2. CASE ~(n.val = Nil /\ n.key # Nil /\ Collectable(n.key))
    <3>1. Cleared(n) = n BY <2>2
    <3> HIDE DEF Cleared
    <3> QED BY <3>1
  <2> QED BY <2>1, <2>2
<1> HIDE DEF Cleared
<1>6. /\ u.node = [i \in DOMAIN h.node |-> Cleared(h.node[i])] /\ u.array = h.array /\ u.lastfree = h.lastfree
      /\ u.flags = h.flags
  BY <1>3 DEF TableSet
<1>7. u.dummy = h.dummy BY <1>3 DEF TableSet
<1>8. u \in TableSet
  <2>1. [i \in DOMAIN h.node |-> Cleared(h.node[i])] \in [0..SizeNode(h) - 1 -> NodeSet] BY <1>4, <1>5
  <2>2. [i \in DOMAIN h.node |-> Cleared(h.node[i])] \in NodeArrays BY <1>4, <2>1 DEF NodeArrays
  <2> QED BY <1>3, <2>2 DEF TableSet
<1> HIDE DEF u
<1>9. ASSUME NEW i \in DOMAIN h.node
      PROVE NodeKept(h.node[i], u.node[i]) /\ u.node[i].val = h.node[i].val
            /\ (h.node[i].val # Nil => u.node[i].tt = h.node[i].tt)
  <2>1. h.node[i] \in NodeSet /\ u.node[i] = Cleared(h.node[i]) BY <1>4, <1>6
  <2>2. h.node[i].val # Nil => h.node[i].key # Nil /\ h.node[i].tt = "live" BY <1>1, ValuesLive
  <2> DEFINE a == h.node[i]
             b == u.node[i]
  <2>3. /\ b.key = a.key /\ b.val = a.val /\ b.next = a.next
        /\ b.tt = a.tt \/ (b.tt = "dead" /\ a.val = Nil /\ a.key # Nil /\ a.key[1] = "str")
    BY <1>5, <2>1
  <2> HIDE DEF a, b
  <2>4. NodeKept(a, b) BY <2>2, <2>3 DEF NodeKept, a
  <2> QED BY <2>3, <2>4 DEF a, b
<1>10. ShapeKept(h, u)
  <2>1. DOMAIN u.node = DOMAIN h.node BY <1>6
  <2>2. \A j \in DOMAIN u.array : u.array[j] # Nil => Num(j) \in Keys BY <1>3, <1>6 DEF ArrayPart
  <2>3. \A i \in DOMAIN h.node : NodeKept(h.node[i], u.node[i]) BY <1>9
  <2>4. DOMAIN u.array = DOMAIN h.array /\ u.lastfree = h.lastfree BY <1>6
  <2> QED BY <1>7, <1>8, <2>1, <2>2, <2>3, <2>4 DEF ShapeKept
<1>11. Table(u) BY <1>1, <1>10, ShapeTable
<1>12. ASSUME NEW k \in Keys, NEW i, LiveAt(u, i, k) PROVE LiveAt(h, i, k) /\ h.node[i].val = u.node[i].val
  <2>1. i \in DOMAIN h.node BY <1>6, <1>12 DEF LiveAt
  <2>2. NodeKept(h.node[i], u.node[i]) /\ u.node[i].val = h.node[i].val BY <1>9, <2>1
  <2>3. h.node[i].tt \in {"live", "dead"} /\ u.node[i].key = k /\ u.node[i].tt = "live"
    BY <1>4, <1>12, <2>1 DEF LiveAt, NodeSet
  <2>4. h.node[i].key = k /\ h.node[i].tt = "live" BY <2>2, <2>3 DEF NodeKept
  <2> QED BY <2>1, <2>2, <2>4 DEF LiveAt
<1>13. ASSUME NEW k \in Keys, NEW i, LiveAt(h, i, k), h.node[i].val # Nil
       PROVE LiveAt(u, i, k) /\ u.node[i].val = h.node[i].val
  <2>1. i \in DOMAIN h.node /\ h.node[i].key = k /\ h.node[i].tt = "live" BY <1>13 DEF LiveAt
  <2>2. NodeKept(h.node[i], u.node[i]) /\ u.node[i].val = h.node[i].val /\ u.node[i].tt = h.node[i].tt BY <1>9, <1>13, <2>1
  <2>3. u.node[i].key = h.node[i].key BY <2>2 DEF NodeKept
  <2>4. i \in DOMAIN u.node BY <1>6, <2>1
  <2> QED BY <2>1, <2>2, <2>3, <2>4 DEF LiveAt
<1>14. ASSUME NEW k \in Keys PROVE Value(u, k) = Value(h, k)
  <2>1. ASSUME NEW o, LiveAt(h, o, k), h.node[o].val # Nil PROVE \E j : LiveAt(u, j, k) /\ u.node[j].val = h.node[o].val
    BY <1>13, <2>1
  <2>2. ASSUME NEW j, LiveAt(u, j, k), u.node[j].val # Nil PROVE \E o : LiveAt(h, o, k) /\ u.node[j].val = h.node[o].val
    BY <1>12, <2>2
  <2> QED BY <1>1, <1>6, <1>11, <2>1, <2>2, SameValue
<1>15. ASSUME NEW k \in Keys, contents[k] # Nil PROVE luaH_get(u, k) = luaH_get(h, k)
  <2>1. Value(h, k) # Nil BY <1>1, <1>15 DEF FindsStored
  <2>2. CASE InArray(h, k)
    <3>1. InArray(u, k) BY <1>6, <2>2 DEF InArray
    <3> QED BY <2>2, <3>1, GetArray
  <2>3. CASE ~InArray(h, k)
    <3>1. PICK i \in DOMAIN h.node : LiveAt(h, i, k) BY <1>1, <2>1, <2>3, ValueFacts
    <3>2. h.node[i].val # Nil BY <1>1, <2>1, <3>1, ValueFacts
    <3>3. LiveAt(u, i, k) BY <1>13, <3>1, <3>2
    <3> QED BY <1>1, <1>11, <3>1, <3>3, GetNode
  <2> QED BY <2>2, <2>3
<1>16. \A event \in u.flags : contents[Str(event)] = Nil BY <1>1, <1>6 DEF AbsentRemembered
<1> QED BY <1>2, <1>10, <1>14, <1>15, <1>16, ShapeKeeps

\* A traversal begins before the first element.
LEMMA BeginKeeps ==
    ASSUME IInv, Begin
    PROVE  IInv'
<1>1. TypeOK /\ Table(h) /\ FindsStored /\ AbsentRemembered BY DEF IInv
<1>2. h' = h /\ contents' = contents
      /\ iter' = [on |-> TRUE, key |-> Nil, seen |-> <<>>, kept |-> {k \in Keys : contents[k] # Nil}]
  BY DEF Begin
<1>3. TypeOK' BY <1>1, <1>2 DEF TypeOK, Entries
<1>4. FindsStored' BY <1>1, <1>2 DEF FindsStored
<1>5. AbsentRemembered' BY <1>1, <1>2 DEF AbsentRemembered
<1>6. Walk'
  <2>1. Len(h.array) \in Nat /\ SizeNode(h) \in Nat \ {0} BY <1>1, TableSizes
  <2>2. findindex(h, iter'.key) = 0 BY <1>2 DEF findindex
  <2>3. IsInjective(iter'.seen) /\ ToSet(iter'.seen) = {} BY <1>2 DEF IsInjective, ToSet
  <2>4. ASSUME NEW k \in iter'.kept PROVE contents[k] # Nil /\ ~(Position(h, k) <= 0)
    <3>1. k \in Keys /\ contents[k] # Nil BY <1>2
    <3>2. Value(h, k) # Nil BY <1>1, <3>1 DEF FindsStored
    <3>3. Position(h, k) \in 1..Len(h.array) + SizeNode(h) BY <1>1, <3>1, <3>2, PositionFacts
    <3> QED BY <2>1, <3>1, <3>3
  <2>5. 0 \in 0..Len(h.array) + SizeNode(h) BY <2>1
  <2> QED BY <1>2, <2>2, <2>3, <2>4, <2>5 DEF Walk
<1>7. Table(h)' BY <1>1, <1>2
<1> QED BY <1>3, <1>4, <1>5, <1>6, <1>7 DEF IInv

\* A sequence with one more element.
LEMMA AppendFacts ==
    ASSUME NEW S, NEW s \in Seq(S), NEW x \in S
    PROVE  /\ Append(s, x) \in Seq(S) /\ ToSet(Append(s, x)) = ToSet(s) \cup {x}
           /\ IsInjective(s) /\ x \notin ToSet(s) => IsInjective(Append(s, x))
<1> DEFINE a == Append(s, x)
           n == Len(s)
<1>1. n \in Nat /\ DOMAIN s = 1..n BY LenProperties
<1>2. a \in Seq(S) /\ Len(a) = n + 1 /\ DOMAIN a = 1..n + 1 /\ (\A i \in 1..n : a[i] = s[i]) /\ a[n + 1] = x
  BY AppendProperties
<1> HIDE DEF a, n
<1>3. \A i : i \in 1..n + 1 <=> i \in 1..n \/ i = n + 1 BY <1>1
<1>4. ToSet(a) = ToSet(s) \cup {x} BY <1>1, <1>2, <1>3 DEF ToSet
<1>5. ASSUME IsInjective(s), x \notin ToSet(s) PROVE IsInjective(a)
  <2>1. \A i, j \in 1..n : s[i] = s[j] => i = j BY <1>1, <1>5 DEF IsInjective
  <2>2. \A i \in 1..n : s[i] # x BY <1>1, <1>5 DEF ToSet
  <2>3. \A i, j \in 1..n + 1 : a[i] = a[j] => i = j BY <1>2, <1>3, <2>1, <2>2
  <2> QED BY <1>2, <2>3 DEF IsInjective
<1> QED BY <1>2, <1>4, <1>5 DEF a

\* It goes on to the next element that has a value.
LEMMA NextKeyKeeps ==
    ASSUME IInv, lua_next
    PROVE  IInv'
<1>1. TypeOK /\ Table(h) /\ FindsStored /\ AbsentRemembered /\ Walk BY DEF IInv
<1> DEFINE r == luaH_next(h, iter.key)
<1>2. /\ iter.on /\ h' = h /\ contents' = contents
      /\ iter' = IF r.state = "on" THEN [iter EXCEPT !.key = r.key, !.seen = Append(@, r.key)] ELSE NoTraversal
  BY DEF lua_next
<1>3. iter \in [on : BOOLEAN, key : Entries, seen : Seq(Keys), kept : SUBSET Keys]
      /\ iter.seen \in Seq(Keys) /\ iter.kept \subseteq Keys
  BY <1>1 DEF TypeOK
<1> DEFINE f == findindex(h, iter.key)
           last == Len(h.array) + SizeNode(h)
<1>4. /\ f \in 0..last
      /\ IsInjective(iter.seen)
      /\ \A k \in ToSet(iter.seen) : contents[k] # Nil => Position(h, k) <= f
      /\ \A k \in iter.kept : contents[k] # Nil /\ (Position(h, k) <= f => k \in ToSet(iter.seen))
  BY <1>1, <1>2 DEF Walk
<1>5. FindsStored' BY <1>1, <1>2 DEF FindsStored
<1>6. AbsentRemembered' BY <1>1, <1>2 DEF AbsentRemembered
<1>7. Table(h)' BY <1>1, <1>2
<1>8. CASE r.state # "on"
  <2>1. iter' = NoTraversal BY <1>2, <1>8
  <2>2. TypeOK'
    <3>1. contents' \in [Keys -> Entries] BY <1>1, <1>2 DEF TypeOK
    <3>2. NoTraversal \in [on : BOOLEAN, key : Entries, seen : Seq(Keys), kept : SUBSET Keys]
      BY DEF NoTraversal, Entries
    <3> QED BY <2>1, <3>1, <3>2 DEF TypeOK
  <2>3. Walk' BY <2>1 DEF Walk, NoTraversal
  <2> QED BY <1>5, <1>6, <1>7, <2>2, <2>3 DEF IInv
<1>9. CASE r.state = "on"
  <2>1. PICK j \in f + 1..last : /\ ValAt(h, j) # Nil /\ r.key = KeyAt(h, j)
                                 /\ \A o \in f + 1..last : ValAt(h, o) # Nil => j <= o
    BY <1>1, <1>4, <1>9, NextFacts
  <2> DEFINE key == KeyAt(h, j)
  <2>2. last \in Nat
    <3>1. Len(h.array) \in Nat /\ SizeNode(h) \in Nat \ {0} BY <1>1, TableSizes
    <3> QED BY <3>1
  <2>3. j \in 1..last /\ f < j BY <1>4, <2>1, <2>2
  <2>4. key \in Keys /\ findindex(h, key) = j /\ Position(h, key) = j /\ Value(h, key) # Nil
    BY <1>1, <2>1, <2>3, IndexFacts
  <2>5. iter' = [iter EXCEPT !.key = key, !.seen = Append(@, key)] BY <1>2, <1>9, <2>1
  <2> HIDE DEF r, f, last, key
  <2>6. iter'.on /\ iter'.key = key /\ iter'.seen = Append(iter.seen, key) /\ iter'.kept = iter.kept BY <1>2, <1>3, <2>5
  <2>7. Append(iter.seen, key) \in Seq(Keys) /\ ToSet(Append(iter.seen, key)) = ToSet(iter.seen) \cup {key}
        /\ (IsInjective(iter.seen) /\ key \notin ToSet(iter.seen) => IsInjective(Append(iter.seen, key)))
    BY <1>3, <2>4, AppendFacts
  <2>8. TypeOK'
    <3>1. contents' \in [Keys -> Entries] BY <1>1, <1>2 DEF TypeOK
    <3>2. iter' \in [on : BOOLEAN, key : Entries, seen : Seq(Keys), kept : SUBSET Keys]
      BY <1>3, <2>4, <2>5, <2>7 DEF Entries
    <3> QED BY <3>1, <3>2 DEF TypeOK
  <2>9. key \notin ToSet(iter.seen)
    <3>1. contents[key] # Nil BY <1>1, <2>4 DEF FindsStored
    <3>2. ~(j <= f) BY <1>4, <2>2, <2>3
    <3> QED BY <1>4, <2>4, <3>1, <3>2
  <2>10. ASSUME NEW k \in ToSet(iter.seen) \cup {key}, contents[k] # Nil PROVE Position(h, k) <= j
    <3>1. CASE k = key BY <2>3, <2>4, <3>1
    <3>2. CASE k # key
      <4>1. k \in Keys BY <1>3, <3>2 DEF ToSet
      <4>2. Value(h, k) # Nil BY <1>1, <2>10, <4>1 DEF FindsStored
      <4>3. Position(h, k) \in 1..last BY <1>1, <4>1, <4>2, PositionFacts DEF last
      <4>4. Position(h, k) <= f BY <1>4, <2>10, <3>2
      <4> QED BY <1>4, <2>2, <2>3, <4>3, <4>4
    <3> QED BY <3>1, <3>2
  <2>11. ASSUME NEW k \in iter.kept
         PROVE contents[k] # Nil /\ (Position(h, k) <= j => k \in ToSet(iter.seen) \cup {key})
    <3>1. k \in Keys /\ contents[k] # Nil BY <1>3, <1>4
    <3>2. Value(h, k) # Nil BY <1>1, <3>1 DEF FindsStored
    <3> DEFINE p == Position(h, k)
    <3>3. p \in 1..last /\ KeyAt(h, p) = k /\ ValAt(h, p) # Nil BY <1>1, <3>1, <3>2, PositionFacts DEF last
    <3>4. p <= f => k \in ToSet(iter.seen) BY <1>4
    <3> HIDE DEF p
    <3>5. ASSUME p <= j, ~(p <= f) PROVE p = j
      <4>1. p \in f + 1..last BY <1>4, <2>2, <3>3, <3>5
      <4>2. j <= p BY <2>1, <3>3, <4>1
      <4> QED BY <2>3, <3>3, <3>5, <4>2
    <3>6. ASSUME p <= j, ~(p <= f) PROVE k = key BY <3>3, <3>5, <3>6 DEF key
    <3> QED BY <3>1, <3>4, <3>6 DEF p
  <2>12. j \in 0..last BY <2>2, <2>3
  <2>13. Walk'
    <3>1. IsInjective(iter'.seen) BY <1>4, <2>6, <2>7, <2>9
    <3>2. \A k \in ToSet(iter'.seen) : contents[k] # Nil => Position(h, k) <= j BY <2>6, <2>7, <2>10
    <3>3. \A k \in iter'.kept : contents[k] # Nil /\ (Position(h, k) <= j => k \in ToSet(iter'.seen)) BY <2>6, <2>7, <2>11
    <3>4. findindex(h, iter'.key) = j BY <2>4, <2>6
    <3> QED BY <1>2, <2>12, <3>1, <3>2, <3>3, <3>4 DEF Walk, last
  <2> QED BY <1>5, <1>6, <1>7, <2>8, <2>13 DEF IInv
<1> QED BY <1>8, <1>9

\* Each step keeps the invariant.
LEMMA StepKeeps == IInv /\ [Next]_vars => IInv'
<1> SUFFICES ASSUME IInv, [Next]_vars PROVE IInv'
  OBVIOUS
<1>1. ASSUME NEW key \in Keys, NEW v \in {Nil} \cup ({key} \ {contents[key]}),
             lua_rawset(key, v) \/ lua_rawseti(key, v) \/ luaV_settable(key, v)
      PROVE  IInv'
  <2>1. v \in {Nil, key} OBVIOUS
  <2>2. CASE lua_rawset(key, v) BY <2>1, <2>2, RawsetKeeps
  <2>3. CASE lua_rawseti(key, v) BY <2>1, <2>3, RawsetiKeeps
  <2>4. CASE luaV_settable(key, v) BY <2>1, <2>4, SettableKeeps
  <2> QED BY <1>1, <2>2, <2>3, <2>4
<1>2. ASSUME NEW event \in Events, luaT_gettm(event) PROVE IInv' BY <1>2, GettmKeeps
<1>3. CASE removeentries BY <1>3, RemoveentriesKeeps
<1>4. CASE Begin BY <1>4, BeginKeeps
<1>5. CASE lua_next BY <1>5, NextKeyKeeps
<1>6. CASE UNCHANGED vars
  <2>1. h' = h /\ contents' = contents /\ iter' = iter BY <1>6 DEF vars
  <2>2. TypeOK' BY <2>1 DEF IInv, TypeOK
  <2>3. FindsStored' /\ AbsentRemembered' BY <2>1 DEF IInv, FindsStored, AbsentRemembered
  <2>4. Walk' BY <2>1 DEF IInv, Walk
  <2>5. Table(h)' BY <2>1 DEF IInv
  <2> QED BY <2>2, <2>3, <2>4, <2>5 DEF IInv
<1> QED BY <1>1, <1>2, <1>3, <1>4, <1>5, <1>6 DEF Next

\* The invariant of every behaviour: a table is well formed, with the chains,
\* the free nodes and the cleared keys as ltable.c and lgc.c leave them, finds
\* what was stored, remembers no metamethod to be absent that is there, and
\* leads a traversal past each element once.
THEOREM Invariance == Spec => []IInv
<1>1. Init => IInv BY InitIInv
<1>2. IInv /\ [Next]_vars => IInv' BY StepKeeps
<1> QED BY <1>1, <1>2, PTL DEF Spec

\* luaH_get finds under each key what was stored there last, and nothing under
\* another, however often entries moved, were cleared or were sized anew.
THEOREM TableFindsStored == Spec => []FindsStored
<1>1. IInv => FindsStored BY DEF IInv
<1> QED BY <1>1, Invariance, PTL

\* fasttm takes no metamethod to be absent that an assignment has stored.
THEOREM AbsenceRemembered == Spec => []AbsentRemembered
<1>1. IInv => AbsentRemembered BY DEF IInv
<1> QED BY <1>1, Invariance, PTL

\* lua_next never loses its key, meets no key twice and, when it ends, has met
\* every key that stayed, although keys were cleared from under it.
THEOREM TraversalVisitsEach == Spec => []VisitsEach
<1>1. ASSUME IInv PROVE VisitsEach
  <2> SUFFICES ASSUME iter.on
               PROVE  LET r == luaH_next(h, iter.key)
                      IN r.state # "error" /\ IsInjective(iter.seen) /\ (r.state = "end" => iter.kept \subseteq ToSet(iter.seen))
    BY DEF VisitsEach
  <2>1. TypeOK /\ Table(h) /\ FindsStored /\ Walk BY <1>1 DEF IInv
  <2> DEFINE r == luaH_next(h, iter.key)
             f == findindex(h, iter.key)
             last == Len(h.array) + SizeNode(h)
  <2>2. /\ f \in 0..last
        /\ IsInjective(iter.seen)
        /\ \A k \in iter.kept : contents[k] # Nil /\ (Position(h, k) <= f => k \in ToSet(iter.seen))
    BY <2>1 DEF Walk
  <2>3. r.state # "error" /\ (r.state = "end" => \A j \in f + 1..last : ValAt(h, j) = Nil) BY <2>1, <2>2, NextFacts
  <2>4. last \in Nat
    <3>1. Len(h.array) \in Nat /\ SizeNode(h) \in Nat \ {0} BY <2>1, TableSizes
    <3> QED BY <3>1
  <2> HIDE DEF r, f, last
  <2>5. ASSUME r.state = "end", NEW k \in iter.kept PROVE k \in ToSet(iter.seen)
    <3>1. k \in Keys /\ contents[k] # Nil BY <2>1, <2>2 DEF TypeOK
    <3>2. Value(h, k) # Nil BY <2>1, <3>1 DEF FindsStored
    <3> DEFINE p == Position(h, k)
    <3>3. p \in 1..last /\ ValAt(h, p) # Nil BY <2>1, <3>1, <3>2, PositionFacts DEF last
    <3>4. p <= f => k \in ToSet(iter.seen) BY <2>2
    <3> HIDE DEF p
    <3>5. ASSUME ~(p <= f) PROVE FALSE
      <4>1. p \in f + 1..last BY <2>2, <2>4, <3>3, <3>5
      <4> QED BY <2>3, <2>5, <3>3, <4>1
    <3> QED BY <3>4, <3>5
  <2> QED BY <2>2, <2>3, <2>5 DEF r
<1> QED BY <1>1, Invariance, PTL

\* The search for the length ends at a border in every table.
THEOREM LengthFindsBorder == Spec => []LengthIsBorder
<1>1. ASSUME IInv PROVE LengthIsBorder
  <2>1. Table(h) /\ FindsStored BY <1>1 DEF IInv
  <2> DEFINE n == luaH_getn(h)
  <2>2. n \in Nat /\ (n = 0 \/ HasNum(h, n)) /\ ~HasNum(h, n + 1) BY <2>1, GetnFinds
  <2> HIDE DEF n
  <2>3. \A i : HasNum(h, i) <=> (Num(i) \in Keys /\ contents[Num(i)] # Nil) BY <2>1 DEF HasNum, FindsStored
  <2> QED BY <2>2, <2>3 DEF LengthIsBorder, n
<1> QED BY <1>1, Invariance, PTL

=============================================================================
