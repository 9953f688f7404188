------------------------------ MODULE LuaTable ------------------------------
(* Lua's tables, ltable.c: an array part and a hash part whose chains are    *)
(* threaded through its own nodes, so that inserting a key may move another  *)
(* one, and which is sized anew when no node is free; the traversal by       *)
(* lua_next, which may meet keys the collector has cleared; and the bits in  *)
(* which ltm.c remembers that a metatable lacks a metamethod.                *)
(*                                                                           *)
(* A table h is [array, node, dummy, lastfree, flags]: nodes are numbered    *)
(* from 0; dummy says that the one node is the shared dummynode.  An entry   *)
(* holds Nil or the key it was stored under, so that an entry that got under *)
(* another key is seen.  Memory is never short.                              *)
EXTENDS Integers, Sequences, FiniteSets, SequencesExt

CONSTANTS Numbers,   \* the integer keys in use
          Strings,   \* the string keys in use, among them Events
          Events,    \* the names of metamethods
          HashOf,    \* what hashnum and the strings' hash give for a key
          Sizes      \* what a constructor asks for

Num(n) == <<"num", n>>
Str(s) == <<"str", s>>
Keys == {Num(n) : n \in Numbers} \cup {Str(s) : s \in Strings}

ASSUME TableKeys == /\ Numbers \subseteq Nat \ {0} /\ Events \subseteq Strings
                    /\ "__newindex" \in Events
                    /\ HashOf \in [Keys -> Nat] /\ Sizes \subseteq Nat

VARIABLES h,         \* the table, which is its own metatable
          contents,  \* what the program stored in it
          iter       \* a traversal: [on, key, seen, kept]
vars == <<h, contents, iter>>

Nil == <<"nil">>
Collectable(key) == key[1] = "str"
Node(key, val, next) == [key |-> key, val |-> val, next |-> next, tt |-> "live"]
SizeNode(t) == Cardinality(DOMAIN t.node)
NoNode == -1
Nowhere == <<"nowhere">>

TwoTo[n \in Nat] == IF n = 0 THEN 1 ELSE 2 * TwoTo[n - 1]
CeilLog2(x) == CHOOSE n \in 0..x : TwoTo[n] >= x /\ (n = 0 \/ TwoTo[n - 1] < x)

\* Numbers are spread by a modulus that is odd.
mainposition(t, key) ==
  LET size == SizeNode(t) IN
  IF key[1] = "num" THEN HashOf[key] % (IF size = 1 THEN 1 ELSE size - 1) ELSE HashOf[key] % size

----------------------------------------------------------------------------
(* Looking for a key.                                                        *)
Follow(next, n) == IF n = NoNode THEN NoNode ELSE next[n]

\* The nodes from n on along the links: there are no more than there are nodes.
ChainOf(next, n) ==
  LET last == Cardinality(DOMAIN next) - 1
      path[i \in 0..last] == IF i = 0 THEN n ELSE Follow(next, path[i - 1])
  IN {path[i] : i \in 0..last} \ {NoNode}

Links(t) == [i \in DOMAIN t.node |-> t.node[i].next]
Chain(t, n) == ChainOf(Links(t), n)

\* The first node with a key, from n on; a cleared key counts for a traversal
\* only.
InChain(t, n, key, dead) ==
  LET hits == {x \in Chain(t, n) : t.node[x].key = key /\ (dead \/ t.node[x].tt = "live")}
  IN IF hits = {} THEN Nowhere
     ELSE <<"node", CHOOSE x \in hits : hits \subseteq Chain(t, x)>>

\* Where a key is: in the array, in a node, or nowhere.
luaH_getnum(t, key) ==
  IF key[2] \in DOMAIN t.array THEN <<"array", key[2]>>
  ELSE InChain(t, mainposition(t, key), key, FALSE)

luaH_get(t, key) == IF key[1] = "num" THEN luaH_getnum(t, key)
                    ELSE InChain(t, mainposition(t, key), key, FALSE)

ValueAt(t, at) == CASE at = Nowhere -> Nil
                    [] at[1] = "array" -> t.array[at[2]]
                    [] at[1] = "node" -> t.node[at[2]].val
Value(t, key) == ValueAt(t, luaH_get(t, key))

Store(t, at, v) == IF at[1] = "array" THEN [t EXCEPT !.array[at[2]] = v]
                   ELSE [t EXCEPT !.node[at[2]].val = v]

----------------------------------------------------------------------------
(* A new key in a table that has room for it.                                *)
getfreepos(t) == LET free == {n \in 0..t.lastfree - 1 : t.node[n].key = Nil} IN
                 IF free = {} THEN NoNode ELSE CHOOSE n \in free : \A o \in free : o <= n

\* The node whose successor mp is.
Previous(t, n, mp) == CHOOSE x \in Chain(t, n) : t.node[x].next = mp

HasRoom(t, key) ==
  \/ t.node[mainposition(t, key)].val = Nil /\ ~t.dummy
  \/ getfreepos(t) # NoNode

\* Mutant: the chain still leads to the node that was moved away.
PlaceUnlinked(t, key) ==
  LET mp == mainposition(t, key)
      n == getfreepos(t)
      there == t.node[mp]
  IN IF there.val = Nil /\ ~t.dummy
     THEN [t |-> [t EXCEPT !.node[mp] = Node(key, Nil, there.next)], at |-> <<"node", mp>>]
     ELSE IF mainposition(t, there.key) # mp
     THEN [t |-> [t EXCEPT !.node[n] = there, !.node[mp] = Node(key, Nil, NoNode), !.lastfree = n],
           at |-> <<"node", mp>>]
     ELSE [t |-> [t EXCEPT !.node[n] = Node(key, Nil, there.next), !.node[mp].next = n, !.lastfree = n],
           at |-> <<"node", n>>]

\* The node a new key takes, [t, at]: its main position if that is free, after
\* a node that is out of its own was moved away; else one after it.
Place(t, key) ==
  LET mp == mainposition(t, key)
      n == getfreepos(t)
      there == t.node[mp]
      othern == mainposition(t, there.key)
      moved == [t.node EXCEPT ![Previous(t, othern, mp)].next = n, ![n] = there,
                              ![mp] = Node(key, Nil, NoNode)]
      chained == [t.node EXCEPT ![n] = Node(key, Nil, there.next), ![mp].next = n]
  IN IF there.val = Nil /\ ~t.dummy
     THEN [t |-> [t EXCEPT !.node[mp] = Node(key, Nil, there.next)], at |-> <<"node", mp>>]
     ELSE IF othern # mp
     THEN [t |-> [t EXCEPT !.node = moved, !.lastfree = n], at |-> <<"node", mp>>]
     ELSE [t |-> [t EXCEPT !.node = chained, !.lastfree = n], at |-> <<"node", n>>]

Slot(t, key) ==
  LET at == luaH_get(t, key) IN IF at # Nowhere THEN [t |-> t, at |-> at] ELSE Place(t, key)

----------------------------------------------------------------------------
(* Growing.                                                                  *)
EmptyNodes(size) ==
  LET n == IF size = 0 THEN 1 ELSE TwoTo[CeilLog2(size)]
  IN [node |-> [i \in 0..n - 1 |-> Node(Nil, Nil, NoNode)], dummy |-> size = 0,
      lastfree |-> IF size = 0 THEN 0 ELSE n]

luaH_new(narray, nhash) ==
  LET nodes == EmptyNodes(nhash)
  IN [array |-> [i \in 1..narray |-> Nil], node |-> nodes.node, dummy |-> nodes.dummy,
      lastfree |-> nodes.lastfree, flags |-> Events]

\* As many of the integer keys, and the largest power of two that more than
\* half of its indices use: [n, na], the array's size and its keys.
computesizes(ints) ==
  LET Below(n) == Cardinality({k \in ints : k[2] <= n})
      sizes == {n \in {TwoTo[i] : i \in 0..Cardinality(ints)} :
                  /\ n \div 2 < Cardinality(ints)
                  /\ Below(n) > n \div 2
                  /\ \E k \in ints : k[2] <= n /\ (n = 1 \/ k[2] > n \div 2)}
      best == IF sizes = {} THEN 0 ELSE CHOOSE n \in sizes : \A o \in sizes : o <= n
  IN [n |-> best, na |-> Below(best)]

Present(t) == {Num(i) : i \in {j \in DOMAIN t.array : t.array[j] # Nil}}
              \cup {t.node[i].key : i \in {j \in DOMAIN t.node : t.node[j].val # Nil}}

\* An entry is inserted again; flags: what luaH_set, which luaH_setnum is not,
\* leaves of the flags.
Again(t, entry, flags) ==
  IF entry.val = Nil THEN t
  ELSE LET r == Slot(t, entry.key) IN [Store(r.t, r.at, entry.val) EXCEPT !.flags = flags]

\* The entries of the part of the array that goes, and of the old nodes from
\* the last to the first, are inserted again.  There is always room for them.
resize(t, nasize, nhsize) ==
  LET old == Len(t.array)
      going == IF old > nasize THEN old - nasize ELSE 0
      nodes == EmptyNodes(nhsize)
      sized == [t EXCEPT !.array = [i \in 1..nasize |-> IF i <= old THEN t.array[i] ELSE Nil],
                         !.node = nodes.node, !.dummy = nodes.dummy, !.lastfree = nodes.lastfree]
      Turn(made, i) ==
        IF i <= going THEN Again(made, [key |-> Num(nasize + i), val |-> t.array[nasize + i]], made.flags)
        ELSE Again(made, t.node[SizeNode(t) - (i - going)], {})
      made[i \in 0..going + SizeNode(t)] == IF i = 0 THEN sized ELSE Turn(made[i - 1], i)
  IN made[going + SizeNode(t)]

rehash(t, key) ==
  LET used == Present(t) \cup {key}
      ints == {k \in used : k[1] = "num"}
      sizes == computesizes(ints)
  IN resize(t, sizes.n, Cardinality(used) - sizes.na)

newkey(t, key) ==
  IF HasRoom(t, key) THEN Place(t, key)
  ELSE Slot([rehash(t, key) EXCEPT !.flags = {}], key)

\* The place of a key, made if there is none.
luaH_setnum(t, key) ==
  LET at == luaH_getnum(t, key) IN IF at # Nowhere THEN [t |-> t, at |-> at] ELSE newkey(t, key)

luaH_set(t, key) ==
  LET cleared == [t EXCEPT !.flags = {}]
      at == luaH_get(t, key)
  IN IF at # Nowhere THEN [t |-> cleared, at |-> at] ELSE newkey(cleared, key)

----------------------------------------------------------------------------
(* Borders.                                                                  *)
\* One turn of the search between a present i and an absent j.
Halved(ends, absent) ==
  LET m == (ends[1] + ends[2]) \div 2 IN
  IF ends[2] - ends[1] <= 1 THEN ends
  ELSE IF m \in absent THEN <<ends[1], m>> ELSE <<m, ends[2]>>

BinarySearch(i, j, absent) ==
  LET ends[k \in 0..j - i] == IF k = 0 THEN <<i, j>> ELSE Halved(ends[k - 1], absent)
  IN ends[j - i][1]

NumAbsent(t, n) == IF Num(n) \in Keys THEN ValueAt(t, luaH_getnum(t, Num(n))) = Nil
                   ELSE n \notin DOMAIN t.array \/ t.array[n] = Nil

\* One turn of the search for an absent j; each but the last finds another node.
Doubled(t, ends) == IF NumAbsent(t, ends[2]) THEN ends ELSE <<ends[2], 2 * ends[2]>>

unbound_search(t, j) ==
  LET ends[k \in 0..SizeNode(t)] == IF k = 0 THEN <<j, j + 1>> ELSE Doubled(t, ends[k - 1])
      found == ends[SizeNode(t)]
  IN BinarySearch(found[1], found[2], {n \in found[1] + 1..found[2] : NumAbsent(t, n)})

\* Mutant: a full array is taken for all of the table.
GetnOfArray(t) ==
  LET j == Len(t.array) IN
  IF j > 0 /\ t.array[j] = Nil THEN BinarySearch(0, j, {n \in 1..j : t.array[n] = Nil}) ELSE j

luaH_getn(t) ==
  LET j == Len(t.array) IN
  IF j > 0 /\ t.array[j] = Nil THEN BinarySearch(0, j, {n \in 1..j : t.array[n] = Nil})
  ELSE IF t.dummy THEN j
  ELSE unbound_search(t, j)

----------------------------------------------------------------------------
(* Traversal.                                                                *)
\* Mutant: a key the collector has cleared is not found.
FindindexAlive(t, key) ==
  LET at == InChain(t, mainposition(t, key), key, FALSE) IN
  IF key = Nil THEN 0
  ELSE IF key[1] = "num" /\ key[2] \in DOMAIN t.array THEN key[2]
  ELSE IF at = Nowhere THEN NoNode
  ELSE Len(t.array) + at[2] + 1

\* Elements are numbered, the array's first; a key the collector has cleared
\* still has its number.
findindex(t, key) ==
  LET at == InChain(t, mainposition(t, key), key, TRUE) IN
  IF key = Nil THEN 0
  ELSE IF key[1] = "num" /\ key[2] \in DOMAIN t.array THEN key[2]
  ELSE IF at = Nowhere THEN NoNode
  ELSE Len(t.array) + at[2] + 1

luaH_next(t, key) ==
  LET i == findindex(t, key)
      size == Len(t.array)
      KeyOf(j) == IF j <= size THEN Num(j) ELSE t.node[j - size - 1].key
      Val(j) == IF j <= size THEN t.array[j] ELSE t.node[j - size - 1].val
      left == {j \in i + 1..size + SizeNode(t) : Val(j) # Nil}
  IN IF i = NoNode THEN [state |-> "error", key |-> key]
     ELSE IF left = {} THEN [state |-> "end", key |-> key]
     ELSE [state |-> "on", key |-> KeyOf(CHOOSE j \in left : \A o \in left : j <= o)]

----------------------------------------------------------------------------
(* Metamethods, when the table is a metatable: [t, tm].                      *)
fasttm(t, event) ==
  LET tm == Value(t, Str(event)) IN
  IF event \in t.flags THEN [t |-> t, tm |-> Nil]
  ELSE [t |-> IF tm = Nil THEN [t EXCEPT !.flags = @ \cup {event}] ELSE t, tm |-> tm]

----------------------------------------------------------------------------
NoTraversal == [on |-> FALSE, key |-> Nil, seen |-> <<>>, kept |-> {}]

Init == /\ h \in {luaH_new(na, nh) : na, nh \in Sizes}
        /\ contents = [k \in Keys |-> Nil]
        /\ iter = NoTraversal

\* A value arrived under key.  A traversal goes on when the entry was there.
Stored(key, v) ==
  /\ contents' = [contents EXCEPT ![key] = v]
  /\ iter' = IF contents[key] = Nil THEN NoTraversal
             ELSE IF v = Nil THEN [iter EXCEPT !.kept = @ \ {key}]
             ELSE iter

\* Also what an assignment does to a table without a metatable.
lua_rawset(key, v) ==
  /\ LET r == luaH_set(h, key) IN h' = Store(r.t, r.at, v)
  /\ Stored(key, v)

\* lua_rawseti and OP_SETLIST.
lua_rawseti(key, v) ==
  /\ key[1] = "num"
  /\ LET r == luaH_setnum(h, key) IN h' = Store(r.t, r.at, v)
  /\ Stored(key, v)

\* Mutant: what was found absent before the entry is stored is not forgotten.
AssignRemembering(r, key, v) ==
  LET tm == fasttm(r.t, "__newindex")
      stored == ValueAt(r.t, r.at) # Nil \/ tm.tm = Nil
      after == IF ValueAt(r.t, r.at) # Nil THEN r.t ELSE tm.t
  IN IF stored THEN h' = Store(after, r.at, v) /\ Stored(key, v)
     ELSE h' = after /\ contents' = contents /\ iter' = NoTraversal

\* A new key of a table with "__newindex" is left to that function; the node
\* made for it, r, stays.
Assign(r, key, v) ==
  LET tm == fasttm(r.t, "__newindex")
      stored == ValueAt(r.t, r.at) # Nil \/ tm.tm = Nil
      after == IF ValueAt(r.t, r.at) # Nil THEN r.t ELSE tm.t
  IN IF stored THEN h' = [Store(after, r.at, v) EXCEPT !.flags = {}] /\ Stored(key, v)
     ELSE h' = after /\ contents' = contents /\ iter' = NoTraversal

luaV_settable(key, v) == Assign(luaH_set(h, key), key, v)

\* An access to another table that has this one as its metatable.
luaT_gettm(event) ==
  /\ h' = fasttm(h, event).t
  /\ UNCHANGED <<contents, iter>>

\* The collector's traversetable: an entry without a value loses its key.
removeentries ==
  LET Cleared(n) == IF n.val = Nil /\ n.key # Nil /\ Collectable(n.key) THEN [n EXCEPT !.tt = "dead"] ELSE n
  IN /\ h' = [h EXCEPT !.node = [i \in DOMAIN @ |-> Cleared(@[i])]]
     /\ UNCHANGED <<contents, iter>>

Begin == /\ ~iter.on
         /\ iter' = [on |-> TRUE, key |-> Nil, seen |-> <<>>,
                     kept |-> {k \in Keys : contents[k] # Nil}]
         /\ UNCHANGED <<h, contents>>

\* The next key; the traversal is over when there is none.
lua_next == /\ iter.on
            /\ LET r == luaH_next(h, iter.key)
               IN iter' = IF r.state = "on"
                          THEN [iter EXCEPT !.key = r.key, !.seen = Append(@, r.key)] ELSE NoTraversal
            /\ UNCHANGED <<h, contents>>

Next == \/ \E key \in Keys : \E value \in {Nil} \cup ({key} \ {contents[key]}) :
             lua_rawset(key, value) \/ lua_rawseti(key, value) \/ luaV_settable(key, value)
        \/ \E event \in Events : luaT_gettm(event)
        \/ removeentries \/ Begin \/ lua_next

Spec == Init /\ [][Next]_vars

----------------------------------------------------------------------------
\* A table finds what was stored under each key and nothing else, whatever
\* moved, was cleared or was sized anew since.
FindsStored == \A key \in Keys : Value(h, key) = contents[key]

\* A traversal, during which entries are only changed or cleared, meets no
\* key twice, has met every key that stayed when it ends, and never fails.
VisitsEach ==
  iter.on => LET r == luaH_next(h, iter.key)
             IN /\ r.state # "error"
                /\ IsInjective(iter.seen)
                /\ r.state = "end" => iter.kept \subseteq ToSet(iter.seen)

\* The length of a table is a border: the entry there is, the next is not.
LengthIsBorder ==
  LET n == luaH_getn(h)
      Has(i) == Num(i) \in Keys /\ contents[Num(i)] # Nil
  IN (n = 0 \/ Has(n)) /\ ~Has(n + 1)

\* A metamethod remembered to be absent is absent.
AbsentRemembered == \A event \in h.flags : contents[Str(event)] = Nil
=============================================================================
