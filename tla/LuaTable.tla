------------------------------ MODULE LuaTable ------------------------------
(***************************************************************************)
(* Tables of the Lua interpreter (jni/lua/ltable.c): an array part, and a  *)
(* hash part whose colliding keys are chained through free nodes of the    *)
(* same vector, the next free one being looked for downwards.  When none   *)
(* is left both parts are sized anew.                                      *)
(*                                                                         *)
(* A value is a tuple with its type first.  A key whose value became nil   *)
(* keeps its node until then.  Nodes are numbered from 1, the end of a     *)
(* chain is 0, and the shared dummy node is an empty vector.               *)
(***************************************************************************)
EXTENDS Integers, Sequences, SequencesExt, FiniteSetsExt

CONSTANT HashOf(_)      \* hash of a number, a string or an address

Nil == <<"nil">>
True == <<"true">>
False == <<"false">>
Num(n) == <<"num", n>>
Str(s) == <<"str", s>>
IsFalse(v) == v \in {Nil, False}
Bool(b) == IF b THEN True ELSE False

NewNodes(size) == [i \in 1 .. size |-> [key |-> Nil, val |-> Nil, next |-> 0]]
CeilTwo(n) == CHOOSE p \in {2 ^ i : i \in 0 .. n} : p >= n /\ (p = 1 \/ p \div 2 < n)
\* setnodevector
NodeVector(n) == IF n = 0 THEN <<>> ELSE NewNodes(CeilTwo(n))

NewTable(narray, nhash) ==
  LET nodes == NodeVector(nhash)
  IN  [array |-> [i \in 1 .. narray |-> Nil], node |-> nodes, lastfree |-> Len(nodes) + 1]

\* mainposition, with hashpow2 for strings and booleans, hashmod for the rest
MainPosition(t, k) ==
  LET size == Len(t.node)
      odd == IF size = 1 THEN 1 ELSE size - 1
  IN  1 + CASE k = Num(0) -> 0
            [] k[1] = "num" /\ k # Num(0) -> HashOf(k) % odd
            [] k[1] = "str" -> HashOf(k) % size
            [] k[1] = "true" -> 1 % size
            [] k[1] = "false" -> 0
            [] OTHER -> HashOf(k) % odd

ArrayIndex(k) == IF k[1] = "num" THEN k[2] ELSE -1
InArray(t, k) == ArrayIndex(k) \in DOMAIN t.array

RECURSIVE Chain(_, _)
Chain(t, i) == IF i = 0 THEN <<>> ELSE <<i>> \o Chain(t, t.node[i].next)
\* the node of a key, 0 when there is none
NodeOf(t, k) ==
  IF t.node = <<>> \/ k = Nil THEN 0
  ELSE LET hits == SelectSeq(Chain(t, MainPosition(t, k)), LAMBDA i : t.node[i].key = k)
       IN  IF hits = <<>> THEN 0 ELSE hits[1]

\* luaH_get, luaH_getnum, luaH_getstr
Get(t, k) ==
  CASE InArray(t, k) -> t.array[ArrayIndex(k)]
    [] ~InArray(t, k) /\ NodeOf(t, k) # 0 -> t.node[NodeOf(t, k)].val
    [] OTHER -> Nil

(***************************************************************************)
(* Sizes: the array gets the largest power of two more than half of which  *)
(* is in use.                                                              *)
(***************************************************************************)
UsedNodes(t) == {i \in DOMAIN t.node : t.node[i].val # Nil}
UsedArray(t) == {i \in DOMAIN t.array : t.array[i] # Nil}
\* numusearray, numusehash and countint: the keys that could be indices
IntKeys(t, k) ==
  UsedArray(t) \cup {n \in {ArrayIndex(t.node[i].key) : i \in UsedNodes(t)} \cup {ArrayIndex(k)} : n > 0}
Upto(S, n) == Cardinality({i \in S : i <= n})
\* computesizes
ArraySize(S) ==
  Max({0} \cup {p \in {2 ^ i : i \in 0 .. Cardinality(S)} :
         /\ p \div 2 < Cardinality(S)
         /\ Upto(S, p) > Upto(S, p \div 2) /\ Upto(S, p) > p \div 2})

RECURSIVE Set(_, _, _)
\* resize: what leaves the array goes first, then the nodes from the last
Resize(t, nasize, nhsize) ==
  LET nodes == NodeVector(nhsize)
      t1 == [array |-> [i \in 1 .. nasize |-> IF i \in DOMAIN t.array THEN t.array[i] ELSE Nil],
             node |-> nodes, lastfree |-> Len(nodes) + 1]
      leaving == [i \in 1 .. Max({0, Len(t.array) - nasize}) |->
                    [key |-> Num(nasize + i), val |-> t.array[nasize + i]]]
      entries == SelectSeq(leaving \o Reverse(t.node), LAMBDA e : e.val # Nil)
  IN  FoldLeft(LAMBDA u, e : Set(u, e.key, e.val), t1, entries)

\* luaH_resizearray
ResizeArray(t, nasize) == Resize(t, nasize, Len(t.node))

Rehash(t, k) ==
  LET ints == IntKeys(t, k)
      total == Cardinality(UsedArray(t)) + Cardinality(UsedNodes(t)) + 1
      nasize == ArraySize(ints)
  IN  Resize(t, nasize, total - Upto(ints, nasize))

\* the node of a chain before a given one
Before(t, mp) ==
  CHOOSE i \in Range(Chain(t, MainPosition(t, t.node[mp].key))) : t.node[i].next = mp
Move(t, mp, n) == [t EXCEPT !.lastfree = n, !.node[n] = t.node[mp]]

\* newkey, its main position being taken and a free one at hand: a node of
\* another chain moves there; one that is in its own main position stays,
\* and the new key goes there.  A slip: its chain does not follow.
DisplaceUnlinked(t, k, v, mp, n) ==
  IF MainPosition(t, t.node[mp].key) = mp
  THEN [t EXCEPT !.lastfree = n,
                 !.node[n] = [key |-> k, val |-> v, next |-> t.node[mp].next],
                 !.node[mp].next = n]
  ELSE [Move(t, mp, n) EXCEPT !.node[mp] = [key |-> k, val |-> v, next |-> 0]]
Displace(t, k, v, mp, n) ==
  IF MainPosition(t, t.node[mp].key) = mp
  THEN [t EXCEPT !.lastfree = n,
                 !.node[n] = [key |-> k, val |-> v, next |-> t.node[mp].next],
                 !.node[mp].next = n]
  ELSE [Move(t, mp, n) EXCEPT !.node[Before(t, mp)].next = n,
                              !.node[mp] = [key |-> k, val |-> v, next |-> 0]]

\* getfreepos
FreePositions(t) == {i \in 1 .. t.lastfree - 1 : t.node[i].key = Nil}
NewKey(t, k, v) ==
  LET mp == MainPosition(t, k)
  IN  CASE t.node # <<>> /\ t.node[mp].val = Nil ->
             [t EXCEPT !.node[mp].key = k, !.node[mp].val = v]
        [] t.node # <<>> /\ t.node[mp].val # Nil /\ FreePositions(t) # {} ->
             Displace(t, k, v, mp, Max(FreePositions(t)))
        [] OTHER -> Set(Rehash(t, k), k, v)

\* luaH_set, luaH_setnum, luaH_setstr, and the assignment to what they return
Set(t, k, v) ==
  CASE InArray(t, k) -> [t EXCEPT !.array[ArrayIndex(k)] = v]
    [] ~InArray(t, k) /\ NodeOf(t, k) # 0 -> [t EXCEPT !.node[NodeOf(t, k)].val = v]
    [] OTHER -> NewKey(t, k, v)

(***************************************************************************)
(* Traversal and length.                                                   *)
(***************************************************************************)
\* findindex
IndexOf(t, k) == IF InArray(t, k) THEN ArrayIndex(k)
                 ELSE IF k = Nil THEN 0 ELSE Len(t.array) + NodeOf(t, k)
Entries(t) == [i \in DOMAIN t.array |-> [key |-> Num(i), val |-> t.array[i]]]
              \o [i \in DOMAIN t.node |-> [key |-> t.node[i].key, val |-> t.node[i].val]]
\* luaH_next: the next entry, or nothing
After(t, k) ==
  LET es == Entries(t)
      later == {i \in DOMAIN es : i > IndexOf(t, k) /\ es[i].val # Nil}
  IN  IF later = {} THEN <<>> ELSE <<es[Min(later)].key, es[Min(later)].val>>

RECURSIVE Bisect(_, _, _)
Bisect(t, i, j) ==
  LET m == (i + j) \div 2
  IN  IF j - i <= 1 THEN i
      ELSE IF Get(t, Num(m)) = Nil THEN Bisect(t, i, m) ELSE Bisect(t, m, j)
RECURSIVE UnboundSearch(_, _, _)
UnboundSearch(t, i, j) ==
  IF Get(t, Num(j)) = Nil THEN Bisect(t, i, j) ELSE UnboundSearch(t, j, 2 * j)
\* luaH_getn
GetN(t) ==
  LET j == Len(t.array)
  IN  CASE j > 0 /\ t.array[j] = Nil -> Bisect(t, 0, j)
        [] (j = 0 \/ t.array[j] # Nil) /\ t.node = <<>> -> j
        [] OTHER -> UnboundSearch(t, j, j + 1)

(***************************************************************************)
(* What a table is: a map.                                                 *)
(***************************************************************************)
RECURSIVE Visited(_, _)
Visited(t, k) ==
  LET e == After(t, k) IN IF e = <<>> THEN <<>> ELSE <<e>> \o Visited(t, e[1])
Holds(t, map) ==
  /\ \A k \in DOMAIN map \cup {e.key : e \in Range(Entries(t))} :
       k # Nil => Get(t, k) = IF k \in DOMAIN map THEN map[k] ELSE Nil
  /\ LET seen == Visited(t, Nil)
     IN  /\ Len(seen) = Cardinality({k \in DOMAIN map : map[k] # Nil})
         /\ \A i \in DOMAIN seen : map[seen[i][1]] = seen[i][2]
  /\ LET n == GetN(t)
     IN  (n = 0 \/ Get(t, Num(n)) # Nil) /\ Get(t, Num(n + 1)) = Nil
=============================================================================
