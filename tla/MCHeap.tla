------------------------------- MODULE MCHeap -------------------------------
(***************************************************************************)
(* Instance of LuaHeap: programs with few objects of few kinds.            *)
(***************************************************************************)
EXTENDS LuaHeap

Has(k, v) == [key |-> k, val |-> v]
With(mt) == [meta |-> mt]
Sharing(u) == [val |-> u]
At(t, i) == [at |-> <<t, i>>]

\* a table with a string
Linked == [obj |-> "t1" :> Has("s1", "s1") @@ "s1" :> <<>>,
           stack |-> Main :> <<"t1", "s1">>, udata |-> <<>>, free |-> {}, ops |-> 3]
\* a table weak in its keys or values, with an entry
WeakTable(mode, k, v) ==
  [obj |-> "t1" :> (With("t2") @@ Has(k, v)) @@ "t2" :> Has("__mode", mode) @@ "c1" :> <<>>,
   stack |-> Main :> <<"t1", "c1">>, udata |-> <<>>, free |-> {}, ops |-> 2]
\* a userdata with a finalizer
Finalizable ==
  [obj |-> "d1" :> With("t1") @@ "t1" :> Has("__gc", "c1") @@ "c1" :> <<>>,
   stack |-> Main :> <<"d1", NilValue>>, udata |-> <<"d1">>, free |-> {}, ops |-> 3]
\* a closure with an open upvalue of its thread
Capturing ==
  [obj |-> "c1" :> Sharing("u1") @@ "u1" :> At(Main, 2),
   stack |-> Main :> <<"c1", NilValue>>, udata |-> <<>>, free |-> {"t1"}, ops |-> 3]
\* a closure with an open upvalue of a coroutine
Coroutine ==
  [obj |-> "co" :> <<>> @@ "c1" :> Sharing("u1") @@ "u1" :> At("co", 1),
   stack |-> Main :> <<"co", "c1">> @@ "co" :> <<"co", NilValue>>, udata |-> <<>>,
   free |-> {}, ops |-> 3]

MCStarts ==
  {Linked, WeakTable("k", "c1", "t2"), WeakTable("v", "x", "c1"), Finalizable, Capturing,
   Coroutine}
=============================================================================
