------------------------------- MODULE LuaApi -------------------------------
(***************************************************************************)
(* The stack of a Lua thread as its C API sees it (jni/lua/lapi.c): a      *)
(* value is named by an index, positive from the base of the running       *)
(* function, negative from the top.  A thread is a record; the fields used *)
(* here are                                                                *)
(*   stk   the slots below L->top, the first one being L->stack            *)
(*   base  the position of L->base in it                                   *)
(*   ci    the call frames, each with the position ci->top it may grow to  *)
(* The slots above the top hold values nobody reads; they are not kept.    *)
(***************************************************************************)
EXTENDS Integers, Sequences, SequencesExt

\* LUA_MINSTACK slots are there for every C function (lua.h:87).
CONSTANT MinStack

\* nil and the object lua_type answers LUA_TNONE for
NilValue == "nil"
NoValue == "none"

Top(T) == Len(T.stk) + 1
Frame(T) == Last(T.ci)

\* lua_gettop
GetTop(T) == Top(T) - T.base

\* index2adr, for the indices that are stack positions
Address(T, i) == IF i > 0 THEN T.base + i - 1 ELSE Top(T) + i

\* api_checkvalidindex
ValidIndex(T, i) == i # 0 /\ Address(T, i) \in T.base .. Top(T) - 1

ValueAt(T, i) == IF ValidIndex(T, i) THEN T.stk[Address(T, i)] ELSE NoValue

Nils(n) == IF n > 0 THEN [i \in 1 .. n |-> NilValue] ELSE <<>>

\* lua_pushnil, pushnumber, pushstring, pushboolean, pushcclosure, pushthread ...
PushValueOf(T, v) == [T EXCEPT !.stk = Append(@, v)]

\* the stack ends below top: values go, or nils come
CutTo(T, top) ==
  [T EXCEPT !.stk = IF top > Len(@) THEN @ \o Nils(top - 1 - Len(@))
                    ELSE SubSeq(@, 1, top - 1)]

\* lua_settop
SetTop(T, i) == CutTo(T, IF i >= 0 THEN T.base + i ELSE Top(T) + i + 1)

\* lua_pop
Pop(T, n) == SetTop(T, -n - 1)

\* lua_pushvalue
PushValue(T, i) == PushValueOf(T, ValueAt(T, i))

\* lua_remove: shifts the slots above down
RemoveIndex(T, i) == [T EXCEPT !.stk = RemoveAt(@, Address(T, i))]

\* lua_insert: shifts the slots above up and puts the top value in the gap
InsertIndex(T, i) ==
  LET p == Address(T, i)
  IN  [T EXCEPT !.stk = InsertAt(Front(@), p, Last(@))]

\* lua_replace
ReplaceIndex(T, i) ==
  LET p == Address(T, i)
  IN  [T EXCEPT !.stk = Front([@ EXCEPT ![p] = Last(T.stk)])]

\* lua_checkstack: the frame may grow by n slots from now on
CheckStack(T, n) ==
  [T EXCEPT !.ci[Len(T.ci)].top = IF @ < Top(T) + n THEN Top(T) + n ELSE @]

\* lua_xmove: n values leave the top of one thread for the top of another
MovedFrom(T, n) == [T EXCEPT !.stk = SubSeq(@, 1, Len(@) - n)]
MovedTo(T, n, F) ==
  [T EXCEPT !.stk = @ \o SubSeq(F.stk, Len(F.stk) - n + 1, Len(F.stk))]
=============================================================================
