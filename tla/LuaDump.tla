------------------------------- MODULE LuaDump ------------------------------
(***************************************************************************)
(* Precompiled chunks: string.dump (jni/lua/ldump.c) and what lua_load     *)
(* makes of its output (jni/lua/lundump.c).                                *)
(*                                                                         *)
(* A chunk is a sequence of items, each with its type.  Nothing in it says *)
(* what comes next: the loader has to ask for the types in the order they  *)
(* were written.  Line numbers and names of variables are left out.        *)
(***************************************************************************)
EXTENDS LuaVerifier

CONSTANT MaxDepth       \* LUAI_MAXCCALLS: functions nested in a chunk

Header == <<"header">>
NoString == ""          \* a string of size 0
Unknown == "=?"

\* DumpString, DumpChar, DumpInt and DumpBlock
Item(type, v) == <<type, v>>

\* DumpConstants, the values
DumpK(k) ==
  CASE k = Nil -> <<Item("char", "nil")>>
    [] k \in {True, False} -> <<Item("char", "boolean"), Item("char", k = True)>>
    [] OTHER -> <<Item("char", k[1]), Item(k[1], k[2])>>

\* DumpFunction; the source is written where it is not that of the function around
RECURSIVE DumpFunction(_, _, _)
DumpFunction(f, parent, strip) ==
  <<Item("str", IF f.source = parent \/ strip THEN NoString ELSE f.source),
    Item("char", f.nups), Item("char", f.numparams), Item("char", <<f.dots, f.needsarg>>),
    Item("char", f.maxstack), Item("int", Len(f.code)), Item("block", f.code), Item("int", Len(f.k))>>
  \o FlattenSeq([i \in DOMAIN f.k |-> DumpK(f.k[i])])
  \o <<Item("int", Len(f.p))>>
  \o FlattenSeq([i \in DOMAIN f.p |-> DumpFunction(f.p[i], f.source, strip)])
\* luaU_dump
Dump(f, strip) == <<Header>> \o DumpFunction(f, NoString, strip)

(***************************************************************************)
(* The loader: r is what is left to read, what was loaded last, and why it *)
(* failed.                                                                 *)
(***************************************************************************)
Failed(r, why) == [r EXCEPT !.error = IF @ = "" THEN why ELSE @]
Good(r) == r.error = ""
\* LoadBlock, LoadChar, LoadInt, LoadNumber and LoadString
Load(r, type) ==
  CASE ~Good(r) -> r
    [] Good(r) /\ r.in = <<>> -> Failed(r, "unexpected end")
    [] Good(r) /\ r.in # <<>> /\ r.in[1][1] # type -> Failed(r, "garbage")
    [] OTHER -> [r EXCEPT !.in = Tail(@), !.got = Append(@, r.in[1][2])]
Got(r, i) == r.got[Len(r.got) + 1 - i]
\* replaces the last n things loaded by one
Made(r, n, v) == IF Good(r) THEN [r EXCEPT !.got = Append(SubSeq(@, 1, Len(@) - n), v)] ELSE r

\* LoadKs, one value
LoadK(r) ==
  LET t == Load(r, "char")
      type == Got(t, 1)
  IN  CASE ~Good(t) -> t
        [] Good(t) /\ type = "nil" -> Made(t, 1, Nil)
        [] Good(t) /\ type = "boolean" ->
             LET v == Load(t, "char") IN Made(v, 2, Bool(Got(v, 1)))
        [] Good(t) /\ type \in {"num", "str"} ->
             LET v == Load(t, type) IN Made(v, 2, <<type, Got(v, 1)>>)
        [] OTHER -> Failed(t, "bad constant")

RECURSIVE LoadFunction(_, _, _)
LoadFunction(r0, parent, depth) ==
  LET times(r, F(_)) == IF ~Good(r) THEN r
                        ELSE FoldLeft(LAMBDA acc, i : F(acc), r, [i \in 1 .. Got(r, 1) |-> i])
      n == Len(r0.got)
      head == FoldLeft(Load, r0, <<"str", "char", "char", "char", "char", "int", "block", "int">>)
      source == IF head.got[n + 1] = NoString THEN parent ELSE head.got[n + 1]
      ks == times(head, LoadK)
      ps == times(Load(ks, "int"), LAMBDA r : LoadFunction(r, source, depth + 1))
      nk == head.got[n + 8]
      f == [source |-> source, nups |-> ps.got[n + 2], numparams |-> ps.got[n + 3],
            dots |-> ps.got[n + 4][1], needsarg |-> ps.got[n + 4][2], maxstack |-> ps.got[n + 5],
            code |-> ps.got[n + 7], k |-> SubSeq(ps.got, n + 9, n + 8 + nk),
            p |-> SubSeq(ps.got, n + 10 + nk, Len(ps.got)), ok |-> TRUE]
  IN  CASE depth > MaxDepth -> Failed(r0, "code too deep")
        [] depth <= MaxDepth /\ ~Good(ps) -> ps
        [] depth <= MaxDepth /\ Good(ps) /\ ~CheckCode(f) -> Failed(ps, "bad code")
        [] OTHER -> [ps EXCEPT !.got = Append(SubSeq(@, 1, n), f)]

\* luaU_undump
Undump(chunk) ==
  LET r == [in |-> chunk, got |-> <<>>, error |-> ""]
  IN  CASE chunk = <<>> -> Failed(r, "unexpected end")
        [] chunk # <<>> /\ chunk[1] # Header -> Failed(r, "bad header")
        [] OTHER -> LoadFunction([r EXCEPT !.in = Tail(@)], Unknown, 1)
=============================================================================
