-------------------------- MODULE LuaPatternMeaning -------------------------
(***************************************************************************)
(* What a pattern matches, without a text of the pattern and without       *)
(* backtracking: the abstract specification of LuaPattern.                 *)
(*                                                                         *)
(* A pattern is a sequence of items:                                       *)
(*   <<"class", text, set, suffix>>   characters of a set, "" for just one *)
(*   <<"open">>, <<"close">>, <<"pos">>, <<"back", l>>    captures         *)
(*   <<"bal", b, e>>, <<"frontier", text, set>>, <<"end">>                 *)
(*   <<"bad", text>>                  something malformed                  *)
(* after a leading <<"start">> when it is anchored.  A path is a place in  *)
(* the subject for each item: where it ends.  A match is a path all items  *)
(* accept; of several, the first item they differ in prefers one.          *)
(***************************************************************************)
EXTENDS Integers, Sequences, FiniteSets, SequencesExt, FiniteSetsExt, TLC

CONSTANT Captures       \* how many captures a pattern may have

Letter(s, i) == IF i \in 1 .. Len(s) THEN SubSeq(s, i, i) ELSE ""
Part(s, i, j) == SubSeq(s, i + 1, j)

Anchored(items) == items # <<>> /\ items[1] = <<"start">>
Body(items) == IF Anchored(items) THEN Tail(items) ELSE items
Count(items, i, j, kinds) == Cardinality({k \in i .. j : items[k][1] \in kinds})

(***************************************************************************)
(* Captures: the items that open them, and those that close them as        *)
(* brackets do.  Place k of a path is where item k begins.                 *)
(***************************************************************************)
Openers(items) == SetToSortSeq({k \in DOMAIN items : items[k][1] \in {"open", "pos"}}, <)
CloserOf(items, o) ==
  LET ks == {k \in DOMAIN items : k > o /\ items[k][1] = "close"
               /\ Count(items, o, k, {"open"}) = Count(items, o, k, {"close"})}
  IN  IF ks = {} THEN 0 ELSE Min(ks)
Open(items) == {o \in Range(Openers(items)) : items[o][1] = "open" /\ CloserOf(items, o) = 0}
Value(items, s, path, l) ==
  LET o == Openers(items)[l]
  IN  IF items[o][1] = "pos" THEN <<"num", path[o] + 1>>
      ELSE <<"str", Part(s, path[o], path[CloserOf(items, o)])>>

\* items that raise an error when a match gets to them
Malformed(items, k) ==
  LET before == SubSeq(items, 1, k - 1)
      it == items[k]
  IN  \/ it[1] = "bad"
      \/ it[1] = "close" /\ Open(before) = {}
      \/ it[1] \in {"open", "pos"} /\ Len(Openers(before)) = Captures
      \/ it[1] = "back" /\ (it[2] \notin DOMAIN Openers(before) \/ Openers(before)[it[2]] \in Open(before))
FirstMalformed(items) ==
  LET ks == {k \in DOMAIN items : Malformed(items, k)} IN IF ks = {} THEN 0 ELSE Min(ks)

(***************************************************************************)
(* Paths.                                                                  *)
(***************************************************************************)
\* how many brackets are open after the i-th character, the first one opening
Depth(s, from, i, b, e) ==
  1 + Cardinality({j \in from + 2 .. i : Letter(s, j) = b /\ b # e})
    - Cardinality({j \in from + 2 .. i : Letter(s, j) = e})
Balanced(s, i, j, b, e) ==
  /\ Letter(s, i + 1) = b /\ j > i + 1 /\ Depth(s, i, j, b, e) = 0
  /\ \A n \in i + 1 .. j - 1 : Depth(s, i, n, b, e) > 0

Repeats(n, suffix) ==
  CASE suffix = "" -> n = 1 [] suffix = "?" -> n <= 1 [] suffix = "+" -> n >= 1 [] OTHER -> TRUE
Accepts(items, s, path, j) ==
  LET k == Len(path)
      it == items[k]
      i == path[k]
  IN  CASE it[1] = "class" ->
             Repeats(j - i, it[4]) /\ \A n \in i + 1 .. j : Letter(s, n) \in it[3]
        [] it[1] = "back" ->
             LET v == Value(items, s, path, it[2]) IN v[1] = "str" /\ v[2] = Part(s, i, j)
        [] it[1] = "bal" -> Balanced(s, i, j, it[2], it[3])
        [] it[1] = "frontier" -> j = i /\ Letter(s, i) \notin it[3] /\ Letter(s, i + 1) \in it[3]
        [] it[1] = "end" -> j = i /\ j = Len(s)
        [] OTHER -> j = i
Paths(items, s, from) ==
  FoldLeft(LAMBDA ps, k : UNION {{Append(p, j) : j \in {j \in Last(p) .. Len(s) : Accepts(items, s, p, j)}} : p \in ps},
           {<<from>>}, [k \in DOMAIN items |-> k])
Prefers(items, p, q) ==
  LET k == Min({k \in DOMAIN p : p[k] # q[k]})
  IN  IF items[k - 1][1] = "class" /\ items[k - 1][4] = "-" THEN p[k] < q[k] ELSE p[k] > q[k]

(***************************************************************************)
(* The first match at or after a place: where, its path, or an error.      *)
(***************************************************************************)
Reached(items) == IF FirstMalformed(items) = 0 THEN items ELSE SubSeq(items, 1, FirstMalformed(items) - 1)
\* of the paths from each place
First(items, s, paths) ==
  LET starts == {i \in DOMAIN paths : paths[i] # {}}
      i == Min(starts)
  IN  CASE starts = {} -> [hit |-> FALSE, error |-> FALSE]
        [] starts # {} /\ FirstMalformed(items) # 0 -> [hit |-> FALSE, error |-> TRUE]
        [] OTHER -> [hit |-> TRUE, error |-> FALSE, from |-> i, items |-> items, s |-> s,
                     path |-> CHOOSE p \in paths[i] : \A q \in paths[i] \ {p} : Prefers(items, p, q)]
MatchFrom(pattern, s, from) ==
  First(Body(pattern), s,
        [i \in from .. (IF Anchored(pattern) THEN from ELSE Len(s)) |-> Paths(Reached(Body(pattern)), s, i)])

To(m) == Last(m.path)
Whole(m) == <<"str", Part(m.s, m.from, To(m))>>
Captured(m) == [l \in DOMAIN Openers(m.items) |->
  IF Openers(m.items)[l] \in Open(m.items) THEN <<"error">> ELSE Value(m.items, m.s, m.path, l)]
CapturedOrWhole(m) == IF Openers(m.items) = <<>> THEN <<Whole(m)>> ELSE Captured(m)

FromEnd(pos, len) == IF pos < 0 THEN pos + len ELSE pos - 1
Clipped(pos, len) == Max({0, Min({FromEnd(pos, len), len})})
\* find takes a closing bracket for itself in a pattern of plain characters
Literal(pattern) ==
  \A k \in DOMAIN pattern : pattern[k][1] = "close" \/ (pattern[k][1] = "class" /\ pattern[k][3] = {pattern[k][2]} /\ pattern[k][4] = "")
AsText(pattern) ==
  [k \in DOMAIN pattern |-> IF pattern[k][1] = "close" THEN <<"class", ")", {")"}, "">> ELSE pattern[k]]
Given(m, results) ==
  CASE m.error -> <<<<"error">>>> [] ~m.error /\ ~m.hit -> <<<<"nil">>>> [] OTHER -> results
FindIn(m) == Given(m, <<<<"num", m.from + 1>>, <<"num", To(m)>>>> \o Captured(m))
MatchIn(m) == Given(m, CapturedOrWhole(m))
Find(pattern, s, init) ==
  FindIn(MatchFrom(IF Literal(pattern) THEN AsText(pattern) ELSE pattern, s, Clipped(init, Len(s))))
MatchOf(pattern, s, init) == MatchIn(MatchFrom(pattern, s, Clipped(init, Len(s))))

(***************************************************************************)
(* gsub: matches are taken from left to right, an empty one is followed by *)
(* the character after it.                                                 *)
(***************************************************************************)
RECURSIVE Hits(_, _, _, _)
HitsFrom(m, pattern, s, limit) ==
  CASE m.error -> <<m>>
    [] ~m.error /\ ~m.hit -> <<>>
    [] OTHER -> <<m>> \o (IF Anchored(pattern) THEN <<>>
                          ELSE Hits(pattern, s, IF To(m) = m.from THEN To(m) + 1 ELSE To(m), limit - 1))
Hits(pattern, s, from, limit) ==
  IF from > Len(s) \/ limit <= 0 THEN <<>> ELSE HitsFrom(MatchFrom(pattern, s, from), pattern, s, limit)
Written(v) == IF v[1] = "num" THEN ToString(v[2]) ELSE v[2]
\* the text for a match: that of a table's entry, or of parts, which are texts
\* or numbers of captures
FromTable(m, map) ==
  LET k == CapturedOrWhole(m)[1]
      v == IF k \in DOMAIN map THEN map[k] ELSE <<"nil">>
  IN  CASE k = <<"error">> -> k
        [] k # <<"error">> /\ v \in {<<"nil">>, <<"false">>} -> Whole(m)
        [] k # <<"error">> /\ v[1] \in {"num", "str"} -> <<"str", Written(v)>>
        [] OTHER -> <<"error">>
FromParts(m, parts) ==
  LET of(x) == CASE x[1] = "text" -> <<"str", x[2]>>
                 [] x[1] = "cap" /\ x[2] = 0 -> Whole(m)
                 [] x[1] = "cap" /\ x[2] \in DOMAIN CapturedOrWhole(m) -> CapturedOrWhole(m)[x[2]]
                 [] OTHER -> <<"error">>
  IN  IF \E x \in Range(parts) : of(x) = <<"error">> THEN <<"error">>
      ELSE <<"str", FoldLeft(LAMBDA t, x : t \o Written(of(x)), "", parts)>>
\* Repl gives the text for a match
Joined(hits, s, Repl(_)) ==
  LET joined == FoldLeft(LAMBDA acc, m : [text |-> acc.text \o Part(s, acc.to, m.from) \o Repl(m)[2], to |-> To(m)],
                         [text |-> "", to |-> 0], hits)
  IN  IF \E m \in Range(hits) : m.error \/ Repl(m) = <<"error">> THEN <<<<"error">>>>
      ELSE <<<<"str", joined.text \o Part(s, joined.to, Len(s))>>, <<"num", Len(hits)>>>>
Gsub(pattern, s, limit, Repl(_)) == Joined(Hits(pattern, s, 0, limit), s, Repl)
=============================================================================
