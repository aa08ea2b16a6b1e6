------------------------------ MODULE LuaMeaning ----------------------------
(***************************************************************************)
(* What a Lua program means, by its syntax tree and without code, stack or *)
(* registers: the abstract specification of compiler and machine.          *)
(*                                                                         *)
(* st is where the evaluation stands: vals is what was evaluated last, ctl *)
(* how the last statement ended, env the cell of each local variable, va   *)
(* the extra arguments, tabs the tables as maps, told what the environment *)
(* was told and asked what it still will answer.  The parts of a node that *)
(* are evaluated in turn, as a loop's next round, are nodes too.           *)
(***************************************************************************)
EXTENDS LuaTable

CONSTANTS
  PatternOf,    \* the items of each pattern
  PartsOf,      \* the parts of each text to replace by
  MaxCaptures

Matching == INSTANCE LuaPatternMeaning WITH Captures <- MaxCaptures

Start(answers, library) ==
  [vals |-> <<>>, ctl |-> "", env |-> <<>>, cells |-> <<>>, va |-> <<>>, funs |-> <<>>,
   tabs |-> <<[k \in {Str(n) : n \in Range(library)} |-> <<"c", k[2]>>]>>,
   asked |-> answers, told |-> <<>>]

FirstOf(vals) == IF vals = <<>> THEN <<Nil>> ELSE <<vals[1]>>
FittedTo(vals, n) == [i \in 1 .. n |-> IF i <= Len(vals) THEN vals[i] ELSE Nil]
Gives(st, v) == [st EXCEPT !.vals = <<v>>]
Item(m, k) == IF k \in DOMAIN m THEN m[k] ELSE Nil
Bound(st, names, vals) ==
  LET n == Len(st.cells)
  IN  [st EXCEPT !.cells = @ \o FittedTo(vals, Len(names)),
                 !.env = [x \in Range(names) |-> n + Max({i \in DOMAIN names : names[i] = x})] @@ @]
NewTab(st, m) == Gives([st EXCEPT !.tabs = Append(@, m)], <<"tab", Len(st.tabs) + 1>>)
Length(m) == CHOOSE n \in 0 .. Cardinality(DOMAIN m) :
               /\ \A i \in 1 .. n : Item(m, Num(i)) # Nil
               /\ Item(m, Num(n + 1)) = Nil
Listed(vals) == [k \in {Num(i) : i \in DOMAIN vals} |-> vals[k[2]]]
Words(v) == IF v[1] = "num" THEN ToString(v[2]) ELSE v[2]

Operation(op, x, y) ==
  CASE op = "+" -> Num(x[2] + y[2]) [] op = "-" -> Num(x[2] - y[2]) [] op = "*" -> Num(x[2] * y[2])
    [] op = ".." -> Str(Words(x) \o Words(y))
    [] op = "==" -> Bool(x = y) [] op = "~=" -> Bool(x # y)
    [] op = "<" -> Bool(x[2] < y[2]) [] op = "<=" -> Bool(x[2] <= y[2])
    [] op = ">" -> Bool(x[2] > y[2]) [] op = ">=" -> Bool(x[2] >= y[2])

\* a list with one more or one fewer
Inserted(m, pos, v) ==
  LET l == [i \in 1 .. Length(m) |-> m[Num(i)]] IN Listed(InsertAt(l, pos, v)) @@ m
Without(m, pos) ==
  LET l == [i \in 1 .. Length(m) |-> m[Num(i)]]
  IN  (Num(Length(m)) :> Nil) @@ Listed(RemoveAt(l, pos)) @@ m
Following(m, k) ==
  LET ks == SetToSeq({x \in DOMAIN m : m[x] # Nil})
      i == IF k = Nil THEN 1 ELSE SelectInSeq(ks, LAMBDA x : x = k) + 1
  IN  IF i > Len(ks) THEN <<Nil>> ELSE <<ks[i], m[ks[i]]>>

\* the string library, by characters and matches
Character(s, i) == SubSeq(s, i, i)
Joined(s, places) == FoldLeft(LAMBDA t, i : t \o Character(s, i), "", places)
Default(args, i, v) == IF i <= Len(args) THEN args[i][2] ELSE v
FromFront(s, i) == IF i < 0 THEN Len(s) + 1 + i ELSE i
Replaced(m, v, st) ==
  IF v[1] = "tab" THEN Matching!FromTable(m, st.tabs[v[2]]) ELSE Matching!FromParts(m, PartsOf[v[2]])
StringMeaning(name, args, st) ==
  LET s == args[1][2]
      x == args[2][2]
      within == {i \in 1 .. Len(s) : FromFront(s, x) <= i /\ i <= FromFront(s, Default(args, 3, -1))}
  IN  CASE name = "sub" -> <<Str(Joined(s, SetToSortSeq(within, <)))>>
        [] name = "rep" -> <<Str(FoldLeft(LAMBDA t, i : t \o s, "", [i \in 1 .. x |-> i]))>>
        [] name = "reverse" -> <<Str(Joined(s, [i \in 1 .. Len(s) |-> Len(s) + 1 - i]))>>
        [] name = "find" -> Matching!Find(PatternOf[x], s, Default(args, 3, 1))
        [] name = "match" -> Matching!MatchOf(PatternOf[x], s, Default(args, 3, 1))
        [] name = "gsub" -> Matching!Gsub(PatternOf[x], s, Default(args, 4, Len(s) + 1),
                                          LAMBDA m : Replaced(m, args[3], st))
StringNames == {"sub", "rep", "reverse", "find", "match", "gsub"}
\* after an error nothing more is done
Ends(st, vals) ==
  IF <<"error">> \in Range(vals) THEN [st EXCEPT !.vals = <<>>, !.ctl = "error"]
  ELSE [st EXCEPT !.vals = vals]

LibraryCall(name, args, st) ==
  LET m == st.tabs[args[1][2]]
      n == Length(m)
      pos == IF Len(args) = 1 THEN n ELSE args[2][2]
  IN  CASE st.ctl = "error" -> st
        [] name \in StringNames -> Ends(st, StringMeaning(name, args, st))
        [] name = "any" -> [st EXCEPT !.vals = <<Head(st.asked)>>, !.asked = Tail(@)]
        [] name = "tell" -> [st EXCEPT !.vals = <<>>, !.told = Append(@, args)]
        [] name = "next" ->
             [st EXCEPT !.vals = Following(m, IF Len(args) = 1 THEN Nil ELSE args[2])]
        [] name = "insert" ->
             [st EXCEPT !.vals = <<>>,
                !.tabs[args[1][2]] = Inserted(@, IF Len(args) = 2 THEN n + 1 ELSE pos, Last(args))]
        [] name = "remove" ->
             IF pos \notin 1 .. n THEN [st EXCEPT !.vals = <<>>]
             ELSE [st EXCEPT !.vals = <<m[Num(pos)]>>, !.tabs[args[1][2]] = Without(@, pos)]
        [] name = "maxn" ->
             Gives(st, Num(Max({0} \cup {k[2] : k \in {x \in DOMAIN m : x[1] = "num" /\ m[x] # Nil}})))

RECURSIVE Ev(_, _)
Ev(t, st) ==
  LET of(e) == Ev(e, st)
      \* after another node, of its value
      then(e, s, F(_, _)) == LET r == Ev(e, s) IN F(r, FirstOf(r.vals)[1])
      test(e, s, yes, no) == then(e, s, LAMBDA r, v : IF IsFalse(v) THEN Ev(no, r) ELSE Ev(yes, r))
      scoped(r) == [r EXCEPT !.env = st.env]
      over(r) == IF r.ctl = "break" THEN [r EXCEPT !.ctl = ""] ELSE r
      k == t[1]
  IN
  CASE k \in {"num", "str", "nil", "true", "false"} -> Gives(st, t)
    [] k = "dots" -> [st EXCEPT !.vals = st.va]
    [] k = "name" -> Gives(st, IF t[2] \in DOMAIN st.env THEN st.cells[st.env[t[2]]]
                               ELSE Item(st.tabs[1], Str(t[2])))
    [] k = "paren" -> then(t[2], st, LAMBDA r, v : Gives(r, v))
    [] k = "list" ->
         FoldLeft(LAMBDA acc, i : LET r == Ev(t[2][i], acc)
                                  IN  [r EXCEPT !.vals = acc.vals \o
                                         (IF i = Len(t[2]) THEN r.vals ELSE FirstOf(r.vals))],
                  [st EXCEPT !.vals = <<>>], [i \in DOMAIN t[2] |-> i])
    [] k = "index" ->
         LET r == of(<<"list", <<t[2], <<"paren", t[3]>>>>>>)
         IN  Gives(r, Item(r.tabs[r.vals[1][2]], r.vals[2]))
    [] k = "call" ->
         LET r == of(<<"list", <<t[2]>> \o t[3]>>) IN Ev(<<"apply", r.vals[1], Tail(r.vals)>>, r)
    [] k = "method" ->
         then(t[2], st, LAMBDA r, o :
           LET a == Ev(<<"list", t[4]>>, r)
           IN  Ev(<<"apply", Item(r.tabs[o[2]], Str(t[3])), <<o>> \o a.vals>>, a))
    [] k = "apply" /\ t[2][1] = "c" -> LibraryCall(t[2][2], t[3], st)
    [] k = "apply" /\ t[2][1] = "fun" ->
         LET f == st.funs[t[2][2]]
             n == Len(f.params)
             extra == SubSeq(t[3], n + 1, Len(t[3]))
             s == IF f.dots THEN NewTab(st, (Str("n") :> Num(Len(extra))) @@ Listed(extra)) ELSE st
             b == Bound([s EXCEPT !.env = f.env, !.va = extra],
                        IF f.dots THEN f.params \o <<"arg">> ELSE f.params,
                        FittedTo(t[3], n) \o s.vals)
             r == Ev(<<"seq", f.body>>, b)
         IN  [r EXCEPT !.env = st.env, !.va = st.va,
                       !.ctl = IF @ = "error" THEN @ ELSE "",
                       !.vals = IF r.ctl = "return" THEN @ ELSE <<>>]
    [] k = "func" ->
         Gives([st EXCEPT !.funs = Append(@, [params |-> t[2], dots |-> t[3], body |-> t[4],
                                              env |-> st.env])], <<"fun", Len(st.funs) + 1>>)
    [] k = "table" ->
         LET items == SelectSeq(t[2], LAMBDA x : x[1] = "item")
             r == FoldLeft(LAMBDA acc, i :
                    LET x == t[2][i]
                        a == Ev(<<"list", IF x[1] = "item" THEN <<x[2]>> ELSE <<x[2], <<"paren", x[3]>>>>>>,
                                acc.st)
                    IN  IF x[1] = "rec" THEN [acc EXCEPT !.st = a, !.m = (a.vals[1] :> a.vals[2]) @@ @]
                        ELSE [acc EXCEPT !.st = a, !.l = @ \o
                                (IF i = Len(t[2]) THEN a.vals ELSE FirstOf(a.vals))],
                    [st |-> st, m |-> <<>>, l |-> <<>>], [i \in DOMAIN t[2] |-> i])
         IN  NewTab(r.st, Listed(r.l) @@ r.m)
    [] k = "un" ->
         then(t[3], st, LAMBDA r, v : Gives(r,
           CASE t[2] = "not" -> Bool(IsFalse(v)) [] t[2] = "-" -> Num(-v[2])
             [] t[2] = "#" -> Num(IF v[1] = "str" THEN Len(v[2]) ELSE Length(r.tabs[v[2]]))))
    [] k = "bin" /\ t[2] = "and" ->
         then(t[3], st, LAMBDA r, v : IF IsFalse(v) THEN Gives(r, v) ELSE Ev(<<"paren", t[4]>>, r))
    [] k = "bin" /\ t[2] = "or" ->
         then(t[3], st, LAMBDA r, v : IF IsFalse(v) THEN Ev(<<"paren", t[4]>>, r) ELSE Gives(r, v))
    [] k = "bin" /\ t[2] \notin {"and", "or"} ->
         LET r == of(<<"list", <<t[3], <<"paren", t[4]>>>>>>)
         IN  Gives(r, Operation(t[2], r.vals[1], r.vals[2]))
    \* statements
    [] k = "seq" -> FoldLeft(LAMBDA acc, s : IF acc.ctl # "" THEN acc ELSE Ev(s, acc), st, t[2])
    [] k = "do" -> scoped(of(<<"seq", t[2]>>))
    [] k = "callstat" -> of(t[2])
    [] k = "local" -> LET r == of(<<"list", t[3]>>) IN Bound(r, t[2], r.vals)
    [] k = "localfunc" ->
         LET s == Bound(st, <<t[2]>>, <<>>)
         IN  then(t[3], s, LAMBDA r, v : [r EXCEPT !.cells[s.env[t[2]]] = v])
    [] k = "function" ->
         of(<<"assign", <<t[2]>>,
              <<IF t[3] THEN [t[4] EXCEPT ![2] = <<"self">> \o @] ELSE t[4]>>>>)
    [] k = "assign" ->
         LET parts == FlattenSeq([i \in DOMAIN t[2] |->
                        IF t[2][i][1] = "index" THEN <<t[2][i][2], t[2][i][3]>> ELSE <<>>])
             r == of(<<"list", parts \o <<<<"nil">>>>>>)
             s == Ev(<<"list", t[3]>>, r)
             place(i) == 2 * Cardinality({j \in 1 .. i - 1 : t[2][j][1] = "index"})
             store(acc, i) ==
               LET v == FittedTo(s.vals, Len(t[2]))[i]
                   x == t[2][i]
               IN  CASE x[1] = "index" ->
                          [acc EXCEPT !.tabs[r.vals[place(i) + 1][2]] = (r.vals[place(i) + 2] :> v) @@ @]
                     [] x[1] = "name" /\ x[2] \in DOMAIN acc.env ->
                          [acc EXCEPT !.cells[acc.env[x[2]]] = v]
                     [] OTHER -> [acc EXCEPT !.tabs[1] = (Str(x[2]) :> v) @@ @]
         IN  FoldLeft(store, s, [i \in DOMAIN t[2] |-> Len(t[2]) + 1 - i])
    [] k = "if" ->
         IF t[2] = <<>> THEN (IF t[3] = <<>> THEN st ELSE of(<<"do", t[3][1]>>))
         ELSE test(t[2][1][1], st, <<"do", t[2][1][2]>>, <<"if", Tail(t[2]), t[3]>>)
    [] k = "while" -> test(t[2], st, <<"whilego", t[2], t[3]>>, <<"seq", <<>>>>)
    [] k = "whilego" ->
         LET r == of(<<"do", t[3]>>)
         IN  IF r.ctl # "" THEN over(r) ELSE Ev(<<"while", t[2], t[3]>>, r)
    [] k = "repeat" ->
         LET r == of(<<"seq", t[2]>>)
             c == Ev(t[3], r)
         IN  IF r.ctl # "" THEN over(scoped(r))
             ELSE IF IsFalse(FirstOf(c.vals)[1]) THEN Ev(t, scoped(c)) ELSE scoped(c)
    [] k = "for" ->
         LET r == of(<<"list", t[3]>>)
             v == IF Len(t[3]) = 2 THEN Append(r.vals, Num(1)) ELSE FittedTo(r.vals, 3)
         IN  Ev(<<"forgo", t[2], v[1][2], v[2][2], v[3][2], t[4]>>, r)
    [] k = "forgo" ->
         LET r == scoped(Ev(<<"seq", t[6]>>, Bound(st, <<t[2]>>, <<Num(t[3])>>)))
         IN  IF IF t[5] > 0 THEN t[3] > t[4] ELSE t[3] < t[4] THEN st
             ELSE IF r.ctl # "" THEN over(r) ELSE Ev([t EXCEPT ![3] = @ + t[5]], r)
    [] k = "forin" ->
         LET r == of(<<"list", t[3]>>) IN Ev(<<"foringo", t[2], FittedTo(r.vals, 3), t[4]>>, r)
    [] k = "foringo" ->
         LET a == Ev(<<"apply", t[3][1], <<t[3][2], t[3][3]>>>>, st)
             v == FirstOf(a.vals)[1]
             r == scoped(Ev(<<"seq", t[4]>>, Bound(a, t[2], a.vals)))
         IN  IF v = Nil THEN a
             ELSE IF r.ctl # "" THEN over(r) ELSE Ev([t EXCEPT ![3][3] = v], r)
    [] k = "return" -> LET r == of(<<"list", t[2]>>) IN [r EXCEPT !.ctl = IF @ = "error" THEN @ ELSE "return"]
    [] k = "break" -> [st EXCEPT !.ctl = "break"]

\* what the environment is told, when it answers so
Told(program, answers, library) ==
  Ev(<<"seq", program>>, Start(answers, library)).told
=============================================================================
