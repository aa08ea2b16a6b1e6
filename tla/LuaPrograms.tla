----------------------------- MODULE LuaPrograms ----------------------------
(***************************************************************************)
(* Lua programs, as syntax trees, for the runs of LuaInterpreter: some     *)
(* that bring out the hard parts of compiler and machine, pattern matching *)
(* of some patterns in some subjects, and all logical expressions of a     *)
(* small size, as a value and as a condition.                              *)
(***************************************************************************)
EXTENDS Integers, Sequences, SequencesExt, TLC

V(n) == <<"name", n>>
S(s) == <<"str", s>>
Dots == <<"dots">>
Nothing == <<"nil">>
N(n) == <<"num", n>>
At(t, k) == <<"index", t, k>>
Field(t, s) == At(t, S(s))
Call(f, args) == <<"call", f, args>>
Send(o, s, args) == <<"method", o, s, args>>
Fun(params, body) == <<"func", params, FALSE, body>>
FunDots(params, body) == <<"func", params, TRUE, body>>
Bin(op, a, b) == <<"bin", op, a, b>>
Not(a) == <<"un", "not", a>>
Tab(items) == <<"table", items>>
Local(names, es) == <<"local", names, es>>
Let(n, e) == Local(<<n>>, <<e>>)
Assign(v, e) == <<"assign", <<v>>, <<e>>>>
If(c, b) == <<"if", <<<<c, b>>>>, <<>>>>
IfElse(c, b, d) == <<"if", <<<<c, b>>>>, <<d>>>>
Do(f, args) == <<"callstat", Call(f, args)>>
Tell(es) == Do(V("tell"), es)
Return(es) == <<"return", es>>
Break == <<"break">>
Asked == Call(V("any"), <<>>)
Plus(a, b) == Bin("+", a, b)

Closures == <<
  <<Let("fs", Tab(<<>>)),
    <<"for", "i", <<N(1), N(3)>>,
      <<Let("j", V("i")),
        Assign(At(V("fs"), V("i")),
               Fun(<<>>, <<Assign(V("j"), Plus(V("j"), N(10))), Return(<<V("j")>>)>>)),
        If(Asked, <<Break>>)>>>>,
    Let("f", At(V("fs"), N(1))),
    Tell(<<Call(V("f"), <<>>), Call(At(V("fs"), <<"un", "#", V("fs")>>), <<>>), Call(V("f"), <<>>)>>)>>,
  <<Local(<<"i", "f">>, <<N(0)>>),
    <<"repeat", <<Let("x", V("i")),
                  Assign(V("f"), Fun(<<>>, <<Assign(V("x"), Plus(V("x"), N(1))), Return(<<V("x")>>)>>)),
                  Assign(V("i"), Plus(V("i"), N(1)))>>,
      Bin("or", Bin("==", V("x"), N(2)), Asked)>>,
    Tell(<<Call(V("f"), <<>>), Call(V("f"), <<>>), V("i")>>)>>,
  <<Local(<<"n", "g">>, <<N(0)>>),
    <<"while", <<"true">>,
      <<Let("y", Asked), <<"do", <<Let("z", V("n")), Assign(V("g"), Fun(<<>>, <<Return(<<V("y"), V("z")>>)>>)),
                                 If(Not(V("y")), <<Break>>)>>>>,
        Assign(V("n"), Plus(V("n"), N(1)))>>>>,
    Tell(<<V("n"), Call(V("g"), <<>>)>>)>>,
  <<Let("make", Fun(<<"a">>,
      <<Let("get", Fun(<<>>, <<Return(<<V("a")>>)>>)),
        <<"localfunc", "set", Fun(<<"b">>, <<Assign(V("a"), Plus(V("b"), Call(V("get"), <<>>)))>>)>>,
        Return(<<V("get"), V("set"),
                 Fun(<<>>, <<Return(<<Fun(<<>>, <<Assign(V("a"), Plus(V("a"), V("a"))), Return(<<V("a")>>)>>)>>)>>)>>)>>)),
    Local(<<"get", "set", "twice">>, <<Call(V("make"), <<N(1)>>)>>),
    Do(V("set"), <<N(5)>>), Tell(<<Call(V("get"), <<>>)>>),
    Tell(<<Call(Call(V("twice"), <<>>), <<>>), Call(V("get"), <<>>)>>)>>>>

Assignments == <<
  <<Local(<<"i", "a">>, <<N(1), Tab(<<>>)>>),
    <<"assign", <<At(V("a"), V("i")), V("i"), At(V("a"), Plus(V("i"), N(1)))>>,
      <<N(20), Plus(V("i"), N(1)), N(30)>>>>,
    Tell(<<V("i"), At(V("a"), N(1)), At(V("a"), N(2)), At(V("a"), N(3))>>)>>,
  <<Local(<<"t">>, <<Tab(<<>>)>>), Let("u", V("t")),
    <<"assign", <<Field(V("t"), "x"), V("t")>>, <<N(1), N(2)>>>>,
    Tell(<<Field(V("u"), "x"), V("t")>>),
    <<"assign", <<V("t"), At(V("u"), N(1)), V("q")>>, <<Call(V("any"), <<>>)>>>>,
    <<"assign", <<V("t"), At(V("u"), N(2))>>, <<N(7), N(8), Asked>>>>,
    Tell(<<V("t"), At(V("u"), N(1)), At(V("u"), N(2)), V("q")>>)>>,
  <<Local(<<"a", "b">>, <<N(1), N(2)>>), <<"assign", <<V("a"), V("b")>>, <<V("b"), V("a")>>>>,
    Local(<<"c">>, <<>>), Local(<<"d", "e">>, <<>>), Let("g", V("a")),
    Tell(<<V("a"), V("b"), V("c"), V("d"), V("e"), <<"un", "-", V("g")>>>>)>>>>

Vector(n) == [i \in 1 .. n |-> <<"item", N(i + 10)>>]
Tables == <<
  <<Let("f", FunDots(<<"a">>, <<Local(<<"b", "c">>, <<Dots>>), Return(<<V("c"), Dots>>)>>)),
    Tell(<<Call(V("f"), <<N(1), N(2), N(3)>>)>>), Tell(<<<<"paren", Call(V("f"), <<N(1), N(2), N(3)>>)>>>>),
    Tell(<<Call(V("f"), <<>>), Call(V("f"), <<N(4), N(5), N(6)>>)>>),
    Let("g", FunDots(<<"a">>, <<Return(<<Field(V("arg"), "n"), At(V("arg"), N(2)), V("a")>>)>>)),
    Tell(<<Call(V("g"), <<N(5), N(6), N(7)>>)>>), Tell(<<Call(V("g"), <<>>)>>),
    Let("t", Tab(<<<<"rec", S("x"), N(4)>>>> \o Vector(3) \o
                 <<<<"rec", Plus(N(2), N(3)), Asked>>, <<"item", Call(V("f"), <<N(1), N(2), N(3)>>)>>>>)),
    Tell(<<<<"un", "#", V("t")>>, Field(V("t"), "x"), At(V("t"), N(3)), At(V("t"), N(4)), At(V("t"), N(5))>>)>>,
  <<Let("t", Tab(Vector(4))),
    Do(V("insert"), <<V("t"), N(5)>>), Do(V("insert"), <<V("t"), N(2), Asked>>),
    Tell(<<Call(V("remove"), <<V("t"), N(1)>>), Call(V("remove"), <<V("t")>>)>>),
    Assign(At(V("t"), N(9)), <<"true">>),
    Tell(<<<<"un", "#", V("t")>>, At(V("t"), N(1)), At(V("t"), N(4)), Call(V("maxn"), <<V("t")>>)>>)>>,
  <<Local(<<"t", "n">>, <<Tab(<<>>), N(0)>>),
    <<"for", "i", <<N(4), N(1), <<"un", "-", N(1)>>>>,
      <<IfElse(Asked, <<Assign(At(V("t"), Bin("*", V("i"), N(3))), V("i"))>>,
               <<Assign(At(V("t"), Bin("..", S("k"), Bin("..", V("i"), S("")))), V("i"))>>)>>>>,
    <<"forin", <<"k", "v">>, <<V("next"), V("t")>>,
      <<Assign(V("n"), Plus(V("n"), V("v"))), Assign(At(V("t"), V("k")), Nothing)>>>>,
    Assign(At(V("t"), N(1)), V("n")),
    Tell(<<At(V("t"), N(1)), Call(V("next"), <<V("t")>>)>>)>>>>

Calls == <<
  <<Let("o", Tab(<<<<"rec", S("n"), N(1)>>>>)),
    <<"function", Field(V("o"), "inc"), TRUE,
      Fun(<<"k">>, <<Assign(Field(V("self"), "n"), Plus(Field(V("self"), "n"), V("k"))), Return(<<V("self")>>)>>)>>,
    Tell(<<Field(Send(Send(V("o"), "inc", <<N(2)>>), "inc", <<N(3)>>), "n")>>),
    <<"function", V("twice"), FALSE, Fun(<<"f", "x">>, <<Return(<<Call(V("f"), <<Call(V("f"), <<V("x")>>)>>)>>)>>)>>,
    Tell(<<Call(V("twice"), <<Fun(<<"x">>, <<Return(<<Bin("*", V("x"), N(3))>>)>>), N(2)>>)>>)>>,
  <<<<"localfunc", "sum", Fun(<<"n", "f">>,
      <<If(Bin("<=", V("n"), N(0)), <<Return(<<Call(V("f"), <<>>)>>)>>),
        Let("m", V("n")),
        Return(<<Call(V("sum"), <<Bin("-", V("n"), N(1)),
                                  Fun(<<>>, <<Return(<<V("m"), Call(V("f"), <<>>)>>)>>)>>)>>)>>)>>,
    Tell(<<Call(V("sum"), <<N(3), V("any")>>)>>),
    Let("id", FunDots(<<>>, <<Return(<<Dots>>)>>)),
    Let("wrap", FunDots(<<>>, <<Return(<<Call(V("id"), <<Dots>>)>>)>>)),
    Tell(<<Call(V("wrap"), <<N(1), Call(V("id"), <<Nothing, Not(V("wide"))>>)>>)>>)>>,
  <<Let("upto", Fun(<<"n">>,
      <<Let("i", N(0)),
        Return(<<Fun(<<>>, <<Assign(V("i"), Plus(V("i"), N(1))), If(Bin("<=", V("i"), V("n")), <<Return(<<V("i"), V("n")>>)>>)>>)>>)>>)),
    Let("all", S("")),
    <<"forin", <<"i">>, <<Call(V("upto"), <<N(3)>>)>>,
      <<<<"if", <<<<Bin("==", V("i"), N(1)), <<Assign(V("all"), Bin("..", V("all"), S("a")))>>>>,
                  <<Bin("and", Bin(">", V("i"), N(2)), Not(Asked)), <<Assign(V("all"), Bin("..", V("all"), S("b")))>>>>>>,
        <<<<Assign(V("all"), Bin("..", V("all"), V("i")))>>>>>>>>>>,
    Tell(<<V("all"), <<"un", "#", V("all")>>>>)>>>>

\* all pairs of a sequence of expressions and another, under either operator
Both(A, C) ==
  LET n == Len(C)
  IN  [i \in 1 .. 2 * Len(A) * n |->
         LET q == (i - 1) \div 2
         IN  Bin(IF i % 2 = 1 THEN "and" ELSE "or", A[(q \div n) + 1], C[(q % n) + 1])]
Atoms == <<Asked, V("y"), Nothing, N(1), Bin("<", N(1), V("one"))>>
Two == Both(Atoms, Atoms)
Logical == Both(Two, <<V("y")>>) \o Both(<<Asked>>, Two) \o [i \in DOMAIN Two |-> Not(Two[i])]
AsValue(e) == <<Local(<<"one", "y">>, <<N(2), Asked>>), Let("x", e), Tell(<<V("x"), Not(e)>>)>>
AsCondition(e) ==
  <<Local(<<"one", "y">>, <<N(2), Asked>>), IfElse(e, <<Tell(<<N(1)>>)>>, <<Tell(<<N(2)>>)>>)>>

(***************************************************************************)
(* Patterns, as LuaPatternMeaning has them, and subjects that bring out    *)
(* backtracking, captures undone on the way, and errors that are only      *)
(* raised when the match gets there.                                       *)
(***************************************************************************)
Letters == {"a", "b", "c"}
Numerals == {"1", "2"}
AllChars == Letters \cup Numerals \cup {" ", "(", ")", "-", "]", "^"}
C(text, set, suffix) == <<"class", text, set, suffix>>
L(c) == C(c, {c}, "")
Dot(suffix) == C(".", AllChars, suffix)
Open == <<"open">>
Close == <<"close">>
Back(l) == <<"back", l>>
End == <<"end">>
Bad(text) == <<"bad", text>>
Patterns == <<
  <<L("a"), L("b")>>, <<>>, <<L("b"), Dot(""), L("c")>>,
  <<C("a", {"a"}, "*"), L("a"), L("b")>>, <<C("%a", Letters, "-"), L("b"), End>>,
  <<Open, Dot("-"), Close, L("b"), Open, Dot("*"), Close>>,
  <<Open, C("a", {"a"}, "*"), Open, Dot(""), Close, C("%w", Letters \cup Numerals, "*"), Close, Open, C("%s", {" "}, "*"), Close>>,
  <<Open, C("%w", Letters \cup Numerals, "+"), Close, Dot("-"), Back(1)>>,
  <<Open, Dot(""), Close, Open, Dot("?"), Close, Back(2), Back(1)>>,
  <<<<"pos">>, C("[^a]", AllChars \ {"a"}, "+"), <<"pos">>>>, <<<<"pos">>, L("a"), Back(1)>>,
  <<<<"start">>, C("[a-b1]", {"a", "b", "1"}, "?"), C("[%d%s]", Numerals \cup {" "}, "*"), Open, C("%S", AllChars \ {" "}, "-"), Close, End>>,
  <<<<"frontier", "[%a]", Letters>>, C("%a", Letters, "+"), <<"frontier", "[%A]", (AllChars \ Letters) \cup {""}>>>>,
  <<<<"bal", "(", ")">>>>, <<L("a"), <<"bal", "a", "a">>, C("b", {"b"}, "?")>>,
  <<C("[]-]", {"]", "-"}, "+")>>, <<C("[^%]^]", AllChars \ {"]", "^"}, "-"), C("[%-]", {"-"}, "")>>,
  <<Open, Open, L("a"), Close, C("b", {"b"}, "?"), Back(2)>>, <<L("a"), Close>>, <<Open, L("a"), Open, L("b"), Close>>,
  <<<<"pos">>, Open, <<"pos">>, Dot("*"), Close, Open, Dot(""), Close>>, <<L("b"), Bad("%")>>, <<L("b"), Bad("[^")>>, <<L("b"), Bad("%f")>>, <<L("b"), Bad("%bx")>>,
  <<Open, L("a"), Close, Open, Dot("?"), Close, <<"pos">>, Open, Dot("-"), Close, L("c")>>>>
ItemText(x) ==
  CASE x[1] = "class" -> x[2] \o x[4]
    [] x[1] \in {"open", "close", "pos", "start", "end"} ->
         [open |-> "(", close |-> ")", pos |-> "()", start |-> "^", end |-> "$"][x[1]]
    [] x[1] = "back" -> "%" \o ToString(x[2])
    [] x[1] = "bal" -> "%b" \o x[2] \o x[3]
    [] x[1] = "frontier" -> "%f" \o x[2]
    [] x[1] = "bad" -> x[2]
PatternText(p) == FoldLeft(LAMBDA t, x : t \o ItemText(x), "", p)
TextsToItems == [t \in {PatternText(p) : p \in Range(Patterns)} |-> CHOOSE p \in Range(Patterns) : PatternText(p) = t]

Replacements == <<
  <<<<"text", "<">>, <<"cap", 0>>, <<"text", "%">>, <<"cap", 1>>, <<"text", ">">>>>,
  <<<<"cap", 2>>, <<"text", "1">>>>>>
ReplacementText(ps) ==
  FoldLeft(LAMBDA t, x : t \o (IF x[1] = "cap" THEN "%" \o ToString(x[2]) ELSE IF x[2] = "%" THEN "%%" ELSE x[2]), "", ps)
TextsToParts == [t \in {ReplacementText(r) : r \in Range(Replacements)} |->
                   CHOOSE r \in Range(Replacements) : ReplacementText(r) = t]

Subjects == <<"", "aab", "abcab ", "(b(1)a) 2", "b]-^a1">>
Searches(s, p) == <<Tell(<<Call(V("find"), <<S(s), S(p)>>)>>), Tell(<<Call(V("match"), <<S(s), S(p), N(2)>>)>>)>>
Substitutes(s, p) ==
  <<Tell(<<Call(V("gsub"), <<S(s), S(p), Tab(<<<<"rec", S("a"), N(1)>>, <<"rec", S(""), S("x")>>, <<"rec", N(1), Asked>>>>)>>)>>),
    Tell(<<Call(V("gsub"), <<S(s), S(p), S(ReplacementText(Replacements[1]))>>)>>),
    Tell(<<Call(V("gsub"), <<S(s), S(p), S(ReplacementText(Replacements[2])), N(1)>>)>>)>>
Matchings == FlattenSeq([i \in DOMAIN Patterns |-> FlattenSeq([j \in DOMAIN Subjects |->
  LET p == PatternText(Patterns[i]) IN <<Searches(Subjects[j], p), Substitutes(Subjects[j], p)>>])])
Pieces(n) ==
  Tell([i \in 1 .. 8 |-> Call(V("sub"), <<S("abc"), <<"un", "-", N(5 - i)>>, N(n)>>)] \o
       <<Call(V("sub"), <<S("abc"), N(n)>>), Call(V("rep"), <<S("ab"), N(n)>>), Call(V("reverse"), <<S("abc")>>)>>)
Strings == <<<<Pieces(0), Pieces(2), Pieces(5)>>, <<Tell(<<Call(V("find"), <<S("ab"), S("b"), <<"un", "-", N(1)>>>>)>>),
              Tell(<<Call(V("find"), <<S("ab"), S(""), N(9)>>)>>), Tell(<<Call(V("gsub"), <<S("ab"), S("%"), S("")>>)>>)>>>>

AllPrograms == Closures \o Assignments \o Tables \o Calls
            \o Strings \o Matchings
            \o [i \in DOMAIN Logical |-> AsValue(Logical[i])]
            \o [i \in DOMAIN Logical |-> AsCondition(Logical[i])]
=============================================================================
