------------------------------ MODULE LuaPattern ----------------------------
(***************************************************************************)
(* Substrings and pattern matching of the string library                   *)
(* (jni/lua/lstrlib.c), by backtracking over the text of the pattern.      *)
(*                                                                         *)
(* ms is the MatchState: the subject and the pattern, the captures up to   *)
(* its level, and e, what the C function returns: a place in the subject,  *)
(* Null, or Raised when it raises an error.  Captures are changed while    *)
(* matching and put back when the rest does not match.  A place in the     *)
(* subject is the number of characters before it, one in a pattern is an   *)
(* index.                                                                  *)
(***************************************************************************)
EXTENDS LuaTable

CONSTANT MaxCaptures    \* LUA_MAXCAPTURES

Null == -1
Raised == -2
CapUnfinished == -1
CapPosition == -2
Error == <<"error">>    \* in place of results

\* the character at an index, "" being the \0 at the end
Char(s, i) == IF i \in 1 .. Len(s) THEN SubSeq(s, i, i) ELSE ""
Chars(s) == {Char(s, i) : i \in 1 .. Len(s)}
Piece(s, from, to) == SubSeq(s, from + 1, to)

(***************************************************************************)
(* Characters and classes.                                                 *)
(***************************************************************************)
\* by their codes; quotes, backslash and backtick are left out
Ascii == " !#$%&()*+,-./0123456789:;<=>?@ABCDEFGHIJKLMNOPQRSTUVWXYZ[]^_abcdefghijklmnopqrstuvwxyz{|}~"
AllChars == Chars(Ascii) \cup {""}
Place == [c \in AllChars |-> CHOOSE i \in 0 .. Len(Ascii) : Char(Ascii, i) = c]
Digits == Chars("0123456789")
LowerCase == "abcdefghijklmnopqrstuvwxyz"
UpperCase == "ABCDEFGHIJKLMNOPQRSTUVWXYZ"
Letters == Chars(LowerCase) \cup Chars(UpperCase)

\* match_class; a capital is the complement, what is no class stands for itself
Class ==
  [a |-> Letters, c |-> {""}, d |-> Digits, l |-> Chars(LowerCase), p |-> Chars("!#$%&()*+,-./:;<=>?@[]^_{|}~"),
   s |-> {" "}, u |-> Chars(UpperCase), w |-> Letters \cup Digits, x |-> Chars("0123456789abcdefABCDEF"), z |-> {""}]
Capital(cl) == Char(UpperCase, Place[cl] - Place["a"] + 1)
ClassOf ==
  Class @@ [C \in {Capital(cl) : cl \in DOMAIN Class} |->
              AllChars \ Class[CHOOSE cl \in DOMAIN Class : Capital(cl) = C]]
        @@ [c \in AllChars |-> {c}]
MatchClass(c, cl) == c \in ClassOf[cl]

\* classend: what follows a single character class, or 0 for an error
RECURSIVE BracketEnd(_, _)
BracketEnd(p, i) ==
  LET next == IF Char(p, i) = "%" /\ i < Len(p) THEN i + 2 ELSE i + 1
  IN  CASE Char(p, i) = "" -> 0
        [] Char(p, i) # "" /\ Char(p, next) = "]" -> next + 1
        [] OTHER -> BracketEnd(p, next)
ClassEnd(p, i) ==
  CASE Char(p, i) = "%" -> IF i = Len(p) THEN 0 ELSE i + 2
    [] Char(p, i) = "[" -> BracketEnd(p, IF Char(p, i + 1) = "^" THEN i + 2 ELSE i + 1)
    [] OTHER -> i + 1

\* matchbracketclass: the items from i to the bracket at ec
RECURSIVE InBracket(_, _, _, _)
InBracket(c, p, i, ec) ==
  /\ i < ec
  /\ CASE Char(p, i) = "%" -> MatchClass(c, Char(p, i + 1)) \/ InBracket(c, p, i + 2, ec)
       [] Char(p, i) # "%" /\ Char(p, i + 1) = "-" /\ i + 2 < ec ->
            Place[c] \in Place[Char(p, i)] .. Place[Char(p, i + 2)] \/ InBracket(c, p, i + 3, ec)
       [] OTHER -> c = Char(p, i) \/ InBracket(c, p, i + 1, ec)
MatchBracketClass(c, p, i, ec) ==
  LET complement == Char(p, i + 1) = "^"
  IN  InBracket(c, p, IF complement THEN i + 2 ELSE i + 1, ec) # complement

\* singlematch
SingleMatch(c, p, i, ep) ==
  CASE Char(p, i) = "." -> TRUE
    [] Char(p, i) = "%" -> MatchClass(c, Char(p, i + 1))
    [] Char(p, i) = "[" -> MatchBracketClass(c, p, i, ep - 1)
    [] OTHER -> Char(p, i) = c
\* the test m of match: the class from p to ep has the character at s
Matches(ms, s, p, ep) == s < Len(ms.src) /\ SingleMatch(Char(ms.src, s + 1), ms.pat, p, ep)

(***************************************************************************)
(* The matcher.                                                            *)
(***************************************************************************)
Level(ms) == Len(ms.cap)
Ends(ms, e) == [ms EXCEPT !.e = e]

\* capture_to_close, and check_capture of the l-th; 0 for an error
CaptureToClose(ms) == Max({0} \cup {l \in 1 .. Level(ms) : ms.cap[l].len = CapUnfinished})
CheckCapture(ms, l) == IF l \in 1 .. Level(ms) /\ ms.cap[l].len # CapUnfinished THEN l ELSE 0

\* matchbalance
RECURSIVE Balance(_, _, _, _, _)
Balance(src, s, b, e, cont) ==
  LET c == Char(src, s + 1)
  IN  CASE c = "" -> Null
        [] c # "" /\ c = e -> IF cont = 1 THEN s + 1 ELSE Balance(src, s + 1, b, e, cont - 1)
        [] c # e /\ c = b -> Balance(src, s + 1, b, e, cont + 1)
        [] OTHER -> Balance(src, s + 1, b, e, cont)
MatchBalance(ms, s, p) ==
  LET b == Char(ms.pat, p)
      e == Char(ms.pat, p + 1)
  IN  CASE e = "" -> Raised
        [] e # "" /\ Char(ms.src, s + 1) # b -> Null
        [] OTHER -> Balance(ms.src, s + 1, b, e, 1)

\* match_capture; a position has no text
MatchCapture(ms, s, l) ==
  LET c == ms.cap[l]
  IN  CASE CheckCapture(ms, l) = 0 -> Raised
        [] CheckCapture(ms, l) # 0 /\ c.len \in 0 .. Len(ms.src) - s
             /\ Piece(ms.src, c.init, c.init + c.len) = Piece(ms.src, s, s + c.len) -> s + c.len
        [] OTHER -> Null

RECURSIVE Match(_, _, _), MaxTries(_, _, _, _), MinExpand(_, _, _, _)

\* max_expand: the longest run, then shorter ones
MaxTries(ms, s, i, ep) ==
  LET r == Match(ms, s + i, ep + 1)
  IN  IF r.e # Null \/ i = 0 THEN r ELSE MaxTries(r, s, i - 1, ep)
Run(ms, s, p, ep) ==
  Max({i \in 0 .. Len(ms.src) - s : \A j \in 0 .. i - 1 : Matches(ms, s + j, p, ep)})
MaxExpand(ms, s, p, ep) == MaxTries(ms, s, Run(ms, s, p, ep), ep)

MinExpand(ms, s, p, ep) ==
  LET r == Match(ms, s, ep + 1)
  IN  IF r.e = Null /\ Matches(ms, s, p, ep) THEN MinExpand(r, s + 1, p, ep) ELSE r

\* start_capture and end_capture
StartCapture(ms, s, p, what) ==
  LET r == Match([ms EXCEPT !.cap = Append(@, [init |-> s, len |-> what])], s, p)
  IN  CASE Level(ms) >= MaxCaptures -> Ends(ms, Raised)
        [] Level(ms) < MaxCaptures /\ r.e = Null -> [r EXCEPT !.cap = Front(@)]
        [] OTHER -> r
\* a slip: a capture closed on a path that fails stays closed
EndCaptureKept(ms, s, p) ==
  LET l == CaptureToClose(ms)
  IN  IF l = 0 THEN Ends(ms, Raised)
      ELSE Match([ms EXCEPT !.cap[l].len = s - ms.cap[l].init], s, p)
EndCapture(ms, s, p) ==
  LET l == CaptureToClose(ms)
      r == Match([ms EXCEPT !.cap[l].len = s - ms.cap[l].init], s, p)
  IN  CASE l = 0 -> Ends(ms, Raised)
        [] l # 0 /\ r.e = Null -> [r EXCEPT !.cap[l].len = CapUnfinished]
        [] OTHER -> r

\* match goes on after a special item that took the subject to e
Onwards(ms, e, p) == IF e < 0 THEN Ends(ms, e) ELSE Match(ms, e, p)

\* %f, the frontier between a character outside of the set and one in it
Frontier(ms, s, p) ==
  LET ep == ClassEnd(ms.pat, p)
      in(i) == MatchBracketClass(Char(ms.src, i), ms.pat, p, ep - 1)
  IN  CASE Char(ms.pat, p) # "[" \/ ep = 0 -> Ends(ms, Raised)
        [] Char(ms.pat, p) = "[" /\ ep # 0 /\ (in(s) \/ ~in(s + 1)) -> Ends(ms, Null)
        [] OTHER -> Match(ms, s, ep)

\* the suffix at ep, behind a class
MatchItem(ms, s, p, ep) ==
  LET suffix == Char(ms.pat, ep)
      once == Match(ms, s + 1, ep + 1)
  IN  CASE ep = 0 -> Ends(ms, Raised)
        [] ep # 0 /\ suffix = "*" -> MaxExpand(ms, s, p, ep)
        [] ep # 0 /\ suffix = "-" -> MinExpand(ms, s, p, ep)
        [] ep # 0 /\ suffix = "?" ->
             IF Matches(ms, s, p, ep) /\ once.e # Null THEN once ELSE Match(ms, s, ep + 1)
        [] ep # 0 /\ suffix \notin {"*", "-", "?"} /\ ~Matches(ms, s, p, ep) -> Ends(ms, Null)
        [] OTHER -> IF suffix = "+" THEN MaxExpand(ms, s + 1, p, ep) ELSE Match(ms, s + 1, ep)

Match(ms, s, p) ==
  LET c == Char(ms.pat, p)
      d == Char(ms.pat, p + 1)
  IN  CASE c = "(" -> IF d = ")" THEN StartCapture(ms, s, p + 2, CapPosition)
                      ELSE StartCapture(ms, s, p + 1, CapUnfinished)
        [] c = ")" -> EndCapture(ms, s, p + 1)
        [] c = "%" /\ d = "b" -> Onwards(ms, MatchBalance(ms, s, p + 2), p + 4)
        [] c = "%" /\ d = "f" -> Frontier(ms, s, p + 2)
        [] c = "%" /\ d \in Digits -> Onwards(ms, MatchCapture(ms, s, Place[d] - Place["0"]), p + 2)
        [] c = "" -> Ends(ms, s)
        [] c = "$" /\ d = "" -> Ends(ms, IF s = Len(ms.src) THEN s ELSE Null)
        [] OTHER -> MatchItem(ms, s, p, ClassEnd(ms.pat, p))

\* lmemfind
MemFind(s1, s2) ==
  LET found == {i \in 0 .. Len(s1) - Len(s2) : Piece(s1, i, i + Len(s2)) = s2}
  IN  IF found = {} THEN Null ELSE Min(found)

(***************************************************************************)
(* What a match gives: captures, or the whole.                             *)
(***************************************************************************)
\* push_onecapture and push_captures
OneCapture(ms, l, s) ==
  LET c == ms.cap[l]
  IN  CASE l > Level(ms) -> IF l = 1 THEN Str(Piece(ms.src, s, ms.e)) ELSE Error
        [] l <= Level(ms) /\ c.len = CapUnfinished -> Error
        [] l <= Level(ms) /\ c.len = CapPosition -> Num(c.init + 1)
        [] OTHER -> Str(Piece(ms.src, c.init, c.init + c.len))
Captures(ms, s, whole) ==
  [l \in 1 .. (IF Level(ms) = 0 /\ whole THEN 1 ELSE Level(ms)) |-> OneCapture(ms, l, s)]

\* posrelat
PosRelat(pos, len) == Max({0, IF pos < 0 THEN pos + len + 1 ELSE pos})
Sub(s, i, j) ==
  SubSeq(s, Max({1, PosRelat(i, Len(s))}), Min({PosRelat(j, Len(s)), Len(s)}))

NewMatch(src, pat) == [src |-> src, pat |-> pat, cap |-> <<>>, e |-> Null]
Anchored(pat) == Char(pat, 1) = "^"
First(pat) == IF Anchored(pat) THEN 2 ELSE 1

\* str_find_aux; r is the match at s
RECURSIVE FindFrom(_, _, _, _)
Found(r, src, pat, s, find) ==
  CASE r.e = Raised -> <<Error>>
    [] r.e >= 0 -> (IF find THEN <<Num(s + 1), Num(r.e)>> ELSE <<>>) \o Captures(r, s, ~find)
    [] r.e = Null /\ s < Len(src) /\ ~Anchored(pat) -> FindFrom(src, pat, s + 1, find)
    [] OTHER -> <<Nil>>
FindFrom(src, pat, s, find) ==
  Found(Match(NewMatch(src, pat), s, First(pat)), src, pat, s, find)
Plain(pat) == Chars(pat) \cap Chars("^$*+?.([%-") = {}
StrFindAux(src, pat, init, find) ==
  LET s == Min({Max({0, PosRelat(init, Len(src)) - 1}), Len(src)})
      at == MemFind(Piece(src, s, Len(src)), pat)
  IN  CASE find /\ Plain(pat) /\ at = Null -> <<Nil>>
        [] find /\ Plain(pat) /\ at # Null -> <<Num(s + at + 1), Num(s + at + Len(pat))>>
        [] OTHER -> FindFrom(src, pat, s, find)

(***************************************************************************)
(* gsub with a string or a table to replace by.                            *)
(***************************************************************************)
InText(v) == IF v[1] = "num" THEN Str(ToString(v[2])) ELSE v
Both(a, b) == IF Error \in {a, b} THEN Error ELSE Str(a[2] \o b[2])
\* add_s, from the i-th character
RECURSIVE AddS(_, _, _, _)
AddS(ms, s, news, i) ==
  LET c == Char(news, i)
      d == Char(news, i + 1)
  IN  CASE c = "" -> Str("")
        [] c # "" /\ c # "%" -> Both(Str(c), AddS(ms, s, news, i + 1))
        [] c = "%" /\ d \notin Digits -> Both(Str(d), AddS(ms, s, news, i + 2))
        [] c = "%" /\ d = "0" -> Both(Str(Piece(ms.src, s, ms.e)), AddS(ms, s, news, i + 2))
        [] OTHER -> Both(InText(OneCapture(ms, Place[d] - Place["0"], s)), AddS(ms, s, news, i + 2))
\* add_value; repl is the kind of what to replace by, and the text or table
AddValue(ms, s, repl) ==
  LET key == OneCapture(ms, 1, s)
      v == Get(repl.of, key)
  IN  CASE repl.kind # "tab" -> AddS(ms, s, repl.of, 1)
        [] repl.kind = "tab" /\ key = Error -> Error
        [] repl.kind = "tab" /\ key # Error /\ IsFalse(v) -> Str(Piece(ms.src, s, ms.e))
        [] repl.kind = "tab" /\ key # Error /\ v[1] \in {"num", "str"} -> InText(v)
        [] OTHER -> Error

\* str_gsub: g is the place s in the subject, n substitutions and the text so far
GsubEnd(g) == <<Both(g.text, Str(Piece(g.src, g.s, Len(g.src)))), Num(g.n)>>
RECURSIVE Gsub(_)
\* the end of a round that matched up to e
GsubOnwards(g, e) ==
  LET again(h) == IF Anchored(g.pat) THEN GsubEnd(h) ELSE Gsub(h)
  IN  CASE g.text = Error \/ e = Raised -> <<Error, Num(g.n)>>
        [] g.text # Error /\ e > g.s -> again([g EXCEPT !.s = e])
        [] g.text # Error /\ e \in Null .. g.s /\ g.s < Len(g.src) ->
             again([g EXCEPT !.text = Both(@, Str(Char(g.src, g.s + 1))), !.s = @ + 1])
        [] OTHER -> GsubEnd(g)
GsubMatched(g, r) ==
  GsubOnwards(IF r.e < 0 THEN g ELSE [g EXCEPT !.text = Both(@, AddValue(r, g.s, g.repl)), !.n = @ + 1], r.e)
Gsub(g) ==
  IF g.n < g.max THEN GsubMatched(g, Match(NewMatch(g.src, g.pat), g.s, First(g.pat))) ELSE GsubEnd(g)
StrGsub(src, pat, repl, max) ==
  Gsub([src |-> src, pat |-> pat, repl |-> repl, max |-> max, s |-> 0, n |-> 0, text |-> Str("")])

\* the functions of the library, with what their arguments default to
StringFunctions == {"sub", "rep", "reverse", "find", "match", "gsub"}
Arg(args, i, default) == IF i <= Len(args) THEN args[i][2] ELSE default
StringCall(name, args, repl) ==
  LET s == args[1][2]
      p == args[2][2]
  IN  CASE name = "sub" -> <<Str(Sub(s, p, Arg(args, 3, -1)))>>
        [] name = "rep" -> <<Str(FoldLeft(LAMBDA acc, i : acc \o s, "", [i \in 1 .. p |-> i]))>>
        [] name = "reverse" -> <<Str(FoldLeft(LAMBDA acc, i : Char(s, i) \o acc, "", [i \in 1 .. Len(s) |-> i]))>>
        [] name \in {"find", "match"} -> StrFindAux(s, p, Arg(args, 3, 1), name = "find")
        [] name = "gsub" -> StrGsub(s, p, repl, Arg(args, 4, Len(s) + 1))
=============================================================================
