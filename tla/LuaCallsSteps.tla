----------------------------- MODULE LuaCallsSteps -----------------------------
(***************************************************************************)
(* The Lua machine of LuaCalls keeps the invariant: returns, the frames    *)
(* luaD_precall lays out, luaD_call and the instructions of luaV_execute.  *)
(***************************************************************************)
EXTENDS LuaCallsLemmas

-----------------------------------------------------------------------------
(* Returns                                                                 *)

LEMMA UpdateTwice ==
  ASSUME NEW m \in State, NEW t \in Threads, NEW A, NEW B
  PROVE  Update(Update(m, t, A), t, B) = Update(m, t, B)
<1>1. [[m.th EXCEPT ![t] = A] EXCEPT ![t] = B] = [m.th EXCEPT ![t] = B]
  BY DEF State
<1>2. Update(m, t, A) = [m EXCEPT !.th = [m.th EXCEPT ![t] = A]]
  BY DEF Update
<1>3. Update(m, t, A).th = [m.th EXCEPT ![t] = A] /\ Update(m, t, A).cs = m.cs
  BY <1>2 DEF State
<1> QED
  BY <1>1, <1>2, <1>3 DEF Update, State

(* The activation on the top has returned, with its frames.                *)
Pops(m, r, p, U) ==
  LET L == Len(m.cs)
      a == Last(m.cs)
      T == Running(m)
      k == Len(T.ci) - FramesIn(a)
  IN  /\ a.k \in {"call", "pcall", "errormsg", "exec", "cfun"}
      /\ r.cs = SubSeq(m.cs, 1, L - 1) /\ r.th = [m.th EXCEPT ![a.t] = U] /\ r \in State
      /\ U \in Thread /\ U.ci = SubSeq(T.ci, 1, k) /\ U.base = T.ci[k].base /\ U.over = T.over
      /\ U.open = UNION {T.ci[i].captured : i \in 1 .. k}
      /\ U.nC = T.nC - Adds(a) /\ U.status = T.status /\ U.baseC = T.baseC
      /\ p \in Nat /\ Low(T.ci[k]) <= p /\ Keeps(T.stk, U.stk, p - 1)
      /\ \A i \in 1 .. L - 1 : Owns(m.cs[i]) /\ m.cs[i].t = a.t => Floor(m.cs[i]) <= p

LEMMA SoundPop ==
  ASSUME NEW m, Sound(m), NEW r, NEW p, NEW U, Pops(m, r, p, U)
  PROVE  /\ Sound(r) /\ Begun(r) /\ AboveAll(r, p)
         /\ Last(r.cs) = m.cs[Len(m.cs) - 1] /\ Running(r) = U /\ Len(r.cs) = Len(m.cs) - 1
<1>1. PICK d, e \in [DOMAIN m.cs -> Nat] : Inv(m, d, e)
  BY DEF Sound
<1>2. Quiet(m)
  BY DEF Sound
<1> DEFINE L == Len(m.cs)
           a == Last(m.cs)
           T == Running(m)
           n == L - 1
<1>3. /\ a.k \in {"call", "pcall", "errormsg", "exec", "cfun"}
      /\ r.cs = SubSeq(m.cs, 1, n) /\ r.th = [m.th EXCEPT ![a.t] = U] /\ r \in State
      /\ U \in Thread /\ U.ci = SubSeq(T.ci, 1, Len(T.ci) - FramesIn(a))
      /\ U.base = T.ci[Len(T.ci) - FramesIn(a)].base /\ U.over = T.over
      /\ U.open = UNION {T.ci[i].captured : i \in 1 .. Len(T.ci) - FramesIn(a)}
      /\ U.nC = T.nC - Adds(a) /\ U.status = T.status /\ U.baseC = T.baseC
      /\ p \in Nat /\ Low(T.ci[Len(T.ci) - FramesIn(a)]) <= p /\ Keeps(T.stk, U.stk, p - 1)
      /\ \A i \in 1 .. n : Owns(m.cs[i]) /\ m.cs[i].t = a.t => Floor(m.cs[i]) <= p
  BY DEF Pops
<1>4. /\ m \in State /\ L \in Nat \ {0} /\ a \in Activation /\ a.t \in Threads
      /\ T \in Thread /\ FramesInv(T) /\ Len(T.ci) = d[L] /\ T.nC = e[L]
  BY <1>1, RunningFacts
<1>5. /\ L > 1 /\ n \in 1 .. L /\ n < L /\ e[L] = e[n] + Adds(a)
      /\ m.cs[n].t = a.t /\ d[L] = d[n] + FramesIn(a) /\ d[n] \in 1 .. Len(T.ci)
  <2>1. L > 1 /\ a.k # "resume"
    <3>1. L > 1 <=> a.k # "jni"
      BY <1>1, TopFacts
    <3> QED
      BY <1>3, <3>1
  <2>2. n \in 1 .. L /\ n < L /\ e[L] = e[n] + Adds(a)
    BY <1>1, <2>1, TopFacts
  <2>3. m.cs[n].t = a.t /\ d[L] = d[n] + FramesIn(a) /\ d[n] \in 1 .. Len(T.ci)
    BY <1>1, <2>1, TopFacts
  <2> QED
    BY <2>1, <2>2, <2>3
<1>6. Len(T.ci) - FramesIn(a) = d[n] /\ T.nC - Adds(a) = e[n]
  <2>1. FramesIn(a) \in Nat /\ Adds(a) \in {0, 1}
    BY <1>4, ActivationFacts
  <2>2. e \in [1 .. L -> Nat]
    BY <1>1, RunningFacts
  <2>3. e[n] \in Nat /\ d[n] \in Nat
    BY <1>5, <2>2
  <2> QED
    BY <1>4, <1>5, <2>1, <2>3
<1>7. d[n] <= SizeCI(U)
  <2>1. Len(T.ci) <= SizeCI(T) /\ Len(T.ci) \in Nat
    BY <1>4, FramesFacts DEF FramesInv
  <2>2. SizeCI(U) = SizeCI(T) /\ SizeCI(T) \in Nat
    <3>1. MaxCalls \in Nat /\ ErrorCalls \in Nat
      BY LimitsOrdered
    <3> QED
      BY <1>3, <3>1 DEF SizeCI
  <2>3. d[n] \in Nat /\ d[n] <= Len(T.ci)
    BY <1>5, <2>1
  <2> QED
    BY <2>1, <2>2, <2>3
<1>8. r.th[a.t] = U /\ \A u \in Threads : u # a.t => r.th[u] = m.th[u]
  BY <1>3, <1>4 DEF State
<1> HIDE DEF n, T, L, a
<1>9. GoesBack(m, d, e, r, n, p, U)
  BY <1>3, <1>5, <1>6, <1>7, <1>8 DEF GoesBack, T, a, L
<1>10. /\ Inv(r, Upto(d, n), Upto(e, n)) /\ Quiet(r) /\ Begun(r) /\ AboveAll(r, p)
       /\ Last(r.cs) = m.cs[n] /\ Running(r) = U /\ Len(r.cs) = n
  BY <1>1, <1>2, <1>9, CutBack
<1>11. Sound(r)
  BY <1>10, SoundFrom
<1> QED
  BY <1>10, <1>11 DEF n, L

(* What is below the frame on the top, no caller looks at.                 *)
LEMMA FuncAbove ==
  ASSUME NEW m, Sound(m), Last(m.cs).k \in {"exec", "cfun"}
  PROVE  LET T == Running(m)
             L == Len(m.cs)
         IN  /\ Len(T.ci) > 1 /\ Len(T.ci) - 1 \in 1 .. Len(T.ci) /\ Len(T.ci) - 1 < Len(T.ci)
             /\ Low(T.ci[Len(T.ci) - 1]) <= Frame(T).func /\ Frame(T).func \in Nat
             /\ \A i \in 1 .. L - 1 :
                  Owns(m.cs[i]) /\ m.cs[i].t = Last(m.cs).t => Floor(m.cs[i]) <= Frame(T).func
<1>1. PICK d, e \in [DOMAIN m.cs -> Nat] : Inv(m, d, e)
  BY DEF Sound
<1> DEFINE L == Len(m.cs)
           a == Last(m.cs)
           T == Running(m)
           q == Len(T.ci)
<1>2. /\ m.cs \in Seq(Activation) /\ StackInv(m.cs, d, e) /\ L \in Nat \ {0}
      /\ DOMAIN m.cs = 1 .. L /\ a = m.cs[L]
      /\ T \in Thread /\ FramesInv(T) /\ q = d[L] /\ T = m.th[a.t] /\ L \in 1 .. L
  <2>1. /\ m.cs \in Seq(Activation) /\ L \in Nat \ {0} /\ DOMAIN m.cs = 1 .. L /\ a = m.cs[L]
        /\ T \in Thread /\ FramesInv(T) /\ q = d[L]
    BY <1>1, RunningFacts
  <2>2. StackInv(m.cs, d, e) /\ T = m.th[a.t]
    BY <1>1 DEF Inv, Running
  <2> QED
    BY <2>1, <2>2
<1>3. q > 1 /\ q \in Nat /\ q - 1 \in 1 .. q /\ q - 1 < q /\ Frame(T) = T.ci[q]
  <2>1. q \in Nat \ {0} /\ Frame(T) = T.ci[q]
    BY <1>2, FramesFacts
  <2>2. CASE a.k = "cfun"
    BY <1>1, <2>1, <2>2, TopFacts
  <2>3. CASE a.k = "exec"
    <3>1. a.n \in Nat \ {0} /\ a.n < q
      BY <1>1, <2>3, TopFacts
    <3> QED
      BY <2>1, <3>1
  <2> QED
    BY <2>2, <2>3
<1>4. Low(T.ci[q - 1]) <= T.ci[q].func /\ T.ci[q].func \in Nat
  <2>1. q \in 1 .. q
    BY <1>3
  <2> QED
    BY <1>2, <1>3, <2>1, FramesFacts
<1>5. ASSUME NEW i \in 1 .. L - 1, Owns(m.cs[i]), m.cs[i].t = a.t
      PROVE  Floor(m.cs[i]) <= T.ci[q].func
  <2>1. i \in 1 .. L /\ i < L
    BY <1>2
  <2>2. ActivationInv(m, d, e, i)
    BY <1>1, <1>2, <2>1 DEF Inv
  <2>3. d[i] + FramesIn(a) <= d[L]
    <3>1. \A x, y \in 1 .. L : x < y => (m.cs[x].t = m.cs[y].t => d[x] + FramesIn(m.cs[y]) <= d[y])
      BY <1>2, StackFacts
    <3> QED
      BY <1>2, <1>5, <2>1, <3>1
  <2>4. FramesIn(a) \in Nat /\ FramesIn(a) >= 1
    <3>1. CASE a.k = "cfun"
      BY <3>1 DEF FramesIn
    <3>2. CASE a.k = "exec"
      <4>1. a.n \in Nat \ {0}
        BY <1>1, <3>2, TopFacts
      <4> QED
        BY <3>2, <4>1 DEF FramesIn
    <3> QED
      BY <3>1, <3>2
  <2>5. d[i] \in Nat
    BY <1>2, <2>1, StackFacts
  <2>6. d[i] < q
    BY <1>2, <1>3, <2>3, <2>4, <2>5
  <2>7. q \in DOMAIN T.ci
    <3>1. DOMAIN T.ci = 1 .. Len(T.ci)
      BY <1>2, FramesFacts
    <3> QED
      BY <1>3, <3>1
  <2> QED
    BY <1>2, <1>5, <2>2, <2>6, <2>7 DEF ActivationInv
<1> QED
  BY <1>3, <1>4, <1>5

(* luaD_poscall, on the stack alone: the values from first on come down.   *)
Back(s, func, first, want) ==
  LET n == (Len(s) + 1) - first
      given == IF want = MultRet \/ n < want THEN n ELSE want
  IN  SubSeq(s, 1, func - 1) \o SubSeq(s, first, first + given - 1) \o Nils(want - given)

LEMMA BackFacts ==
  ASSUME NEW s \in Seq(Value), NEW func \in Nat \ {0}, NEW first \in Nat \ {0},
         NEW want \in Result, func - 1 <= Len(s), first <= Len(s) + 1
  PROVE  Back(s, func, first, want) \in Seq(Value) /\ Keeps(s, Back(s, func, first, want), func - 1)
<1> DEFINE n == (Len(s) + 1) - first
           given == IF want = MultRet \/ n < want THEN n ELSE want
           x == SubSeq(s, first, first + given - 1)
           y == Nils(want - given)
           c == SubSeq(s, 1, func - 1)
<1>1. Len(s) \in Nat /\ n \in Nat /\ want \in Int /\ (want = MultRet \/ want \in Nat)
  BY LenProperties DEF Result, MultRet
<1>2. given \in Nat /\ given <= n
  BY <1>1
<1>3. x \in Seq(Value)
  <2>1. first + given - 1 \in Int /\ first + given - 1 <= Len(s)
    BY <1>1, <1>2
  <2> QED
    BY <2>1, Slice
<1>4. y \in Seq(Value)
  <2>1. want - given \in Int
    BY <1>1, <1>2
  <2> QED
    BY <2>1, NilsAre
<1>5. func - 1 \in 0 .. Len(s)
  BY <1>1
<1>6. c \o x \in Seq(Value) /\ Len(c \o x) = func - 1 + Len(x) /\ Keeps(s, c \o x, func - 1)
      /\ Len(x) \in Nat
  BY <1>3, <1>5, Upper
<1> HIDE DEF x, y, c, given
<1>7. /\ (c \o x) \o y \in Seq(Value) /\ Len((c \o x) \o y) = Len(c \o x) + Len(y)
      /\ Keeps(c \o x, (c \o x) \o y, Len(c \o x)) /\ Len(y) \in Nat
  BY <1>4, <1>6, ConcatKeeps
<1>8. Keeps(c \o x, (c \o x) \o y, func - 1)
  <2>1. func - 1 <= Len(c \o x) /\ Len(c \o x) \in Nat /\ Len((c \o x) \o y) \in Nat
    BY <1>5, <1>6, <1>7
  <2> QED
    BY <1>5, <1>7, <2>1, KeepsLess
<1>9. Keeps(s, (c \o x) \o y, func - 1)
  BY <1>6, <1>8, KeepsKeeps
<1> QED
  BY <1>7, <1>9 DEF Back, x, y, c, given

LEMMA PoscallFacts ==
  ASSUME NEW T \in Thread, FramesInv(T), Len(T.ci) > 1, NEW first \in Nat \ {0},
         first <= Len(T.stk) + 1
  PROVE  LET U == Poscall(T, first)
         IN  /\ U \in Thread /\ Keeps(T.stk, U.stk, Frame(T).func - 1)
             /\ U.ci = SubSeq(T.ci, 1, Len(T.ci) - 1) /\ U.base = T.ci[Len(T.ci) - 1].base
             /\ U.open = T.open /\ U.over = T.over /\ U.nC = T.nC /\ U.ef = T.ef
             /\ U.status = T.status /\ U.baseC = T.baseC
<1> DEFINE c == Frame(T)
           s == Back(T.stk, c.func, first, c.want)
           f == SubSeq(T.ci, 1, Len(T.ci) - 1)
           b == T.ci[Len(T.ci) - 1].base
           U == Poscall(T, first)
<1>1. /\ T.stk \in Seq(Value) /\ Len(T.stk) \in Nat /\ T.ci \in Seq(CallInfo)
      /\ Len(T.ci) \in Nat /\ c = T.ci[Len(T.ci)] /\ T.ci # <<>>
      /\ Len(T.ci) - 1 \in 1 .. Len(T.ci) /\ Len(T.ci) \in 1 .. Len(T.ci)
      /\ Len(T.stk) >= Low(c) - 1
  <2>1. T.ci # <<>>
    BY DEF FramesInv
  <2> QED
    BY <2>1, FramesFacts
<1>2. /\ c.func \in Nat \ {0} /\ c.want \in Result /\ c.func < Low(c) /\ Low(c) \in Nat
      /\ b \in Nat
  <2>1. 0 < c.func
    BY <1>1, FrameFacts
  <2>2. c.func \in Nat /\ c.want \in Result /\ c.func < Low(c) /\ Low(c) \in Nat /\ b \in Nat
    BY <1>1, FramesFacts
  <2> QED
    BY <2>1, <2>2
<1>3. s \in Seq(Value) /\ Keeps(T.stk, s, c.func - 1)
  <2>1. c.func - 1 <= Len(T.stk)
    BY <1>1, <1>2
  <2> QED
    BY <1>1, <1>2, <2>1, BackFacts
<1>4. Front(T.ci) = f /\ f \in Seq(CallInfo)
  <2>1. Len(T.ci) - 1 \in 0 .. Len(T.ci)
    BY <1>1
  <2>2. f \in Seq(CallInfo)
    BY <1>1, <2>1, Prefix
  <2> QED
    BY <1>1, <2>2, LastOf
<1>5. U = [T EXCEPT !.stk = s, !.ci = f, !.base = b]
  <2>1. Poscall(T, first) = [T EXCEPT !.stk = s, !.ci = Front(T.ci), !.base = b]
    BY DEF Poscall, Back, Slots, Top
  <2> HIDE DEF s, f, b
  <2> QED
    BY <1>4, <2>1
<1> HIDE DEF s, f, b, U
<1>6. /\ U \in Thread /\ U.stk = s /\ U.ci = f /\ U.base = b
      /\ U.open = T.open /\ U.over = T.over /\ U.nC = T.nC /\ U.ef = T.ef
      /\ U.status = T.status /\ U.baseC = T.baseC
  BY <1>2, <1>3, <1>4, <1>5 DEF Thread
<1> QED
  BY <1>3, <1>6 DEF U, f, b

LEMMA LeaveFacts ==
  ASSUME NEW m \in State, m.cs # <<>>
  PROVE  Leave(m) \in State /\ Leave(m).th = m.th /\ Leave(m).cs = SubSeq(m.cs, 1, Len(m.cs) - 1)
<1>1. m.cs \in Seq(Activation)
  BY DEF State
<1>2. Front(m.cs) = SubSeq(m.cs, 1, Len(m.cs) - 1) /\ Len(m.cs) \in Nat \ {0}
  BY <1>1, LastOf
<1>3. Front(m.cs) \in Seq(Activation)
  <2>1. Len(m.cs) - 1 \in 0 .. Len(m.cs)
    BY <1>2
  <2> QED
    BY <1>1, <1>2, <2>1, Prefix
<1> QED
  BY <1>2, <1>3 DEF Leave, State

(* The frame on the top may grow to x.                                     *)
LEMMA TopSet ==
  ASSUME NEW T \in Thread, FramesInv(T), NEW x \in Nat, Frame(T).lua => x > T.base
  PROVE  LET U == [T EXCEPT !.ci[Len(T.ci)].top = x]
         IN  /\ U \in Thread /\ Alike(T, U) /\ U.stk = T.stk /\ U.nC = T.nC
             /\ U.status = T.status /\ U.baseC = T.baseC
<1> DEFINE q == Len(T.ci)
           c == [T.ci[q] EXCEPT !.top = x]
           f == [T.ci EXCEPT ![q] = c]
           U == [T EXCEPT !.ci = f]
<1>1. /\ T.ci \in Seq(CallInfo) /\ q \in Nat \ {0} /\ DOMAIN T.ci = 1 .. q /\ q \in 1 .. q
      /\ T.base = T.ci[q].base /\ Frame(T) = T.ci[q]
  BY FramesFacts
<1>2. T.ci[q] \in CallInfo
  BY <1>1, ElementOfSeq
<1>3. /\ c \in CallInfo /\ c.func = T.ci[q].func /\ c.base = T.ci[q].base /\ c.lua = T.ci[q].lua
      /\ c.under = T.ci[q].under /\ c.captured = T.ci[q].captured /\ c.top = x
  BY <1>2 DEF CallInfo
<1> HIDE DEF c
<1>4. /\ f \in Seq(CallInfo) /\ Len(f) = q
      /\ \A i \in 1 .. q : f[i] = IF i = q THEN c ELSE T.ci[i]
  BY <1>1, <1>3, ExceptSeq
<1> HIDE DEF f
<1>5. /\ U \in Thread /\ U.ci = f /\ U.stk = T.stk /\ U.nC = T.nC /\ U.open = T.open
      /\ U.status = T.status /\ U.baseC = T.baseC /\ U.base = T.base /\ U.over = T.over
  BY <1>4 DEF Thread
<1>6. [T EXCEPT !.ci[Len(T.ci)].top = x] = U
  BY DEF f, c
<1> HIDE DEF U, q
<1>7. \A i \in 1 .. q : /\ U.ci[i].func = T.ci[i].func /\ U.ci[i].base = T.ci[i].base
                        /\ U.ci[i].lua = T.ci[i].lua /\ U.ci[i].under = T.ci[i].under
                        /\ U.ci[i].captured = T.ci[i].captured
                        /\ U.ci[i].lua => U.ci[i].top > U.ci[i].base
  <2> SUFFICES ASSUME NEW i \in 1 .. q
               PROVE  /\ U.ci[i].func = T.ci[i].func /\ U.ci[i].base = T.ci[i].base
                      /\ U.ci[i].lua = T.ci[i].lua /\ U.ci[i].under = T.ci[i].under
                      /\ U.ci[i].captured = T.ci[i].captured
                      /\ U.ci[i].lua => U.ci[i].top > U.ci[i].base
    OBVIOUS
  <2>1. T.ci[i].lua => T.ci[i].top > T.ci[i].base
    BY FrameFacts DEF q
  <2>2. CASE i # q
    BY <1>4, <1>5, <2>1, <2>2
  <2>3. CASE i = q
    BY <1>1, <1>3, <1>4, <1>5, <2>3
  <2> QED
    BY <2>2, <2>3
<1>8. Alike(T, U)
  <2>1. Len(T.ci) <= SizeCI(T) /\ T.open = UNION {T.ci[i].captured : i \in 1 .. q}
    BY <1>1 DEF FramesInv
  <2>2. U.open = UNION {U.ci[i].captured : i \in 1 .. q}
    BY <1>5, <1>7, <2>1
  <2>3. Len(U.ci) <= SizeCI(U) /\ Len(U.ci) = q
    BY <1>4, <1>5, <2>1 DEF SizeCI, q
  <2>4. \A i \in 1 .. q :
          U.ci[i].captured \subseteq (IF U.ci[i].lua THEN {U.ci[i].base} ELSE {})
    BY <1>7, FrameFacts DEF q
  <2> QED
    BY <1>5, <1>7, <2>2, <2>3, <2>4 DEF Alike, q
<1> QED
  BY <1>5, <1>6, <1>8

LEMMA CheckFacts ==
  ASSUME NEW T \in Thread, FramesInv(T)
  PROVE  LET U == CheckStack(T, 0)
         IN  /\ U \in Thread /\ Alike(T, U) /\ U.stk = T.stk /\ U.nC = T.nC
             /\ U.status = T.status /\ U.baseC = T.baseC
<1> DEFINE q == Len(T.ci)
           n == Len(T.stk) + 1
           x == IF T.ci[q].top < n + 0 THEN n + 0 ELSE T.ci[q].top
<1>1. /\ q \in Nat \ {0} /\ q \in 1 .. q /\ T.base = T.ci[q].base /\ T.ci[q].top \in Nat
      /\ Frame(T) = T.ci[q]
      /\ T.base \in Nat /\ T.base <= Low(T.ci[q]) /\ Len(T.stk) >= Low(T.ci[q]) - 1
      /\ Low(T.ci[q]) \in Nat /\ Len(T.stk) \in Nat
  BY FramesFacts
<1>2. CheckStack(T, 0) = [T EXCEPT !.ci[Len(T.ci)].top = x]
  BY DEF CheckStack, Top
<1>3. x \in Nat /\ x >= T.ci[q].top /\ x >= n
  BY <1>1
<1>4. Frame(T).lua => x > T.base
  <2>1. T.ci[q].lua => T.ci[q].top > T.base
    BY <1>1, FrameFacts
  <2> QED
    BY <1>1, <1>3, <2>1
<1> HIDE DEF x
<1>5. LET U == [T EXCEPT !.ci[Len(T.ci)].top = x]
      IN  /\ U \in Thread /\ Alike(T, U) /\ U.stk = T.stk /\ U.nC = T.nC
          /\ U.status = T.status /\ U.baseC = T.baseC
  BY <1>3, <1>4, TopSet
<1> QED
  BY <1>2, <1>5

(* L->top = L->ci->top, in a Lua frame.                                    *)
LEMMA ToFrameTopFacts ==
  ASSUME NEW T \in Thread, FramesInv(T), Frame(T).lua
  PROVE  \E s \in Seq(Value) : /\ ToFrameTop(T) = [T EXCEPT !.stk = s]
                               /\ Keeps(T.stk, s, Low(Frame(T)) - 1)
<1> DEFINE b == T.base
           x == Frame(T).top
           s1 == Cut(T.stk, b + 1)
           s2 == Cut(s1, x)
           T1 == [T EXCEPT !.stk = s1]
<1>1. /\ T.stk \in Seq(Value) /\ Len(T.stk) \in Nat /\ b \in Nat /\ x \in Nat
      /\ Len(T.ci) \in 1 .. Len(T.ci) /\ Frame(T) = T.ci[Len(T.ci)] /\ b = Frame(T).base
      /\ Len(T.stk) >= Low(Frame(T)) - 1
  BY FramesFacts
<1>2. x > b /\ Low(Frame(T)) = b + 1
  BY <1>1, FrameFacts
<1> HIDE DEF b, x
<1>3. s1 \in Seq(Value) /\ Len(s1) = b /\ Keeps(T.stk, s1, b)
  <2>1. b + 1 \in Nat \ {0} /\ b \in Int /\ b <= Len(T.stk) /\ b < b + 1
    BY <1>1, <1>2
  <2>2. Len(s1) = (b + 1) - 1 /\ s1 \in Seq(Value) /\ Keeps(T.stk, s1, b)
    BY <1>1, <2>1, CutFacts
  <2> QED
    BY <1>1, <2>2
<1>4. s2 \in Seq(Value) /\ Keeps(s1, s2, b)
  <2>1. x \in Nat \ {0} /\ b \in Int /\ b <= Len(s1) /\ b < x
    BY <1>1, <1>2, <1>3
  <2> QED
    BY <1>3, <2>1, CutFacts
<1>5. CutTo(T, b + 1) = T1 /\ T1.stk = s1
  <2>1. T1.stk = s1
    BY DEF Thread
  <2> QED
    BY <2>1, CutIs
<1>6. ToFrameTop(T) = [T EXCEPT !.stk = s2]
  <2>1. CutTo(T1, x) = [T1 EXCEPT !.stk = s2]
    BY <1>5, CutIs
  <2>2. [T1 EXCEPT !.stk = s2] = [T EXCEPT !.stk = s2]
    BY DEF Thread
  <2> QED
    BY <1>5, <2>1, <2>2 DEF ToFrameTop, b, x
<1>7. Keeps(T.stk, s2, Low(Frame(T)) - 1)
  <2>1. Keeps(T.stk, s2, b)
    BY <1>3, <1>4, KeepsKeeps
  <2>2. Low(Frame(T)) - 1 = b
    BY <1>1, <1>2
  <2> QED
    BY <2>1, <2>2
<1> QED
  BY <1>4, <1>6, <1>7

LEMMA ToFrameTopGood ==
  ASSUME NEW m, Sound(m), Last(m.cs).k = "exec", NEW t, t = Last(m.cs).t,
         Running(m).nC < ErrCCalls
  PROVE  Good(Update(m, t, ToFrameTop(Running(m))))
<1> DEFINE T == Running(m)
           p == Low(Frame(T))
           r == Update(m, t, ToFrameTop(T))
<1>1. T \in Thread /\ FramesInv(T) /\ Frame(T).lua
  BY SoundFacts
<1> HIDE DEF T
<1>2. PICK s \in Seq(Value) : ToFrameTop(T) = [T EXCEPT !.stk = s] /\ Keeps(T.stk, s, p - 1)
  BY <1>1, ToFrameTopFacts
<1>3. AboveAll(m, p) /\ Begun(m)
  BY RestAbove DEF T
<1>4. r = Update(m, Last(m.cs).t, [T EXCEPT !.stk = s])
  BY <1>2
<1> HIDE DEF r, p
<1>5. Sound(r) /\ r.cs = m.cs /\ Running(r).nC = T.nC
  BY <1>2, <1>3, <1>4, SoundStack DEF T
<1>6. Good(r)
  BY <1>5, GoodTop DEF T
<1> QED
  BY <1>6 DEF r, T

(* adjustresults, which may raise the top of the frame.                    *)
LEMMA AdjustSound ==
  ASSUME NEW m, Sound(m), Last(m.cs).k \in {"jni", "cfun"}, NEW t, t = Last(m.cs).t,
         NEW want \in Result
  PROVE  LET r == Update(m, t, AdjustResults(Running(m), want))
         IN  Sound(r) /\ r.cs = m.cs /\ Running(r).nC = Running(m).nC
<1> DEFINE T == Running(m)
           U == AdjustResults(T, want)
           p == Low(Frame(T))
<1>1. /\ T \in Thread /\ FramesInv(T) /\ p \in Nat \ {0} /\ Len(T.stk) >= p - 1
      /\ Len(T.stk) \in Nat /\ m \in State /\ t \in Threads /\ T = m.th[t]
  BY SoundFacts
<1> HIDE DEF T
<1>2. AboveAll(m, p) /\ Begun(m)
  BY RestAbove DEF T
<1> HIDE DEF p
<1>3. CASE want = MultRet
  <2>1. U = CheckStack(T, 0)
    BY <1>3 DEF AdjustResults
  <2>2. /\ U \in Thread /\ Alike(T, U) /\ U.stk = T.stk /\ U.nC = T.nC
        /\ U.status = T.status /\ U.baseC = T.baseC
    BY <1>1, <2>1, CheckFacts
  <2>3. Keeps(T.stk, U.stk, p - 1)
    BY <1>1, <2>2 DEF Keeps
  <2> HIDE DEF U
  <2>4. LET r == Update(m, Last(m.cs).t, U) IN Sound(r) /\ r.cs = m.cs /\ Running(r) = U
    BY <1>2, <2>2, <2>3, SoundWritten DEF T
  <2> QED
    BY <2>2, <2>4 DEF U, T
<1>4. CASE want # MultRet
  <2>1. U = T
    BY <1>4 DEF AdjustResults
  <2>2. Update(m, t, T) = m
    BY <1>1 DEF Update, State
  <2> QED
    BY <2>1, <2>2 DEF T
<1> QED
  BY <1>3, <1>4

(* A protected call is over, its caller goes on.                           *)
LEMMA AnsweredGood ==
  ASSUME NEW m, Sound(m), Last(m.cs).k \in {"jni", "cfun"},
         Last(m.cs).k = "cfun" => Last(m.cs).f # "wrapped",
         NEW how \in {"ok", "failed"}, Running(m).nC < ErrCCalls
  PROVE  Good(Answer(m, how))
<1>1. PICK d, e \in [DOMAIN m.cs -> Nat] : Inv(m, d, e)
  BY DEF Sound
<1>2. Running(m).nC = e[Len(m.cs)]
  BY <1>1, RunningFacts
<1> QED
  BY <1>1, <1>2, Answered DEF Sound

LEMMA CallFloor ==
  ASSUME NEW m, Sound(m), Last(m.cs).k = "call"
  PROVE  /\ AboveAll(m, Last(m.cs).func) /\ Last(m.cs).func <= Len(Running(m).stk) + 1
         /\ Last(m.cs).pc = "enter" => Last(m.cs).func <= Len(Running(m).stk)
<1>1. PICK d, e \in [DOMAIN m.cs -> Nat] : Inv(m, d, e)
  BY DEF Sound
<1>2. AboveAll(m, Last(m.cs).func)
  BY <1>1, CallAboveAll
<1>3. Len(m.cs) \in DOMAIN m.cs /\ Last(m.cs) = m.cs[Len(m.cs)]
  BY <1>1, RunningFacts
<1>4. ActivationInv(m, d, e, Len(m.cs))
  BY <1>1, <1>3 DEF Inv
<1> QED
  BY <1>2, <1>3, <1>4 DEF ActivationInv, Owns, Floor, Running

(* The activation on the top is gone: a call, or another without frames.   *)
PoppedWith(m, t, U) == Update(Leave(m), t, U)

LEMMA PoppedFacts ==
  ASSUME NEW m, Sound(m), NEW t, t = Last(m.cs).t, Last(m.cs).k \in {"call", "pcall", "errormsg"},
         NEW U \in Thread, U.ci = Running(m).ci, U.base = Running(m).base,
         U.over = Running(m).over, U.open = Running(m).open, U.stk = Running(m).stk,
         U.nC = Running(m).nC - Adds(Last(m.cs)), U.status = Running(m).status,
         U.baseC = Running(m).baseC,
         NEW p, AboveAll(m, p), p <= Len(Running(m).stk) + 1
  PROVE  LET r == PoppedWith(m, t, U)
         IN  /\ Sound(r) /\ Begun(r) /\ AboveAll(r, p)
             /\ Last(r.cs) = m.cs[Len(m.cs) - 1] /\ Running(r) = U /\ Len(r.cs) = Len(m.cs) - 1
<1> DEFINE T == Running(m)
           a == Last(m.cs)
           L == Len(m.cs)
           r == PoppedWith(m, t, U)
           q == Len(T.ci)
<1>1. /\ m \in State /\ m.cs # <<>> /\ L \in Nat \ {0} /\ t \in Threads /\ DOMAIN m.cs = 1 .. L
      /\ T \in Thread /\ FramesInv(T) /\ T.stk \in Seq(Value) /\ Len(T.stk) \in Nat
      /\ Frame(T) = T.ci[q] /\ q \in Nat \ {0}
  BY SoundFacts
<1> HIDE DEF T
<1>2. /\ Leave(m) \in State /\ Leave(m).th = m.th /\ Leave(m).cs = SubSeq(m.cs, 1, L - 1)
  BY <1>1, LeaveFacts
<1>3. r.cs = SubSeq(m.cs, 1, L - 1) /\ r.th = [m.th EXCEPT ![t] = U] /\ r \in State
  BY <1>1, <1>2 DEF Update, State, PoppedWith
<1> HIDE DEF r
<1>4. q - FramesIn(a) = q
  BY <1>1 DEF FramesIn
<1>5. U.ci = SubSeq(T.ci, 1, q) /\ U.base = T.ci[q].base
  <2>1. T.ci \in Seq(CallInfo)
    BY <1>1, FramesFacts
  <2> QED
    BY <1>1, <2>1, FramesFacts, SubSeqFull DEF T
<1>6. U.open = UNION {T.ci[i].captured : i \in 1 .. q}
  <2>1. T.open = UNION {T.ci[i].captured : i \in DOMAIN T.ci} /\ DOMAIN T.ci = 1 .. q
    BY <1>1, FramesFacts DEF FramesInv
  <2> QED
    BY <2>1 DEF T
<1>7. p \in Nat /\ Low(T.ci[q]) <= p
  BY <1>1 DEF AboveAll, T
<1>8. Keeps(T.stk, U.stk, p - 1)
  BY <1>1, <1>7 DEF Keeps, T
<1>9. \A i \in 1 .. L - 1 : Owns(m.cs[i]) /\ m.cs[i].t = a.t => Floor(m.cs[i]) <= p
  BY <1>1 DEF AboveAll
<1>10. Pops(m, r, p, U)
  BY <1>3, <1>4, <1>5, <1>6, <1>7, <1>8, <1>9 DEF Pops, T
<1> QED
  BY <1>10, SoundPop DEF r

(* The end of luaD_call.                                                   *)
LEMMA FinishCallGood ==
  ASSUME NEW m, Sound(m), Last(m.cs).k = "call", Last(m.cs).pc = "in",
         NEW t, t = Last(m.cs).t, Running(m).nC <= ErrCCalls
  PROVE  Good(FinishCall(m, t))
<1> DEFINE T0 == Running(m)
           T == [m.th[t] EXCEPT !.nC = @ - 1]
           want == Last(m.cs).want
           p == Last(m.cs).func
           L == Len(m.cs)
           m1 == Leave(m)
           a == Last(m1.cs)
           r == PoppedWith(m, t, T)
<1>1. /\ m \in State /\ m.cs # <<>> /\ L \in Nat \ {0} /\ t \in Threads /\ L > 1
      /\ T0 = m.th[t] /\ T0 \in Thread /\ FramesInv(T0) /\ T0.nC \in Nat
      /\ Above(m.cs[L - 1], Last(m.cs)) /\ want \in Result /\ m.cs[L - 1] \in Activation
      /\ Last(m.cs) \in Activation
  BY SoundFacts
<1>2. /\ m1 \in State /\ m1.cs = SubSeq(m.cs, 1, L - 1) /\ m1.th = m.th
  BY <1>1, LeaveFacts
<1>3. /\ T \in Thread /\ T.ci = T0.ci /\ T.base = T0.base /\ T.over = T0.over
      /\ T.open = T0.open /\ T.stk = T0.stk /\ T.status = T0.status /\ T.baseC = T0.baseC
      /\ T.nC = T0.nC - 1
  <2>1. T0.nC - 1 \in Int
    BY <1>1
  <2>2. T = [T0 EXCEPT !.nC = T0.nC - 1]
    BY <1>1
  <2> HIDE DEF T, T0
  <2> QED
    BY <1>1, <2>1, <2>2 DEF Thread
<1>4. Adds(Last(m.cs)) = 1
  BY DEF Adds, Nested
<1>5. AboveAll(m, p) /\ p <= Len(T0.stk) + 1
  BY CallFloor
<1> HIDE DEF T, T0, want, p
<1>6. /\ Sound(r) /\ Begun(r) /\ AboveAll(r, p) /\ Last(r.cs) = m.cs[L - 1] /\ Running(r) = T
      /\ Len(r.cs) = L - 1
  BY <1>3, <1>4, <1>5, PoppedFacts DEF T0
<1>7. r = Update(m1, t, T) /\ r.cs = m1.cs /\ a = Last(r.cs)
  BY DEF PoppedWith, Update
<1>8. T.nC < ErrCCalls
  BY <1>1, <1>3, LimitsOrdered DEF T0
<1>9. a.t = t /\ (a.k \in {"pcall", "errormsg", "exec"} \/ (a.k = "cfun" /\ a.f = "C"))
  BY <1>1, <1>6, <1>7 DEF Above
<1>10. \A U : Update(r, t, U) = Update(m1, t, U)
  BY <1>1, <1>2, <1>7, UpdateTwice
<1> HIDE DEF r
<1>11. CASE a.k = "exec"
  <2>1. FinishCall(m, t) = Update(m1, t, ToFrameTop(T))
    BY <1>11 DEF FinishCall, T
  <2>2. Good(Update(r, t, ToFrameTop(T)))
    BY <1>6, <1>7, <1>8, <1>9, <1>11, ToFrameTopGood
  <2> QED
    BY <1>10, <2>1, <2>2
<1>12. CASE a.k = "cfun"
  <2>1. FinishCall(m, t) = Update(r, t, AdjustResults(T, want))
    BY <1>10, <1>12 DEF FinishCall, T, want
  <2>2. LET u == Update(r, t, AdjustResults(T, want))
        IN  Sound(u) /\ u.cs = r.cs /\ Running(u).nC = T.nC
    BY <1>1, <1>6, <1>7, <1>9, <1>12, AdjustSound DEF want
  <2> QED
    BY <1>7, <1>8, <1>9, <1>12, <2>1, <2>2, GoodTop
<1>13. CASE a.k = "pcall"
  <2> DEFINE V == [T EXCEPT !.ef = a.ef]
             r2 == PoppedWith(r, t, V)
             b == Last(r2.cs)
             u == Update(r2, t, AdjustResults(V, want))
  <2>1. /\ r \in State /\ r.cs # <<>> /\ Len(r.cs) > 1 /\ a \in Activation
        /\ Above(r.cs[Len(r.cs) - 1], a)
    BY <1>6, <1>7, <1>13, SoundFacts
  <2>2. a.ef \in Nat /\ Adds(a) = 0
    BY <1>13, <2>1, ActivationFacts DEF Adds, Nested
  <2>3. /\ V \in Thread /\ V.ci = T.ci /\ V.base = T.base /\ V.over = T.over
        /\ V.open = T.open /\ V.stk = T.stk /\ V.status = T.status /\ V.baseC = T.baseC
        /\ V.nC = T.nC
    BY <1>3, <2>2 DEF Thread
  <2>4. V.nC = T.nC - Adds(a)
    BY <1>1, <1>3, <2>2, <2>3
  <2>5. FinishCall(m, t) = Answer(Update(Leave(m1), t, AdjustResults(V, want)), "ok")
    BY <1>13 DEF FinishCall, T, want
  <2> HIDE DEF V
  <2>6. /\ Sound(r2) /\ Last(r2.cs) = r.cs[Len(r.cs) - 1] /\ Running(r2) = V
    <3>1. /\ Last(r.cs) = a /\ Running(r) = T /\ Sound(r) /\ AboveAll(r, p)
          /\ a.k = "pcall" /\ t = a.t /\ p <= Len(T.stk) + 1
      BY <1>3, <1>5, <1>6, <1>7, <1>9, <1>13
    <3> HIDE DEF a, r2
    <3>2. Sound(PoppedWith(r, t, V))
          /\ Last(PoppedWith(r, t, V).cs) = r.cs[Len(r.cs) - 1] /\ Running(PoppedWith(r, t, V)) = V
      BY <2>3, <2>4, <3>1, PoppedFacts
    <3> QED
      BY <3>2 DEF r2
  <2>7. u = Update(Leave(m1), t, AdjustResults(V, want))
    <3>1. Leave(r) = [Leave(m1) EXCEPT !.th[t] = T]
      BY <1>7 DEF Leave, Update
    <3>2. Leave(m1) \in State
      <4>1. m1.cs # <<>>
        BY <1>7, <2>1
      <4> QED
        BY <1>2, <4>1, LeaveFacts
    <3>3. Update(Update(Update(Leave(m1), t, T), t, V), t, AdjustResults(V, want))
          = Update(Leave(m1), t, AdjustResults(V, want))
      <4>1. Update(Leave(m1), t, T) \in State
        BY <1>1, <1>3, <3>2, Updated
      <4> QED
        BY <1>1, <3>2, <4>1, UpdateTwice
    <3> QED
      BY <3>1, <3>3 DEF PoppedWith, Update
  <2>8. b.k = "jni" \/ (b.k = "cfun" /\ b.f # "wrapped")
    BY <1>13, <2>1, <2>6 DEF Above
  <2>9. b.t = t
    BY <1>9, <2>1, <2>6, <1>13 DEF Above
  <2>10. Sound(u) /\ u.cs = r2.cs /\ Running(u).nC = V.nC
    BY <1>1, <2>6, <2>8, <2>9, AdjustSound DEF want
  <2> HIDE DEF u
  <2>11. Good(Answer(u, "ok"))
    BY <1>8, <2>3, <2>8, <2>10, AnsweredGood
  <2> QED
    BY <2>5, <2>7, <2>11
<1>14. CASE a.k = "errormsg"
  <2>1. FinishCall(m, t) = Throw(r, Last(T.stk))
    BY <1>7, <1>14 DEF FinishCall, T
  <2>2. T.stk \in Seq(Value) /\ T.stk # <<>>
    <3>1. /\ Len(T0.ci) \in 1 .. Len(T0.ci) /\ Len(T0.stk) >= Low(T0.ci[Len(T0.ci)]) - 1
          /\ T0.stk \in Seq(Value) /\ T0.ci[Len(T0.ci)].base \in Nat
          /\ T0.ci[Len(T0.ci)].func \in Nat
          /\ Low(T0.ci[Len(T0.ci)]) \in Nat /\ Len(T0.stk) \in Nat
          /\ T0.ci[Len(T0.ci)].base <= Low(T0.ci[Len(T0.ci)])
      BY <1>1, FramesFacts
    <3>2. 0 < T0.ci[Len(T0.ci)].func /\ T0.ci[Len(T0.ci)].func < T0.ci[Len(T0.ci)].base
      BY <1>1, <3>1, FrameFacts
    <3>3. Len(T0.stk) > 0
      BY <3>1, <3>2
    <3> QED
      BY <1>3, <3>1, <3>3
  <2>3. Last(T.stk) \in Value
    BY <2>2, LastOf
  <2> QED
    BY <1>6, <1>7, <1>8, <1>14, <2>1, <2>3, ThrowGood
<1> QED
  BY <1>9, <1>11, <1>12, <1>13, <1>14

(* lua_resume returns without an error: the coroutine K is at rest.        *)
Resumed(m, e, i, K, m1) ==
  /\ i \in 2 .. Len(m.cs) /\ m.cs[i].k = "resume" /\ e[Len(m.cs)] <= ErrCCalls
  /\ K \in Thread /\ FramesInv(K) /\ K.status # "error"
  /\ (K.status = "ok" /\ Len(K.ci) = 1) \/ AtRest(K, NoOne)
  /\ m1 \in State /\ m1.cs = SubSeq(m.cs, 1, i - 1) /\ m1.th = [m.th EXCEPT !["co"] = K]

LEMMA AnswersBack ==
  ASSUME NEW m, NEW d, NEW e, Inv(m, d, e), NEW i, NEW K, NEW m1, Resumed(m, e, i, K, m1)
  PROVE  Good(Answer(m1, "ok"))
<1> USE DEF Resumed
<1> DEFINE n == i - 1
           s == SubSeq(m.cs, 1, n)
           b == [m.cs[n] EXCEPT !.pc = "ok"]
           r == [m1 EXCEPT !.cs[n] = b]
<1>1. m.cs \in Seq(Activation) /\ StackInv(m.cs, d, e) /\ Len(m.cs) \in Nat
  BY RunningFacts DEF Inv
<1>2. /\ i \in 1 .. Len(m.cs) /\ n \in 1 .. Len(m.cs) /\ n \in 0 .. Len(m.cs) /\ n \in 1 .. n
  BY <1>1
<1>3. m.cs[n] \in Activation /\ m.cs[n].k = "cfun" /\ m.cs[n].f = "wrapped"
  <2>1. Above(m.cs[n], m.cs[i]) /\ m.cs[n] \in Activation
    BY <1>1, <1>2, StackFacts
  <2> QED
    BY <2>1 DEF Above
<1>4. b \in Activation /\ b.k = "cfun" /\ b.f = "wrapped" /\ b.pc = "ok"
  BY <1>3, PcSet
<1>5. s \in Seq(Activation) /\ Len(s) = n /\ DOMAIN s = 1 .. n /\ s[n] = m.cs[n]
  BY <1>1, <1>2, Prefix
<1>6. m1.cs = s
  OBVIOUS
<1> HIDE DEF s, b
<1>7. Answer(m1, "ok") = r
  <2>1. Len(m1.cs) = n /\ m1.cs[n] = m.cs[n]
    BY <1>5, <1>6
  <2> QED
    BY <2>1 DEF Answer, b
<1>8. r \in State /\ r.th = m1.th /\ r.cs = [s EXCEPT ![n] = b]
  <2>1. [s EXCEPT ![n] = b] \in Seq(Activation)
    BY <1>2, <1>4, <1>5, ExceptSeq
  <2>2. r.cs = [s EXCEPT ![n] = b] /\ r.th = m1.th
    BY <1>6 DEF State
  <2>3. r = [m1 EXCEPT !.cs = [s EXCEPT ![n] = b]]
    BY <1>6
  <2> QED
    BY <2>1, <2>2, <2>3 DEF State
<1>9. AtRest(K, b)
  <2>1. CASE AtRest(K, NoOne)
    BY <2>1, QuietAnswers
  <2>2. CASE K.status = "ok" /\ Len(K.ci) = 1
    BY <1>4, <2>2 DEF AtRest
  <2> QED
    BY <2>1, <2>2
<1> HIDE DEF r
<1>10. BackWith(m, e, r, i, b, K, "ok")
  <2>1. r.cs = [SubSeq(m.cs, 1, i - 1) EXCEPT ![i - 1] = b]
    BY <1>8 DEF s
  <2> QED
    BY <1>8, <1>9, <2>1 DEF BackWith, b
<1> QED
  BY <1>7, <1>10, BackToMain

LEMMA FinishResumeGood ==
  ASSUME NEW m, Sound(m), Last(m.cs).k = "resume", Running(m).nC <= ErrCCalls
  PROVE  Good(FinishResume(m))
<1> DEFINE L == Len(m.cs)
           C == m.th["co"]
           K == [C EXCEPT !.nC = C.nC - 1]
           m0 == [m EXCEPT !.th["co"].nC = @ - 1]
           m1 == Leave(m0)
<1>1. PICK d, e \in [DOMAIN m.cs -> Nat] : Inv(m, d, e)
  BY DEF Sound
<1>2. /\ m \in State /\ L \in Nat \ {0} /\ L > 1 /\ Last(m.cs) = m.cs[L] /\ m.cs # <<>>
      /\ Last(m.cs) \in Activation /\ L \in DOMAIN m.cs
  BY SoundFacts
<1>3. Last(m.cs).t = "co"
  BY <1>2, ActivationFacts
<1>4. C \in Thread /\ FramesInv(C) /\ C = Running(m) /\ C.nC \in Nat
  BY <1>3, SoundFacts
<1>5. C.status = "ok"
  <2>1. Runs(m.cs)
    BY <1>2 DEF Runs
  <2> QED
    BY <1>1, <2>1 DEF Inv, CoroutineInv
<1>6. Len(C.ci) = 1 /\ e[L] = C.nC
  <2>1. Len(C.ci) = d[L] /\ e[L] = C.nC /\ DOMAIN m.cs = 1 .. L /\ m.cs \in Seq(Activation)
    BY <1>1, <1>4, RunningFacts
  <2>2. d[L] = FramesIn(m.cs[L])
    <3>1. L \in 2 .. L /\ StackInv(m.cs, d, e)
      BY <1>1, <1>2 DEF Inv
    <3> QED
      BY <1>2, <2>1, <3>1, StackStep
  <2> QED
    BY <1>2, <2>1, <2>2 DEF FramesIn
<1>7. /\ K \in Thread /\ K.ci = C.ci /\ K.base = C.base /\ K.over = C.over
      /\ K.open = C.open /\ K.stk = C.stk /\ K.status = C.status
  <2>1. C.nC - 1 \in Int
    BY <1>4
  <2> HIDE DEF C
  <2> QED
    BY <1>4, <2>1 DEF Thread
<1> HIDE DEF C, K
<1>8. FramesInv(K)
  BY <1>4, <1>7 DEF FramesInv, FrameInv, SizeCI, Frame
<1>9. m0 \in State /\ m0.cs = m.cs /\ m0.th = [m.th EXCEPT !["co"] = K]
  <2>1. "co" \in Threads
    BY DEF Threads
  <2>2. m0 = [m EXCEPT !.th = [m.th EXCEPT !["co"] = K]]
    BY <1>2, <2>1 DEF K, C, State
  <2> HIDE DEF m0
  <2> QED
    BY <1>2, <1>7, <2>1, <2>2 DEF State
<1>10. FinishResume(m) = Answer(m1, "ok")
  BY DEF FinishResume
<1> HIDE DEF m0
<1>11. m1 \in State /\ m1.cs = SubSeq(m.cs, 1, L - 1) /\ m1.th = m0.th
  BY <1>2, <1>9, LeaveFacts
<1> HIDE DEF m1
<1>12. Good(Answer(m1, "ok"))
  <2>1. L \in 2 .. Len(m.cs) /\ e[Len(m.cs)] <= ErrCCalls /\ K.status = "ok" /\ Len(K.ci) = 1
    BY <1>2, <1>4, <1>5, <1>6, <1>7
  <2> QED
    <3>1. /\ m1.th = [m.th EXCEPT !["co"] = K] /\ m1 \in State
          /\ m1.cs = SubSeq(m.cs, 1, L - 1) /\ m.cs[L].k = "resume" /\ K \in Thread
      BY <1>2, <1>7, <1>9, <1>11
    <3>2. Resumed(m, e, L, K, m1)
      BY <1>8, <2>1, <3>1 DEF Resumed
    <3> HIDE DEF L
    <3> QED
      BY <1>1, <3>2, AnswersBack
<1> QED
  BY <1>10, <1>12

(* The frame on the top of T is gone in U.                                 *)
Returned(T, U) ==
  LET q == Len(T.ci)
  IN  /\ U \in Thread /\ Keeps(T.stk, U.stk, Frame(T).func - 1)
      /\ U.ci = SubSeq(T.ci, 1, q - 1) /\ U.base = T.ci[q - 1].base /\ U.over = T.over
      /\ U.open = UNION {T.ci[i].captured : i \in 1 .. q - 1}
      /\ U.nC = T.nC /\ U.status = T.status /\ U.baseC = T.baseC

(* A function returns to the C function that ran it.                       *)
LEMMA FrameReturned ==
  ASSUME NEW m, Sound(m), NEW t, t = Last(m.cs).t,
         Last(m.cs).k = "cfun" \/ (Last(m.cs).k = "exec" /\ Last(m.cs).n = 1),
         NEW U, Returned(Running(m), U)
  PROVE  LET r == PoppedWith(m, t, U)
         IN  /\ Sound(r) /\ Begun(r) /\ AboveAll(r, Frame(Running(m)).func)
             /\ Last(r.cs) = m.cs[Len(m.cs) - 1] /\ Running(r) = U /\ Len(r.cs) = Len(m.cs) - 1
<1> DEFINE T == Running(m)
           a == Last(m.cs)
           L == Len(m.cs)
           r == PoppedWith(m, t, U)
           q == Len(T.ci)
           p == Frame(T).func
<1>1. /\ m \in State /\ m.cs # <<>> /\ L \in Nat \ {0} /\ t \in Threads /\ DOMAIN m.cs = 1 .. L
      /\ T.nC \in Nat /\ q \in Nat \ {0}
  BY SoundFacts
<1>2. /\ Low(T.ci[q - 1]) <= p /\ p \in Nat
      /\ \A i \in 1 .. L - 1 : Owns(m.cs[i]) /\ m.cs[i].t = a.t => Floor(m.cs[i]) <= p
  BY FuncAbove
<1> HIDE DEF T, p
<1>3. /\ Leave(m) \in State /\ Leave(m).th = m.th /\ Leave(m).cs = SubSeq(m.cs, 1, L - 1)
  BY <1>1, LeaveFacts
<1>4. U \in Thread
  BY DEF Returned
<1>5. r.cs = SubSeq(m.cs, 1, L - 1) /\ r.th = [m.th EXCEPT ![t] = U] /\ r \in State
  BY <1>1, <1>3, <1>4 DEF Update, State, PoppedWith
<1> HIDE DEF r
<1>6. q - FramesIn(a) = q - 1 /\ Adds(a) = 0
  BY DEF FramesIn, Adds, Nested
<1>7. U.nC = T.nC - Adds(a)
  BY <1>1, <1>6 DEF Returned, T
<1>8. Pops(m, r, p, U)
  <2>1. Returned(T, U)
    BY DEF T
  <2>2. a.k \in {"call", "pcall", "errormsg", "exec", "cfun"}
    OBVIOUS
  <2>3. /\ r.cs = SubSeq(m.cs, 1, L - 1) /\ r.th = [m.th EXCEPT ![a.t] = U] /\ r \in State
        /\ p \in Nat /\ Low(T.ci[q - 1]) <= p /\ Keeps(T.stk, U.stk, p - 1)
    BY <1>2, <1>5, <2>1 DEF Returned, p
  <2> QED
    BY <1>2, <1>6, <1>7, <2>1, <2>2, <2>3 DEF Pops, Returned, T
<1> QED
  BY <1>8, SoundPop DEF r, p, T

(* The caller of a function that returned goes on.                         *)
Onward(m, t, want) ==
  CASE Last(m.cs).k = "call" -> FinishCall(m, t)
    [] Last(m.cs).k = "exec" ->
         IF want = MultRet THEN m ELSE Update(m, t, ToFrameTop(m.th[t]))
    [] Last(m.cs).k = "resume" -> FinishResume(m)

LEMMA OnwardGood ==
  ASSUME NEW m, Sound(m), Begun(m), Last(m.cs).k \in {"call", "exec", "resume"},
         NEW t, t = Last(m.cs).t, Running(m).nC < ErrCCalls, NEW want
  PROVE  Good(Onward(m, t, want))
<1>1. Running(m).nC <= ErrCCalls
  <2>1. Running(m).nC \in Nat
    BY SoundFacts
  <2> QED
    BY <2>1, LimitsOrdered
<1>2. CASE Last(m.cs).k = "call"
  BY <1>1, <1>2, FinishCallGood DEF Onward, Begun
<1>3. CASE Last(m.cs).k = "resume"
  BY <1>1, <1>3, FinishResumeGood DEF Onward
<1>4. CASE Last(m.cs).k = "exec"
  <2>1. m.th[t] = Running(m)
    BY DEF Running
  <2>2. CASE want = MultRet
    BY <1>4, <2>2, GoodTop DEF Onward
  <2>3. CASE want # MultRet
    BY <1>4, <2>1, <2>3, ToFrameTopGood DEF Onward
  <2> QED
    BY <2>2, <2>3
<1> QED
  BY <1>2, <1>3, <1>4

LEMMA ReturnCGood ==
  ASSUME NEW m, Sound(m), Last(m.cs).k = "cfun", NEW t, t = Last(m.cs).t,
         NEW n \in Nat, n <= Len(Running(m).stk), Running(m).nC < ErrCCalls
  PROVE  Good(ReturnC(m, t, n))
<1> DEFINE T == Running(m)
           U == Poscall(T, Top(T) - n)
           want == Frame(T).want
           r == PoppedWith(m, t, U)
           q == Len(T.ci)
<1>1. /\ T \in Thread /\ FramesInv(T) /\ q \in Nat \ {0} /\ Len(T.stk) \in Nat /\ T = m.th[t]
      /\ ~Frame(T).lua /\ q > 1 /\ Frame(T) = T.ci[q] /\ Len(m.cs) > 1
      /\ Above(m.cs[Len(m.cs) - 1], Last(m.cs)) /\ m \in State /\ t \in Threads /\ m.cs # <<>>
  BY SoundFacts
<1> HIDE DEF T
<1>2. Returned(T, U)
  <2>1. Top(T) - n \in Nat \ {0} /\ Top(T) - n <= Len(T.stk) + 1
    BY <1>1 DEF Top, T
  <2>2. /\ U \in Thread /\ Keeps(T.stk, U.stk, Frame(T).func - 1)
        /\ U.ci = SubSeq(T.ci, 1, Len(T.ci) - 1) /\ U.base = T.ci[Len(T.ci) - 1].base
        /\ U.open = T.open /\ U.over = T.over /\ U.nC = T.nC
        /\ U.status = T.status /\ U.baseC = T.baseC
    <3> DEFINE first == Top(T) - n
               V == Poscall(T, first)
    <3>1. first \in Nat \ {0} /\ first <= Len(T.stk) + 1 /\ U = V
      BY <2>1
    <3> HIDE DEF first, U
    <3>2. /\ V \in Thread /\ Keeps(T.stk, V.stk, Frame(T).func - 1)
          /\ V.ci = SubSeq(T.ci, 1, Len(T.ci) - 1) /\ V.base = T.ci[Len(T.ci) - 1].base
          /\ V.open = T.open /\ V.over = T.over /\ V.nC = T.nC
          /\ V.status = T.status /\ V.baseC = T.baseC
      BY <1>1, <3>1, PoscallFacts
    <3> HIDE DEF V
    <3> QED
      BY <3>1, <3>2
  <2>3. T.open = UNION {T.ci[i].captured : i \in 1 .. q - 1}
    <3>1. T.open = UNION {T.ci[i].captured : i \in 1 .. q}
      <4>1. DOMAIN T.ci = 1 .. q
        BY <1>1, FramesFacts
      <4> QED
        BY <1>1, <4>1 DEF FramesInv
    <3>2. q \in 1 .. q /\ T.ci[q].captured = {}
      <4>1. q \in 1 .. q
        BY <1>1
      <4>2. T.ci[q].captured \subseteq (IF T.ci[q].lua THEN {T.ci[q].base} ELSE {})
        BY <1>1, <4>1, FrameFacts
      <4>3. ~T.ci[q].lua
        BY <1>1
      <4> HIDE DEF q
      <4> QED
        BY <4>1, <4>2, <4>3
    <3>3. 1 .. q = (1 .. q - 1) \cup {q}
      BY <1>1
    <3> QED
      BY <3>1, <3>2, <3>3
  <2> QED
    BY <2>2, <2>3 DEF Returned
<1> HIDE DEF U
<1>3. /\ Sound(r) /\ Begun(r) /\ Last(r.cs) = m.cs[Len(m.cs) - 1] /\ Running(r) = U
  BY <1>2, FrameReturned DEF T
<1>4. Last(r.cs).t = t /\ Last(r.cs).k \in {"call", "exec"}
  BY <1>1, <1>3 DEF Above
<1>5. U.nC < ErrCCalls
  BY <1>2 DEF Returned, T
<1>6. Good(Onward(r, t, want))
  BY <1>3, <1>4, <1>5, OnwardGood
<1>7. r = Update(Leave(m), t, U) /\ r.th[t] = U /\ Last(Leave(m).cs) = Last(r.cs)
  <2>1. U \in Thread /\ Leave(m) \in State
    BY <1>1, <1>2, LeaveFacts DEF Returned
  <2> QED
    BY <1>1, <2>1, Updated DEF PoppedWith
<1>8. \A V : Update(r, t, V) = Update(Leave(m), t, V)
  BY <1>1, <1>7, LeaveFacts, UpdateTwice
<1>9. ReturnC(m, t, n) = CASE Last(r.cs).k = "call" -> FinishCall(r, t)
                           [] Last(r.cs).k = "exec" ->
             Update(Leave(m), t, IF want = MultRet THEN U ELSE ToFrameTop(U))
  BY <1>1, <1>7 DEF ReturnC, U
<1> HIDE DEF r, want
<1>10. ReturnC(m, t, n) = Onward(r, t, want)
  <2>1. CASE Last(r.cs).k = "call"
    BY <1>9, <2>1 DEF Onward
  <2>2. CASE Last(r.cs).k = "exec" /\ want = MultRet
    BY <1>7, <1>9, <2>2 DEF Onward
  <2>3. CASE Last(r.cs).k = "exec" /\ want # MultRet
    BY <1>7, <1>8, <1>9, <2>3 DEF Onward
  <2> QED
    BY <1>4, <2>1, <2>2, <2>3
<1> QED
  BY <1>6, <1>10

(* luaV_execute on the top runs k frames now; those above q are new, and   *)
(* the stack below p is as it was.                                         *)
ExecWith(m, r, k, p, q, U) ==
  LET L == Len(m.cs)
      a == Last(m.cs)
      T == Running(m)
  IN  /\ a.k = "exec" /\ k \in Nat \ {0} /\ p \in Nat /\ q \in Nat
      /\ r = [Update(m, a.t, U) EXCEPT !.cs[L] = [a EXCEPT !.n = k]]
      /\ U \in Thread /\ FramesInv(U) /\ Keeps(T.stk, U.stk, p - 1)
      /\ U.nC = T.nC /\ U.status = T.status /\ U.baseC = T.baseC
      /\ Len(U.ci) = (Len(T.ci) - a.n) + k /\ q <= Len(U.ci) /\ q <= Len(T.ci)
      /\ Len(T.ci) - a.n <= q
      /\ \A j \in 1 .. Len(U.ci) :
           /\ j <= q => U.ci[j] = T.ci[j]
           /\ q < j => j > Len(T.ci) /\ p <= U.ci[j].func /\ U.ci[j].lua
      /\ \A i \in 1 .. L - 1 : Owns(m.cs[i]) /\ m.cs[i].t = a.t => Floor(m.cs[i]) <= p

LEMMA SoundExec ==
  ASSUME NEW m, Sound(m), NEW r, NEW k, NEW p, NEW q, NEW U, ExecWith(m, r, k, p, q, U)
  PROVE  /\ Sound(r) /\ Running(r) = U /\ Len(r.cs) = Len(m.cs)
         /\ Last(r.cs) = [Last(m.cs) EXCEPT !.n = k]
<1> DEFINE L == Len(m.cs)
           a == Last(m.cs)
           b == [a EXCEPT !.n = k]
           T == Running(m)
           s == [m.cs EXCEPT ![L] = b]
<1>1. PICK d, e \in [DOMAIN m.cs -> Nat] : Inv(m, d, e)
  BY DEF Sound
<1> DEFINE d1 == [d EXCEPT ![L] = d[L] - FramesIn(m.cs[L]) + FramesIn(b)]
           e1 == [e EXCEPT ![L] = e[L] - Adds(m.cs[L]) + Adds(b)]
<1>2. /\ m \in State /\ m.cs \in Seq(Activation) /\ L \in Nat \ {0} /\ DOMAIN m.cs = 1 .. L
      /\ a = m.cs[L] /\ a \in Activation /\ a.t \in Threads /\ T = m.th[a.t] /\ L > 1
      /\ a.k = "exec" /\ a.n \in Nat \ {0} /\ Begun(m) /\ a.n < Len(T.ci)
  BY SoundFacts DEF ExecWith, Begun
<1>3. /\ d \in [1 .. L -> Nat] /\ e \in [1 .. L -> Nat] /\ Len(T.ci) = d[L] /\ T.nC = e[L]
      /\ L \in 1 .. L
  BY <1>1, <1>2, RunningFacts
<1>0. L = Len(m.cs) /\ StackInv(m.cs, d, e) /\ L \in 2 .. L
  BY <1>1, <1>2 DEF Inv
<1> HIDE DEF L
<1>4. /\ k \in Nat \ {0} /\ U \in Thread /\ p \in Nat /\ q \in Nat
  BY DEF ExecWith
<1>5. /\ b \in Activation /\ b.k = "exec" /\ b.t = a.t /\ b.n = k
  BY <1>2, <1>4 DEF Activation
<1> HIDE DEF b, T
<1>6. s \in Seq(Activation) /\ Len(s) = L /\ \A i \in 1 .. L : s[i] = IF i = L THEN b ELSE m.cs[i]
  BY <1>2, <1>3, <1>5, ExceptSeq
<1>7. /\ r \in State /\ r.cs = s /\ r.th = [m.th EXCEPT ![a.t] = U]
  <2>1. r = [Update(m, a.t, U) EXCEPT !.cs[L] = b]
    BY <1>0 DEF ExecWith, b
  <2>2. Update(m, a.t, U) \in State /\ Update(m, a.t, U).cs = m.cs
    BY <1>2, <1>4, Updated
  <2>3. r.cs = s /\ r.th = Update(m, a.t, U).th
    BY <2>1, <2>2 DEF State
  <2>4. r = [Update(m, a.t, U) EXCEPT !.cs = s]
    BY <2>1, <2>2
  <2>5. r \in State
    BY <1>6, <2>2, <2>4 DEF State
  <2> QED
    BY <1>2, <2>3, <2>5 DEF Update, State
<1>8. StackInv(s, d1, e1)
  <2>1. b.k = m.cs[L].k /\ b.t = m.cs[L].t /\ b.n > 0
    BY <1>2, <1>4, <1>5
  <2> QED
    BY <1>0, <1>2, <1>5, <2>1, StackTop
<1>9. /\ FramesIn(m.cs[L]) = a.n /\ FramesIn(b) = k /\ Adds(m.cs[L]) = 0 /\ Adds(b) = 0
  BY <1>2, <1>5 DEF FramesIn, Adds, Nested
<1>10. /\ d1[L] = (d[L] - a.n) + k /\ e1[L] = e[L]
       /\ \A i \in 1 .. L - 1 : d1[i] = d[i] /\ e1[i] = e[i]
  BY <1>2, <1>3, <1>4, <1>9
<1> HIDE DEF s, d1, e1
<1>11. \A i \in 1 .. L - 1 : m.cs[i].t = a.t => d[i] <= q
  <2>1. Len(T.ci) - a.n <= q
    BY DEF ExecWith, T
  <2>2. d[L - 1] = d[L] - a.n /\ d[L] \in Nat /\ d[L - 1] \in Nat
    <3>1. d[L] = d[L - 1] + FramesIn(m.cs[L]) /\ d[L - 1] \in Nat
      <4>1. m.cs[L].k # "resume"
        BY <1>2
      <4> QED
        BY <1>0, <1>2, <4>1, StackStep
    <3> QED
      BY <1>2, <1>3, <1>9, <3>1
  <2>3. \A i \in 1 .. L - 1 : m.cs[i].t = a.t => d[i] <= d[L - 1]
    <3> SUFFICES ASSUME NEW i \in 1 .. L - 1, m.cs[i].t = a.t
                 PROVE  d[i] <= d[L - 1]
      OBVIOUS
    <3>1. i \in 1 .. L /\ L \in 1 .. L /\ i < L /\ m.cs[i].t = m.cs[L].t
      BY <1>2
    <3>2. d[i] + FramesIn(m.cs[L]) <= d[L] /\ d[i] \in Nat
      BY <1>0, <1>2, <3>1, StackFacts
    <3> QED
      BY <1>2, <1>9, <2>2, <3>2
  <2>4. d[L - 1] <= q
    BY <1>3, <2>1, <2>2
  <2>5. \A i \in 1 .. L - 1 : d[i] \in Nat
    BY <1>2, <1>3
  <2> QED
    BY <1>4, <2>2, <2>3, <2>4, <2>5
<1>12. L = (L - 1) + 1 /\ L - 1 \in 0 .. L /\ L - 1 < L
  BY <1>2
<1>13. OneMore(m, d, e, r, d1, e1, L - 1, p, q, b, U)
  <2>1. /\ L - 1 \in 0 .. Len(m.cs) /\ L - 1 < Len(m.cs)
        /\ r \in State /\ StackInv(r.cs, d1, e1) /\ Len(r.cs) = (L - 1) + 1
    BY <1>0, <1>6, <1>7, <1>8, <1>12
  <2>6. \A i \in 1 .. L - 1 : r.cs[i] = m.cs[i] /\ d1[i] = d[i] /\ e1[i] = e[i]
    BY <1>2, <1>6, <1>7, <1>10
  <2>7. b = r.cs[(L - 1) + 1] /\ b.t = Last(m.cs).t /\ b.k # "resume" /\ ~Owns(b)
    BY <1>2, <1>3, <1>5, <1>6, <1>7, <1>12 DEF Owns
  <2>2. /\ \A u \in Threads : u # a.t => r.th[u] = m.th[u]
        /\ U = r.th[a.t]
    BY <1>2, <1>7 DEF State
  <2>3. \A i \in 1 .. L - 1 : m.cs[i].t = a.t /\ Owns(m.cs[i]) => Floor(m.cs[i]) <= p
    BY <1>0 DEF ExecWith
  <2>4. /\ FramesInv(U) /\ U.status = T.status /\ U.baseC = T.baseC
        /\ Keeps(T.stk, U.stk, p - 1) /\ q <= Len(U.ci) /\ q <= Len(T.ci)
        /\ \A j \in 1 .. Len(U.ci) : /\ j <= q => U.ci[j] = T.ci[j]
                                     /\ q < j => j > Len(T.ci) /\ p <= U.ci[j].func
    BY DEF ExecWith, T
  <2> QED
    BY <1>4, <1>11, <2>1, <2>2, <2>3, <2>4, <2>6, <2>7 DEF OneMore, T
<1>14. ActivationInv(r, d1, e1, L)
  <2>1. /\ r.cs[L] = b /\ r.th[b.t] = U
    BY <1>2, <1>3, <1>5, <1>6, <1>7 DEF State
  <2>2. /\ Len(U.ci) = (Len(T.ci) - a.n) + k /\ U.nC = T.nC
        /\ \A j \in 1 .. Len(U.ci) : /\ j <= q => U.ci[j] = T.ci[j]
                                     /\ q < j => U.ci[j].lua
        /\ FramesInv(U) /\ q <= Len(T.ci)
    BY DEF ExecWith, T
  <2>3. d1[L] = Len(U.ci) /\ U.nC = e1[L]
    BY <1>3, <1>10, <2>2
  <2>4. DOMAIN U.ci = 1 .. Len(U.ci) /\ Len(U.ci) \in Nat \ {0}
    BY <1>4, <2>2, FramesFacts
  <2>5. \A j \in DOMAIN U.ci : d1[L] - b.n < j /\ j <= d1[L] => U.ci[j].lua
    <3> SUFFICES ASSUME NEW j \in 1 .. Len(U.ci), d1[L] - b.n < j
                 PROVE  U.ci[j].lua
      BY <2>4
    <3>1. CASE q < j
      BY <2>2, <3>1
    <3>2. CASE j <= q
      <4>1. ActivationInv(m, d, e, L)
        BY <1>1, <1>2, <1>3 DEF Inv
      <4>2. \A x \in DOMAIN T.ci : d[L] - a.n < x /\ x <= d[L] => T.ci[x].lua
        BY <1>2, <4>1 DEF ActivationInv, T
      <4>3. j \in 1 .. Len(T.ci) /\ DOMAIN T.ci = 1 .. Len(T.ci) /\ Len(T.ci) \in Nat
        <5>1. DOMAIN T.ci = 1 .. Len(T.ci) /\ Len(T.ci) \in Nat
          BY <1>2, ThreadFacts
        <5>2. j \in Nat /\ 1 <= j /\ j <= q /\ q <= Len(T.ci)
          BY <1>4, <2>2, <3>2
        <5> QED
          BY <1>4, <5>1, <5>2
      <4>4. d[L] - a.n < j /\ j <= d[L]
        <5>1. d1[L] - b.n = d[L] - a.n
          BY <1>2, <1>3, <1>4, <1>5, <1>10
        <5> QED
          BY <1>3, <4>3, <5>1
      <4> QED
        BY <2>2, <3>2, <4>2, <4>3, <4>4
    <3> QED
      BY <1>4, <3>1, <3>2
  <2> QED
    BY <1>5, <2>1, <2>3, <2>4, <2>5 DEF ActivationInv, Owns
<1>15. Inv(r, d1, e1) /\ Quiet(r) /\ Last(r.cs) = b /\ Running(r) = U
  <2>1. Quiet(m) /\ ActivationInv(r, d1, e1, (L - 1) + 1)
    BY <1>12, <1>14 DEF Sound
  <2> QED
    BY <1>1, <1>13, <2>1, OneNew
<1> QED
  BY <1>0, <1>6, <1>7, <1>15, SoundFrom DEF b

(* A function starts: activation b runs the new frames.                    *)
EnterWith(m, r, p, b, U) ==
  LET t == Last(m.cs).t
      T == Running(m)
  IN  /\ Begun(m) /\ b \in Activation /\ Above(Last(m.cs), b) /\ b.t = t
      /\ b.k \in {"exec", "cfun"} /\ (b.k = "cfun" => b.pc = "run")
      /\ r = Enter(Update(m, t, U), b) /\ AboveAll(m, p)
      /\ U \in Thread /\ FramesInv(U) /\ Keeps(T.stk, U.stk, p - 1)
      /\ U.nC = T.nC /\ U.status = T.status /\ U.baseC = T.baseC
      /\ Len(U.ci) = Len(T.ci) + FramesIn(b)
      /\ \A j \in 1 .. Len(U.ci) :
           /\ j <= Len(T.ci) => U.ci[j] = T.ci[j]
           /\ Len(T.ci) < j => p <= U.ci[j].func /\ U.ci[j].lua = (b.k = "exec")

LEMMA SoundEnter ==
  ASSUME NEW m, Sound(m), NEW r, NEW p, NEW b, NEW U, EnterWith(m, r, p, b, U)
  PROVE  Sound(r) /\ Running(r) = U /\ Last(r.cs) = b /\ r.cs = Append(m.cs, b)
<1> DEFINE L == Len(m.cs)
           a == Last(m.cs)
           T == Running(m)
           q == Len(T.ci)
           s == Append(m.cs, b)
<1>1. PICK d, e \in [DOMAIN m.cs -> Nat] : Inv(m, d, e)
  BY DEF Sound
<1> DEFINE d1 == More(d, L, (IF b.k = "resume" THEN 0 ELSE d[L]) + FramesIn(b))
           e1 == More(e, L, e[L] + Adds(b))
<1>2. /\ m \in State /\ m.cs \in Seq(Activation) /\ L \in Nat \ {0} /\ DOMAIN m.cs = 1 .. L
      /\ a = m.cs[L] /\ a \in Activation /\ a.t \in Threads /\ T = m.th[a.t] /\ m.cs # <<>>
      /\ T \in Thread /\ FramesInv(T) /\ q \in Nat \ {0}
  BY SoundFacts
<1>3. /\ d \in [1 .. L -> Nat] /\ e \in [1 .. L -> Nat] /\ q = d[L] /\ T.nC = e[L]
      /\ L \in 1 .. L
  BY <1>1, <1>2, RunningFacts
<1>0. L = Len(m.cs) /\ StackInv(m.cs, d, e)
  BY <1>1, <1>2 DEF Inv
<1> HIDE DEF L
<1>4. /\ b \in Activation /\ Above(a, b) /\ b.t = a.t /\ b.k \in {"exec", "cfun"}
      /\ b.k = "cfun" => b.pc = "run"
      /\ Begun(m) /\ U \in Thread /\ AboveAll(m, p) /\ p \in Nat
  BY DEF EnterWith, AboveAll
<1> HIDE DEF T
<1>5. /\ s \in Seq(Activation) /\ Len(s) = L + 1
      /\ \A i \in 1 .. L : s[i] = m.cs[i]
      /\ s[L + 1] = b /\ Last(s) = b
  BY <1>0, <1>2, <1>4, Appended
<1>6. /\ r \in State /\ r.cs = s /\ r.th = [m.th EXCEPT ![a.t] = U]
  <2>1. r = Enter(Update(m, a.t, U), b)
    BY DEF EnterWith
  <2>2. Update(m, a.t, U) \in State /\ Update(m, a.t, U).cs = m.cs
        /\ Update(m, a.t, U).th = [m.th EXCEPT ![a.t] = U]
    BY <1>2, <1>4, Updated DEF Update, State
  <2> QED
    BY <1>4, <2>1, <2>2, Entered
<1>7. StackInv(s, d1, e1)
  BY <1>0, <1>2, <1>4, StackPush
<1>8. Adds(b) = 0 /\ FramesIn(b) \in Nat \ {0} /\ (b.k = "exec" => FramesIn(b) = b.n)
  BY <1>4, ActivationFacts DEF FramesIn, Adds, Nested, Above
<1>9. /\ d1[L + 1] = d[L] + FramesIn(b) /\ e1[L + 1] = e[L]
      /\ \A i \in 1 .. L : d1[i] = d[i] /\ e1[i] = e[i]
  BY <1>2, <1>3, <1>4, <1>8 DEF More
<1> HIDE DEF s, d1, e1
<1>10. /\ Len(U.ci) = q + FramesIn(b) /\ U.nC = T.nC /\ U.status = T.status
       /\ U.baseC = T.baseC /\ FramesInv(U) /\ Keeps(T.stk, U.stk, p - 1)
       /\ \A j \in 1 .. Len(U.ci) : /\ j <= q => U.ci[j] = T.ci[j]
                                    /\ q < j => p <= U.ci[j].func /\ U.ci[j].lua = (b.k = "exec")
  BY DEF EnterWith, T
<1>14. q = Len(Running(m).ci) /\ q <= Len(U.ci) /\ q < Len(U.ci) /\ Len(U.ci) \in Nat
  <2>1. Len(U.ci) = q + FramesIn(b)
    BY <1>10
  <2>2. q \in Nat
    BY <1>2
  <2> HIDE DEF q
  <2>3. q <= Len(U.ci) /\ q < Len(U.ci) /\ Len(U.ci) \in Nat
    BY <1>8, <2>1, <2>2
  <2> QED
    BY <2>3 DEF q, T
<1> HIDE DEF q
<1>11. OneMore(m, d, e, r, d1, e1, L, p, q, b, U)
  <2>1. /\ L \in 0 .. Len(m.cs) /\ Begun(m)
        /\ r \in State /\ StackInv(r.cs, d1, e1) /\ Len(r.cs) = L + 1
        /\ \A i \in 1 .. L : r.cs[i] = m.cs[i] /\ d1[i] = d[i] /\ e1[i] = e[i]
        /\ b = r.cs[L + 1] /\ b.t = Last(m.cs).t /\ b.k # "resume" /\ ~Owns(b)
    BY <1>0, <1>2, <1>4, <1>5, <1>6, <1>7, <1>9 DEF Owns
  <2>2. /\ \A u \in Threads : u # a.t => r.th[u] = m.th[u]
        /\ U = r.th[a.t]
    BY <1>2, <1>6 DEF State
  <2>3. \A i \in 1 .. L : m.cs[i].t = a.t /\ Owns(m.cs[i]) => Floor(m.cs[i]) <= p
    BY <1>2, <1>4 DEF AboveAll
  <2>4. q <= Len(U.ci)
    BY <1>14
  <2>5. \A j \in 1 .. Len(U.ci) : /\ j <= q => U.ci[j] = T.ci[j]
                                  /\ q < j => j > q /\ p <= U.ci[j].func
    BY <1>2, <1>10
  <2>6. \A i \in 1 .. L : m.cs[i].t = a.t => d[i] <= q
    BY <1>0, <1>1, <1>14, ActivationsBelow
  <2> QED
    <3>1. /\ FramesInv(U) /\ U.status = T.status /\ U.baseC = T.baseC
          /\ Keeps(T.stk, U.stk, p - 1) /\ q <= Len(T.ci) /\ Len(T.ci) = q
      <4>1. /\ FramesInv(U) /\ U.status = T.status /\ U.baseC = T.baseC
            /\ Keeps(T.stk, U.stk, p - 1)
        BY <1>10
      <4>2. Len(T.ci) = q /\ q <= q
        <5>1. q \in Nat
          BY <1>2
        <5> QED
          BY <1>14, <5>1 DEF T
      <4> QED
        BY <4>1, <4>2
    <3>2. p \in Nat /\ q \in Nat
      BY <1>2, <1>4
    <3> QED
      BY <2>1, <2>2, <2>3, <2>4, <2>5, <2>6, <3>1, <3>2 DEF OneMore, T
<1>12. ActivationInv(r, d1, e1, L + 1)
  <2>1. /\ r.cs[L + 1] = b /\ r.th[b.t] = U
    BY <1>2, <1>4, <1>5, <1>6 DEF State
  <2>2. d1[L + 1] = Len(U.ci) /\ U.nC = e1[L + 1]
    BY <1>3, <1>9, <1>10
  <2>3. DOMAIN U.ci = 1 .. Len(U.ci) /\ Len(U.ci) \in Nat \ {0}
    BY <1>4, <1>10, FramesFacts
  <2>4. b.k = "exec" => \A j \in DOMAIN U.ci : d1[L + 1] - b.n < j => U.ci[j].lua
    <3> SUFFICES ASSUME b.k = "exec", NEW j \in 1 .. Len(U.ci), d1[L + 1] - b.n < j
                 PROVE  U.ci[j].lua
      BY <2>3
    <3>1. q < j
      BY <1>2, <1>3, <1>8, <1>9
    <3> QED
      BY <1>10, <3>1
  <2>5. b.k = "cfun" => ~U.ci[Len(U.ci)].lua
    <3>1. Len(U.ci) \in 1 .. Len(U.ci) /\ q < Len(U.ci)
      BY <1>14, <2>3
    <3>2. U.ci[Len(U.ci)].lua = (b.k = "exec")
      BY <1>10, <3>1
    <3> QED
      BY <3>2
  <2> QED
    <3>1. /\ d1[L + 1] \in DOMAIN U.ci /\ Len(U.ci) = d1[L + 1] /\ U.nC = e1[L + 1]
      BY <2>2, <2>3
    <3>2. b.k = "cfun" => ~U.ci[d1[L + 1]].lua /\ b.pc = "run"
      BY <1>4, <2>2, <2>5
    <3>3. b.k # "pcall" /\ b.k # "call" /\ b.k # "resume" /\ ~Owns(b)
      BY <1>4 DEF Owns
    <3> QED
      BY <2>1, <2>4, <3>1, <3>2, <3>3 DEF ActivationInv
<1>13. Inv(r, d1, e1) /\ Quiet(r) /\ Last(r.cs) = b /\ Running(r) = U
  <2>1. Quiet(m)
    BY DEF Sound
  <2> QED
    BY <1>1, <1>11, <1>12, <2>1, OneNew
<1> QED
  BY <1>6, <1>13, SoundFrom DEF s

-----------------------------------------------------------------------------
(* luaD_precall: the frames it lays out.                                   *)

(* U is T with one frame more, whose function is in slot func.             *)
Calls1(T, func, want, lua, U) ==
  LET q == Len(T.ci)
  IN  /\ U \in Thread /\ FramesInv(U) /\ Keeps(T.stk, U.stk, func - 1)
      /\ Len(U.ci) = q + 1 /\ \A j \in 1 .. q : U.ci[j] = T.ci[j]
      /\ U.ci[q + 1].func = func /\ U.ci[q + 1].want = want /\ U.ci[q + 1].lua = lua
      /\ U.ci[q + 1].captured = {}
      /\ U.nC = T.nC /\ U.status = T.status /\ U.baseC = T.baseC /\ U.over = T.over
      /\ U.open = T.open

LEMMA FrameAdded ==
  ASSUME NEW T \in Thread, FramesInv(T), NEW U \in Thread, NEW c \in CallInfo,
         U.ci = Append(T.ci, c), U.base = c.base, U.over = T.over, U.open = T.open,
         U.nC = T.nC, U.status = T.status, U.baseC = T.baseC, Len(T.ci) < SizeCI(T),
         Low(Frame(T)) <= c.func, c.func < c.base, c.lua => c.top > c.base, c.captured = {},
         c.under = SubSeq(U.stk, 1, c.func), Len(U.stk) >= Low(c) - 1,
         Keeps(T.stk, U.stk, c.func - 1)
  PROVE  Calls1(T, c.func, c.want, c.lua, U)
<1>1. Len(T.ci) < SizeCI(U)
  BY DEF SizeCI
<1>2. FramesInv(U)
  BY <1>1, FramesNew
<1>3. T.ci \in Seq(CallInfo)
  BY DEF Thread
<1>4. /\ Len(U.ci) = Len(T.ci) + 1 /\ \A j \in 1 .. Len(T.ci) : U.ci[j] = T.ci[j]
      /\ U.ci[Len(T.ci) + 1] = c
  BY <1>3, Appended
<1> QED
  BY <1>2, <1>4 DEF Calls1

(* The thread with the stack s calls the Lua function in slot func.        *)
LEMMA LuaFrameFacts ==
  ASSUME NEW T \in Thread, FramesInv(T), NEW s \in Seq(Value), NEW func \in Nat \ {0},
         Low(Frame(T)) <= func, func <= Len(s), Keeps(T.stk, s, func - 1),
         NEW base \in Nat, func < base, NEW want \in Result, Len(T.ci) < SizeCI(T)
  PROVE  Calls1(T, func, want, TRUE, LuaFrame([T EXCEPT !.stk = s], func, base, want))
<1> DEFINE T1 == [T EXCEPT !.stk = s]
           c == [func |-> func, base |-> base, top |-> base + MaxStack,
                 want |-> want, lua |-> TRUE, captured |-> {},
                 under |-> SubSeq(s, 1, func)]
           x == base + MaxStack
           u == Cut(s, x)
           T2 == [T1 EXCEPT !.base = base, !.ci = Append(@, c)]
           U == [T2 EXCEPT !.stk = u]
<1>1. T1 \in Thread /\ T1.stk = s /\ T1.ci = T.ci /\ T.ci \in Seq(CallInfo)
  BY DEF Thread
<1>2. MaxStack \in Nat /\ MaxStack > 1 /\ Len(s) \in Nat
  BY LimitsOrdered
<1>3. x \in Nat \ {0} /\ x > base + 1
  BY <1>2
<1>4. SubSeq(s, 1, func) \in Seq(Value)
  <2>1. func \in 0 .. Len(s)
    BY <1>2
  <2> QED
    BY <2>1, Prefix
<1>5. /\ c \in CallInfo /\ c.func = func /\ c.base = base /\ c.top = x /\ c.want = want
      /\ c.lua /\ c.captured = {} /\ c.under = SubSeq(s, 1, func) /\ c.lua = TRUE
  BY <1>3, <1>4 DEF CallInfo
<1>6. LuaFrame(T1, func, base, want) = U
  <2>1. LuaFrame(T1, func, base, want) = CutTo(T2, x)
    BY <1>1 DEF LuaFrame
  <2>2. T2.stk = s
    BY <1>1 DEF Thread
  <2> HIDE DEF T2, u
  <2>3. CutTo(T2, x) = [T2 EXCEPT !.stk = Cut(T2.stk, x)]
    BY CutIs
  <2> QED
    BY <2>1, <2>2, <2>3 DEF u
<1> HIDE DEF c
<1>7. u \in Seq(Value) /\ Len(u) = x - 1 /\ Keeps(s, u, func)
  <2>1. func \in Int /\ func <= Len(s) /\ func < x
    BY <1>3
  <2> HIDE DEF x
  <2> QED
    BY <1>3, <2>1, CutFacts
<1>8. Append(T.ci, c) \in Seq(CallInfo)
  BY <1>1, <1>5, Appended
<1> HIDE DEF u
<1>9. /\ U \in Thread /\ U.ci = Append(T.ci, c) /\ U.base = c.base /\ U.over = T.over
      /\ U.open = T.open /\ U.nC = T.nC /\ U.status = T.status /\ U.baseC = T.baseC
      /\ U.stk = u
  BY <1>1, <1>5, <1>7, <1>8 DEF Thread
<1> HIDE DEF U
<1>10. c.under = SubSeq(U.stk, 1, c.func)
  <2>1. func \in Nat /\ func \in Int /\ func <= func
    OBVIOUS
  <2>2. SubSeq(s, 1, func) = SubSeq(u, 1, func)
    BY <1>7, <2>1, KeptBelow
  <2> QED
    BY <1>5, <1>9, <2>2
<1>11. Len(U.stk) >= Low(c) - 1
  BY <1>3, <1>5, <1>7, <1>9 DEF Low
<1>12. Keeps(T.stk, U.stk, c.func - 1)
  <2>1. Keeps(s, U.stk, func - 1)
    <3>1. Len(u) \in Nat
      BY <1>7
    <3> QED
      BY <1>2, <1>7, <1>9, <3>1, KeepsLess
  <2> QED
    BY <1>5, <2>1, KeepsKeeps
<1>13. Low(Frame(T)) <= c.func /\ c.func < c.base /\ c.top > c.base
  BY <1>3, <1>5
<1>14. Calls1(T, c.func, c.want, c.lua, U)
  BY <1>5, <1>9, <1>10, <1>11, <1>12, <1>13, FrameAdded
<1> QED
  BY <1>5, <1>6, <1>14

LEMMA CFrameFacts ==
  ASSUME NEW T \in Thread, FramesInv(T), NEW s \in Seq(Value), NEW func \in Nat \ {0},
         Low(Frame(T)) <= func, func <= Len(s), Keeps(T.stk, s, func - 1),
         NEW want \in Result, Len(T.ci) < SizeCI(T)
  PROVE  Calls1(T, func, want, FALSE, CFrame([T EXCEPT !.stk = s], func, want))
<1> DEFINE T1 == [T EXCEPT !.stk = s]
           c == [func |-> func, base |-> func + 1, top |-> Len(s) + 1 + MinStack,
                 want |-> want, lua |-> FALSE, captured |-> {},
                 under |-> SubSeq(s, 1, func)]
           U == [T1 EXCEPT !.base = func + 1, !.ci = Append(@, c)]
<1>1. T1 \in Thread /\ T1.stk = s /\ T1.ci = T.ci /\ T.ci \in Seq(CallInfo)
  BY DEF Thread
<1>2. MinStack \in Nat /\ Len(s) \in Nat /\ func + 1 \in Nat /\ Len(s) + 1 + MinStack \in Nat
  BY LimitsOrdered
<1>3. SubSeq(s, 1, func) \in Seq(Value)
  <2>1. func \in 0 .. Len(s)
    BY <1>2
  <2> QED
    BY <2>1, Prefix
<1>4. /\ c \in CallInfo /\ c.func = func /\ c.base = func + 1 /\ c.want = want
      /\ ~c.lua /\ c.captured = {} /\ c.under = SubSeq(s, 1, func) /\ c.lua = FALSE
  BY <1>2, <1>3 DEF CallInfo
<1>5. CFrame(T1, func, want) = U
  BY <1>1 DEF CFrame, Top
<1> HIDE DEF c
<1>6. Append(T.ci, c) \in Seq(CallInfo)
  BY <1>1, <1>4, Appended
<1>7. /\ U \in Thread /\ U.ci = Append(T.ci, c) /\ U.base = c.base /\ U.over = T.over
      /\ U.open = T.open /\ U.nC = T.nC /\ U.status = T.status /\ U.baseC = T.baseC
      /\ U.stk = s
  BY <1>1, <1>2, <1>4, <1>6 DEF Thread
<1> HIDE DEF U
<1>8. c.under = SubSeq(U.stk, 1, c.func) /\ Keeps(T.stk, U.stk, c.func - 1)
  BY <1>4, <1>7
<1>9. Len(U.stk) >= Low(c) - 1
  BY <1>2, <1>4, <1>7 DEF Low
<1>10. Low(Frame(T)) <= c.func /\ c.func < c.base
  BY <1>4
<1>11. Calls1(T, c.func, c.want, c.lua, U)
  BY <1>4, <1>7, <1>8, <1>9, <1>10, FrameAdded
<1> QED
  BY <1>4, <1>5, <1>11

(* What luaD_precall calls, and with which stack, before the frame is laid *)
(* out: f is the function, T1 the thread with the arguments arranged.      *)
Called(T, func) == IF T.stk[func] = Callable THEN TryFuncTM(T, func) ELSE T
Arranged(T, func) ==
  CASE T.stk[func] = "L" -> AdjustFixed(T, func)
    [] T.stk[func] = "V" -> AdjustVarargs(T, func)
    [] OTHER -> T
BaseOf(T, func, f) == IF f = "V" THEN Top(T) - 1 ELSE func + 1

LEMMA CalledFacts ==
  ASSUME NEW T \in Thread, NEW func \in Nat \ {0}, func <= Len(T.stk)
  PROVE  \E s \in Seq(Value) : /\ Called(T, func) = [T EXCEPT !.stk = s]
                               /\ Keeps(T.stk, s, func - 1) /\ func <= Len(s)
<1>1. T.stk \in Seq(Value) /\ Len(T.stk) \in Nat
  BY DEF Thread
<1>2. CASE T.stk[func] = Callable
  <2> DEFINE s == InsertAt(T.stk, func, CallMethod)
             l == SubSeq(T.stk, 1, func - 1)
             h == SubSeq(T.stk, func, Len(T.stk))
  <2>1. s = (l \o <<CallMethod>>) \o h
    BY DEF InsertAt
  <2>2. func - 1 \in 0 .. Len(T.stk)
    BY <1>1
  <2>3. CallMethod \in Value /\ <<CallMethod>> \in Seq(Value) /\ Len(<<CallMethod>>) = 1
    BY DEF Value, CFunctions, CallMethod
  <2>4. l \o <<CallMethod>> \in Seq(Value) /\ Len(l \o <<CallMethod>>) = func
        /\ Keeps(T.stk, l \o <<CallMethod>>, func - 1)
    <3>1. LET r == SubSeq(T.stk, 1, func - 1) \o <<CallMethod>>
          IN  r \in Seq(Value) /\ Len(r) = (func - 1) + Len(<<CallMethod>>)
              /\ Keeps(T.stk, r, func - 1)
      BY <1>1, <2>2, <2>3, Upper
    <3> QED
      BY <2>3, <3>1
  <2>5. h \in Seq(Value) /\ Len(h) \in Nat
    <3>1. h \in Seq(Value)
      BY <1>1, Slice
    <3> QED
      BY <3>1
  <2> HIDE DEF l, h, s
  <2>6. s \in Seq(Value) /\ func <= Len(s) /\ Keeps(T.stk, s, func - 1)
    <3> DEFINE g == l \o <<CallMethod>>
    <3>1. g \in Seq(Value) /\ Len(g) = func /\ Keeps(T.stk, g, func - 1)
      BY <2>4
    <3> HIDE DEF g
    <3>2. g \o h \in Seq(Value) /\ Len(g \o h) = func + Len(h) /\ Keeps(g, g \o h, func)
      BY <2>5, <3>1, ConcatKeeps
    <3>3. Keeps(g, g \o h, func - 1)
      <4>1. Len(g) \in Nat /\ Len(g \o h) \in Nat /\ func \in Int /\ func - 1 \in Int
            /\ func - 1 <= func
        BY <2>5, <3>1, <3>2
      <4> QED
        BY <3>2, <4>1, KeepsLess
    <3>4. s = g \o h
      BY <2>1 DEF g
    <3> QED
      BY <2>5, <3>1, <3>2, <3>3, <3>4, KeepsKeeps
  <2>7. Called(T, func) = [T EXCEPT !.stk = s]
    BY <1>2 DEF Called, TryFuncTM, s
  <2> QED
    BY <2>6, <2>7
<1>3. CASE T.stk[func] # Callable
  <2>1. Called(T, func) = [T EXCEPT !.stk = T.stk]
    BY <1>3 DEF Called, Thread
  <2>2. Keeps(T.stk, T.stk, func - 1)
    BY <1>1 DEF Keeps
  <2> QED
    BY <1>1, <2>1, <2>2
<1> QED
  BY <1>2, <1>3

LEMMA ArrangedFacts ==
  ASSUME NEW T \in Thread, NEW func \in Nat \ {0}, func <= Len(T.stk)
  PROVE  LET A == Arranged(T, func)
             base == BaseOf(A, func, T.stk[func])
         IN  /\ \E s \in Seq(Value) : /\ A = [T EXCEPT !.stk = s] /\ A.stk = s
                                      /\ Keeps(T.stk, s, func) /\ func <= Len(s)
             /\ base \in Nat /\ func < base
<1> DEFINE x == func + 2
<1>1. /\ T.stk \in Seq(Value) /\ Len(T.stk) \in Nat /\ x \in Nat \ {0} /\ func \in Int
      /\ func <= Len(T.stk) /\ func < x
  BY DEF Thread
<1>2. CASE T.stk[func] = "L"
  <2> DEFINE s == Cut(T.stk, x)
  <2>1. s \in Seq(Value) /\ Len(s) = x - 1 /\ Keeps(T.stk, s, func)
    <3> HIDE DEF x
    <3> QED
      BY <1>1, CutFacts
  <2>2. Arranged(T, func) = [T EXCEPT !.stk = s]
    BY <1>2, CutIs DEF Arranged, AdjustFixed
  <2>3. BaseOf(Arranged(T, func), func, T.stk[func]) = func + 1
    BY <1>2 DEF BaseOf
  <2>4. func <= Len(s)
    BY <2>1
  <2>5. [T EXCEPT !.stk = s].stk = s
    BY DEF Thread
  <2> HIDE DEF s, x
  <2> QED
    BY <2>1, <2>2, <2>3, <2>4, <2>5
<1>3. CASE T.stk[func] = "V"
  <2> DEFINE y == IF Len(T.stk) + 1 < x THEN x ELSE Len(T.stk) + 1
             S == CutTo(T, y)
             c == Cut(T.stk, y)
             z == [c EXCEPT ![func + 1] = NilValue]
             s == Append(z, c[func + 1])
  <2>1. y \in Nat \ {0} /\ func < y /\ y >= x
    BY <1>1
  <2> HIDE DEF y
  <2>2. c \in Seq(Value) /\ Len(c) = y - 1 /\ Keeps(T.stk, c, func)
    BY <1>1, <2>1, CutFacts
  <2>3. S = [T EXCEPT !.stk = c] /\ S.stk = c
    <3>1. S = [T EXCEPT !.stk = c]
      BY CutIs
    <3> HIDE DEF S, c
    <3> QED
      BY <3>1 DEF Thread
  <2> HIDE DEF c
  <2>4. func + 1 \in 1 .. Len(c) /\ NilValue \in Value
    BY <1>1, <2>1, <2>2 DEF Value
  <2>5. /\ z \in Seq(Value) /\ Len(z) = Len(c)
        /\ \A i \in 1 .. Len(c) : z[i] = IF i = func + 1 THEN NilValue ELSE c[i]
    BY <2>2, <2>4, ExceptSeq
  <2>6. c[func + 1] \in Value
    BY <2>2, <2>4, ElementOfSeq
  <2> HIDE DEF z
  <2>7. s \in Seq(Value) /\ Len(s) = Len(c) + 1 /\ Keeps(z, s, Len(z))
    BY <2>5, <2>6, AppendKeeps
  <2>8. Keeps(T.stk, s, func)
    <3>1. Keeps(c, z, func)
      BY <1>1, <2>2, <2>4, <2>5 DEF Keeps
    <3>2. Keeps(z, s, func)
      BY <1>1, <2>2, <2>4, <2>5, <2>7, KeepsLess
    <3> HIDE DEF s
    <3> QED
      BY <2>2, <3>1, <3>2, KeepsKeeps
  <2>9. AdjustVarargs(T, func) = [T EXCEPT !.stk = s]
    <3>1. AdjustVarargs(T, func) = [S EXCEPT !.stk = Append([S.stk EXCEPT ![func + 1] = NilValue],
                                                            S.stk[func + 1])]
      BY DEF AdjustVarargs, Top, y
    <3>2. AdjustVarargs(T, func) = [S EXCEPT !.stk = s]
      BY <2>3, <3>1 DEF z
    <3> HIDE DEF s
    <3> QED
      BY <2>3, <3>2 DEF Thread
  <2>10. Arranged(T, func) = [T EXCEPT !.stk = s] /\ [T EXCEPT !.stk = s].stk = s
    BY <1>3, <2>9 DEF Arranged, Thread
  <2> HIDE DEF s
  <2>11. BaseOf(Arranged(T, func), func, T.stk[func]) = (Len(s) + 1) - 1
    BY <1>3, <2>10 DEF BaseOf, Top
  <2>12. func <= Len(s) /\ (Len(s) + 1) - 1 \in Nat /\ func < (Len(s) + 1) - 1
    BY <1>1, <2>1, <2>2, <2>7
  <2> QED
    BY <2>7, <2>8, <2>10, <2>11, <2>12
<1>4. CASE T.stk[func] \notin {"L", "V"}
  <2>1. Arranged(T, func) = T
    BY <1>4 DEF Arranged
  <2>2. T = [T EXCEPT !.stk = T.stk]
    BY DEF Thread
  <2>3. Keeps(T.stk, T.stk, func)
    BY <1>1 DEF Keeps
  <2>4. BaseOf(Arranged(T, func), func, T.stk[func]) = func + 1
    BY <1>4 DEF BaseOf
  <2> QED
    BY <1>1, <2>1, <2>2, <2>3, <2>4
<1> QED
  BY <1>2, <1>3, <1>4

(* An error leaves no frame more than there were.                          *)
Fewer(m, r) == Len(r.th[Last(m.cs).t].ci) <= Len(Running(m).ci)

LEMMA ThrowFewer ==
  ASSUME NEW m, Sound(m), Last(m.cs).k # "jni", NEW v
  PROVE  Fewer(m, Throw(m, v))
<1> DEFINE t == Last(m.cs).t
           T == Running(m)
           i == ThrowTo(m)
           a == m.cs[i]
           X == IF a.k = "pcall" THEN Caught(T, a, v) ELSE Died(T, v)
           to == [m EXCEPT !.cs = SubSeq(@, 1, i - 1)]
           r == Update(to, a.t, X)
<1>1. PICK d, e \in [DOMAIN m.cs -> Nat] : Inv(m, d, e)
  BY DEF Sound
<1>2. /\ m \in State /\ T = m.th[t] /\ t \in Threads /\ T \in Thread /\ Len(T.ci) \in Nat \ {0}
      /\ T.ci \in Seq(CallInfo) /\ FramesInv(T) /\ DOMAIN T.ci = 1 .. Len(T.ci)
  BY SoundFacts, ThreadFacts
<1>3. i \in 2 .. Len(m.cs) /\ a.t = t /\ a.k \in {"pcall", "resume"}
  BY <1>1, Thrown
<1> HIDE DEF T
<1>4. Throw(m, v) = Answer(r, "failed")
  <2>1. m.th[a.t] = T
    BY <1>2, <1>3
  <2> QED
    BY <2>1 DEF Throw
<1>5. Answer(r, "failed").th[t] = X
  <2>1. to.th = m.th
    OBVIOUS
  <2>2. r.th[t] = X
    <3> HIDE DEF to, X
    <3> QED
      BY <1>2, <1>3, <2>1 DEF Update, State
  <2> HIDE DEF r
  <2>3. Answer(r, "failed").th = r.th
    BY DEF Answer
  <2> QED
    BY <2>2, <2>3
<1>6. Len(X.ci) <= Len(T.ci)
  <2>1. CASE a.k = "pcall"
    <3>1. i \in DOMAIN m.cs
      BY <1>1, <1>3, RunningFacts
    <3>2. ActivationInv(m, d, e, i)
      BY <1>1, <3>1 DEF Inv
    <3>3. a.ci \in DOMAIN T.ci
      BY <1>2, <1>3, <2>1, <3>2 DEF ActivationInv
    <3>4. a.ci \in 1 .. Len(T.ci)
      BY <1>2, <3>3
    <3>5. X.ci = SubSeq(T.ci, 1, a.ci)
      <4>1. Caught(T, a, v).ci = SubSeq(T.ci, 1, a.ci)
        <5> HIDE DEF a
        <5> QED
          BY <1>2 DEF Caught, RestoreStackLimit, Close, Thread
      <4> QED
        BY <2>1, <4>1
    <3>6. a.ci \in 0 .. Len(T.ci) /\ a.ci <= Len(T.ci)
      BY <1>2, <3>4
    <3>7. Len(SubSeq(T.ci, 1, a.ci)) = a.ci
      BY <1>2, <3>6, Prefix
    <3> QED
      BY <3>5, <3>6, <3>7
  <2>2. CASE a.k = "resume"
    <3> DEFINE T1 == [PushValueOf(T, v) EXCEPT !.status = "error", !.nC = @ - 1]
               f == [T1.ci EXCEPT ![Len(T1.ci)].top = Top(T1)]
    <3>1. X.ci = f
      BY <2>2 DEF Died
    <3>2. T1.ci = T.ci
      BY DEF PushValueOf
    <3>3. DOMAIN f = DOMAIN T1.ci
      OBVIOUS
    <3>4. Len(f) = Len(T.ci)
      BY <1>2, <3>2, <3>3
    <3>5. Len(X.ci) = Len(T.ci)
      BY <3>1, <3>4
    <3> HIDE DEF X
    <3> QED
      BY <1>2, <3>5
  <2> QED
    BY <1>3, <2>1, <2>2
<1> HIDE DEF X, r
<1> QED
  BY <1>4, <1>5, <1>6 DEF Fewer, T

LEMMA ErrorMsgFewer ==
  ASSUME NEW m, Sound(m), Last(m.cs).k # "jni", NEW t, t = Last(m.cs).t
  PROVE  Fewer(m, ErrorMsg(m, t))
<1> DEFINE T == m.th[t]
           h == T.stk[T.ef]
           m2 == Update(m, t, [T EXCEPT !.stk = Front(@) \o <<h, Last(@)>>])
           r == BeginCall(Enter(m2, [k |-> "errormsg", t |-> t]), t, Top(T) - 1, 1)
<1>1. T = Running(m) /\ m \in State /\ t \in Threads /\ Len(T.ci) \in Nat
  BY SoundFacts, ThreadFacts DEF Running
<1>2. CASE T.ef = 0
  <2>1. ErrorMsg(m, t) = Throw(m, Last(T.stk))
    BY <1>2 DEF ErrorMsg
  <2> QED
    BY <2>1, ThrowFewer
<1>3. CASE T.ef # 0 /\ ~IsFunction(h)
  <2>1. ErrorMsg(m, t) = Throw(m, ErrErr)
    BY <1>3 DEF ErrorMsg
  <2> QED
    BY <2>1, ThrowFewer
<1>4. CASE T.ef # 0 /\ IsFunction(h)
  <2>1. ErrorMsg(m, t) = r
    BY <1>4 DEF ErrorMsg
  <2>2. r.th = m2.th
    BY DEF BeginCall, Enter
  <2>3. m2.th[t].ci = T.ci
    BY <1>1 DEF Update, State
  <2> HIDE DEF m2, r
  <2> QED
    BY <1>1, <2>1, <2>2, <2>3 DEF Fewer
<1> QED
  BY <1>2, <1>3, <1>4

LEMMA RunErrorFewer ==
  ASSUME NEW m, Sound(m), Begun(m), Last(m.cs).k \in {"call", "exec", "cfun"},
         NEW t, t = Last(m.cs).t, AboveAll(m, Len(Running(m).stk) + 1)
  PROVE  Fewer(m, RunError(m, t))
<1> DEFINE T == Running(m)
           n == Len(T.stk)
           s == Append(T.stk, Message)
           r == Update(m, t, [T EXCEPT !.stk = s])
<1>1. /\ t \in Threads /\ T = m.th[t] /\ T.stk \in Seq(Value) /\ n \in Nat
  BY SoundFacts
<1>2. s \in Seq(Value) /\ Len(s) = n + 1 /\ Keeps(T.stk, s, n + 1 - 1)
  <2>1. Message \in Value
    BY DEF Value
  <2>2. n + 1 - 1 = n
    BY <1>1
  <2>3. s \in Seq(Value) /\ Len(s) = n + 1 /\ Keeps(T.stk, s, n)
    <3> HIDE DEF T
    <3> QED
      BY <1>1, <2>1, AppendKeeps
  <2> QED
    BY <2>2, <2>3
<1>3. RunError(m, t) = ErrorMsg(r, t)
  BY <1>1 DEF RunError, PushValueOf
<1> HIDE DEF s
<1>4. Sound(r) /\ r.cs = m.cs /\ Running(r).ci = T.ci
  BY <1>2, SoundStack
<1> HIDE DEF r
<1>5. Fewer(r, ErrorMsg(r, t))
  BY <1>4, ErrorMsgFewer
<1> QED
  BY <1>3, <1>4, <1>5 DEF Fewer

(* luaD_precall, in the thread that runs: there is a Lua frame more, which *)
(* execs has to run, or a C frame more, or an error.                       *)
Enters(m, t, func, want, execs, r) ==
  \E U : /\ Calls1(Running(m), func, want, TRUE, U)
         /\ r = [Update(m, t, U) EXCEPT !.cs = execs]
NoLua(m, t, r) == Fewer(m, r) \/ ~Frame(r.th[t]).lua

CanCall(m, t, func, want) ==
  /\ Sound(m) /\ Begun(m) /\ Last(m.cs).k \in {"call", "exec"} /\ t = Last(m.cs).t
  /\ AboveAll(m, func) /\ func <= Len(Running(m).stk) /\ want \in Result
  /\ Running(m).nC < ErrCCalls

LEMMA PrecallCases ==
  ASSUME NEW m, NEW t, NEW func, NEW want, NEW execs, CanCall(m, t, func, want)
  PROVE  LET r == Precall(m, t, func, want, execs)
         IN  Enters(m, t, func, want, execs, r) \/ (Good(r) /\ NoLua(m, t, r))
<1> DEFINE T0 == Running(m)
           T1 == Called(T0, func)
           f == T1.stk[func]
           A == Arranged(T1, func)
           base == BaseOf(A, func, f)
           r == Precall(m, t, func, want, execs)
           b == [k |-> "cfun", t |-> t, f |-> f, pc |-> "run"]
<1>1. /\ m \in State /\ t \in Threads /\ T0 \in Thread /\ FramesInv(T0) /\ T0 = m.th[t]
      /\ T0.stk \in Seq(Value) /\ Len(T0.stk) \in Nat /\ Len(T0.ci) \in Nat \ {0}
      /\ T0.ci \in Seq(CallInfo) /\ Low(Frame(T0)) \in Nat \ {0} /\ T0.nC \in Nat
  BY SoundFacts, ThreadFacts DEF CanCall
<1>2. /\ Sound(m) /\ Begun(m) /\ Last(m.cs).k \in {"call", "exec"} /\ t = Last(m.cs).t
      /\ AboveAll(m, func) /\ func <= Len(T0.stk) /\ want \in Result
      /\ T0.nC < ErrCCalls
  BY DEF CanCall
<1>3. func \in Nat \ {0} /\ Low(Frame(T0)) <= func
  BY <1>1, <1>2 DEF AboveAll
<1> HIDE DEF T0
<1>4. PICK s1 \in Seq(Value) : /\ T1 = [T0 EXCEPT !.stk = s1]
                               /\ Keeps(T0.stk, s1, func - 1) /\ func <= Len(s1)
  BY <1>1, <1>2, <1>3, CalledFacts
<1> HIDE DEF T1
<1>5. T1 \in Thread /\ T1.stk = s1 /\ Len(s1) \in Nat /\ f \in Value
  <2>1. T1 \in Thread /\ T1.stk = s1 /\ Len(s1) \in Nat
    BY <1>1, <1>4, StackAlike
  <2>2. func \in 1 .. Len(s1)
    BY <1>3, <1>4, <2>1
  <2> QED
    BY <2>1, <2>2, ElementOfSeq
<1>6. /\ \E s \in Seq(Value) : /\ A = [T1 EXCEPT !.stk = s] /\ A.stk = s
                               /\ Keeps(s1, s, func) /\ func <= Len(s)
      /\ base \in Nat /\ func < base
  BY <1>3, <1>4, <1>5, ArrangedFacts
<1>7. PICK s \in Seq(Value) : /\ A = [T1 EXCEPT !.stk = s] /\ A.stk = s
                              /\ Keeps(s1, s, func) /\ func <= Len(s)
  BY <1>6
<1> HIDE DEF A, f, base
<1>8. /\ A = [T0 EXCEPT !.stk = s] /\ Keeps(T0.stk, s, func - 1) /\ A.ci = T0.ci /\ A.over = T0.over
      /\ A \in Thread /\ A.nC = T0.nC
  <2>1. A = [T0 EXCEPT !.stk = s]
    BY <1>1, <1>4, <1>7 DEF Thread
  <2>2. Keeps(s1, s, func - 1)
    <3>1. func \in Int /\ func - 1 \in Int /\ func - 1 <= func /\ Len(s) \in Nat
      BY <1>3
    <3> QED
      BY <1>5, <1>7, <3>1, KeepsLess
  <2> QED
    BY <1>1, <1>4, <2>1, <2>2, KeepsKeeps DEF Thread
<1>9. r = CASE ~IsFunction(f) -> RunError(m, t)
            [] IsFunction(f) /\ Len(A.ci) = SizeCI(A) /\ A.over ->
                 Throw(Update(m, t, A), ErrErr)
            [] IsFunction(f) /\ Len(A.ci) = SizeCI(A) /\ ~A.over ->
                 RunError(Update(m, t, [A EXCEPT !.over = TRUE]), t)
            [] f \in LuaFunctions /\ Len(A.ci) < SizeCI(A) ->
                 [Update(m, t, LuaFrame(A, func, base, want)) EXCEPT !.cs = execs]
            [] f \in CFunctions /\ Len(A.ci) < SizeCI(A) ->
                 Enter(Update(m, t, CFrame(A, func, want)), b)
  BY <1>1 DEF Precall, Called, Arranged, BaseOf, T1, A, f, base
<1>10. Len(T0.ci) <= SizeCI(T0) /\ SizeCI(A) = SizeCI(T0) /\ SizeCI(T0) \in Nat
  BY <1>1, <1>8, LimitsOrdered DEF FramesInv, SizeCI
<1>11. AboveAll(m, Len(T0.stk) + 1)
  BY <1>1, <1>2, <1>3, AboveMore
<1>12. CASE ~IsFunction(f)
  <2>1. r = RunError(m, t)
    <3>1. f \notin LuaFunctions /\ f \notin CFunctions
      BY <1>12 DEF IsFunction
    <3> QED
      BY <1>9, <1>12, <3>1
  <2>2. Good(RunError(m, t)) /\ Fewer(m, RunError(m, t))
    BY <1>2, <1>11, RunErrorGood, RunErrorFewer DEF T0
  <2> QED
    BY <2>1, <2>2 DEF NoLua
<1>13. CASE IsFunction(f) /\ Len(A.ci) = SizeCI(A) /\ A.over
  <2> DEFINE m2 == Update(m, t, A)
  <2>1. r = Throw(m2, ErrErr)
    BY <1>9, <1>13
  <2>2. m2 = Update(m, Last(m.cs).t, [T0 EXCEPT !.stk = s])
    BY <1>2, <1>8
  <2> HIDE DEF m2
  <2>3. Sound(m2) /\ m2.cs = m.cs /\ Running(m2).nC = T0.nC /\ Running(m2).ci = T0.ci
    BY <1>2, <1>8, <2>2, SoundStack DEF T0
  <2>4. ErrErr \in Value
    BY DEF Value
  <2>5. Good(Throw(m2, ErrErr)) /\ Fewer(m2, Throw(m2, ErrErr))
    BY <1>2, <2>3, <2>4, ThrowGood, ThrowFewer
  <2>6. Fewer(m, Throw(m2, ErrErr))
    BY <2>3, <2>5 DEF Fewer, T0
  <2> QED
    BY <2>1, <2>5, <2>6 DEF NoLua
<1>14. CASE IsFunction(f) /\ Len(A.ci) = SizeCI(A) /\ ~A.over
  <2> DEFINE B == [A EXCEPT !.over = TRUE]
             m2 == Update(m, t, B)
  <2>1. r = RunError(m2, t)
    BY <1>9, <1>14
  <2>2. /\ B \in Thread /\ B.stk = s /\ B.ci = T0.ci /\ B.base = T0.base /\ B.open = T0.open
        /\ B.nC = T0.nC /\ B.status = T0.status /\ B.baseC = T0.baseC /\ B.over
    BY <1>1, <1>8 DEF Thread
  <2> HIDE DEF B
  <2>3. Alike(T0, B)
    <3>1. Len(T0.ci) <= SizeCI(B)
      BY <1>1, <1>8, <1>10, <1>14, <2>2, LimitsOrdered DEF SizeCI
    <3>2. DOMAIN T0.ci = 1 .. Len(T0.ci)
      BY <1>1
    <3>3. T0.open = UNION {T0.ci[i].captured : i \in 1 .. Len(T0.ci)}
      BY <1>1, <3>2 DEF FramesInv
    <3>4. \A i \in 1 .. Len(T0.ci) :
            /\ T0.ci[i].lua => T0.ci[i].top > T0.ci[i].base
            /\ T0.ci[i].captured \subseteq (IF T0.ci[i].lua THEN {T0.ci[i].base} ELSE {})
      BY <1>1, FrameFacts
    <3> QED
      BY <2>2, <3>1, <3>3, <3>4 DEF Alike
  <2>4. Keeps(T0.stk, B.stk, func - 1)
    BY <1>8, <2>2
  <2>5. /\ Sound(m2) /\ Begun(m2) /\ AboveAll(m2, func) /\ m2.cs = m.cs /\ Running(m2) = B
    BY <1>2, <2>2, <2>3, <2>4, SoundWritten DEF T0
  <2> HIDE DEF m2
  <2>6. AboveAll(m2, Len(Running(m2).stk) + 1)
    <3>1. Len(s) + 1 \in Nat /\ func <= Len(s) + 1
      BY <1>3, <1>7
    <3> QED
      BY <2>2, <2>5, <3>1, AboveMore
  <2>7. Good(RunError(m2, t)) /\ Fewer(m2, RunError(m2, t))
    BY <1>2, <2>2, <2>5, <2>6, RunErrorGood, RunErrorFewer
  <2>8. Fewer(m, RunError(m2, t))
    BY <2>2, <2>5, <2>7 DEF Fewer, T0
  <2> QED
    BY <2>1, <2>7, <2>8 DEF NoLua
<1>15. CASE f \in LuaFunctions /\ Len(A.ci) < SizeCI(A)
  <2> DEFINE U == LuaFrame(A, func, base, want)
  <2>1. r = [Update(m, t, U) EXCEPT !.cs = execs]
    <3>1. IsFunction(f) /\ f \notin CFunctions /\ Len(A.ci) # SizeCI(A)
      BY <1>10, <1>15 DEF IsFunction, LuaFunctions, CFunctions
    <3> HIDE DEF U
    <3> QED
      BY <1>9, <1>15, <3>1 DEF U
  <2>2. Calls1(T0, func, want, TRUE, U)
    BY <1>1, <1>2, <1>3, <1>6, <1>7, <1>8, <1>10, <1>15, LuaFrameFacts
  <2> HIDE DEF U
  <2> QED
    BY <2>1, <2>2 DEF Enters, T0
<1>16. CASE f \in CFunctions /\ Len(A.ci) < SizeCI(A)
  <2> DEFINE U == CFrame(A, func, want)
  <2>1. r = Enter(Update(m, t, U), b)
    <3>1. IsFunction(f) /\ f \notin LuaFunctions /\ Len(A.ci) # SizeCI(A)
      BY <1>10, <1>16 DEF IsFunction, LuaFunctions, CFunctions
    <3> QED
      BY <1>9, <1>16, <3>1
  <2>2. Calls1(T0, func, want, FALSE, U)
    BY <1>1, <1>2, <1>3, <1>7, <1>8, <1>10, <1>16, CFrameFacts
  <2>3. /\ b \in Activation /\ b.k = "cfun" /\ b.t = t /\ b.pc = "run" /\ b.f = f
    BY <1>1, <1>16 DEF Activation
  <2> HIDE DEF U, b
  <2>4. EnterWith(m, r, func, b, U)
    <3>1. Above(Last(m.cs), b)
      BY <1>2, <2>3 DEF Above, Begun
    <3>2. FramesIn(b) = 1
      BY <2>3 DEF FramesIn
    <3>3. \A j \in 1 .. Len(U.ci) :
            /\ j <= Len(T0.ci) => U.ci[j] = T0.ci[j]
            /\ Len(T0.ci) < j => func <= U.ci[j].func /\ U.ci[j].lua = (b.k = "exec")
      <4>1. Len(U.ci) = Len(T0.ci) + 1 /\ \A x \in 1 .. Len(T0.ci) : U.ci[x] = T0.ci[x]
        BY <2>2 DEF Calls1
      <4>2. \A j \in 1 .. Len(U.ci) : j <= Len(T0.ci) => U.ci[j] = T0.ci[j]
        BY <1>1, <4>1
      <4>3. ASSUME NEW j \in 1 .. Len(U.ci), Len(T0.ci) < j
            PROVE  func <= U.ci[j].func /\ U.ci[j].lua = (b.k = "exec")
        <5>1. j = Len(T0.ci) + 1
          BY <1>1, <4>1, <4>3
        <5>2. U.ci[j].func = func /\ U.ci[j].lua = FALSE
          BY <2>2, <5>1 DEF Calls1
        <5>3. (b.k = "exec") = FALSE
          BY <2>3
        <5>4. func <= U.ci[j].func
          BY <1>3, <5>2
        <5>5. U.ci[j].lua = (b.k = "exec")
          BY <5>2, <5>3
        <5> QED
          BY <5>4, <5>5
      <4> QED
        BY <4>2, <4>3
    <3> QED
      BY <1>2, <2>1, <2>2, <2>3, <3>1, <3>2, <3>3 DEF EnterWith, Calls1, T0
  <2>5. Sound(r) /\ Running(r) = U /\ Last(r.cs) = b
    BY <1>2, <2>4, SoundEnter
  <2>6. Good(r)
    BY <1>2, <2>2, <2>3, <2>5, GoodTop DEF Calls1
  <2>7. ~Frame(r.th[t]).lua
    <3>1. r.th[t] = U
      BY <2>3, <2>5 DEF Running
    <3>2. Frame(U) = U.ci[Len(T0.ci) + 1]
      <4>1. U \in Thread /\ FramesInv(U) /\ Len(U.ci) = Len(T0.ci) + 1
        BY <2>2 DEF Calls1
      <4> QED
        BY <4>1, FramesFacts
    <3> QED
      BY <2>2, <3>1, <3>2 DEF Calls1
  <2> QED
    BY <2>6, <2>7 DEF NoLua
<1> QED
  <2>1. IsFunction(f) => f \in LuaFunctions \/ f \in CFunctions
    BY DEF IsFunction
  <2>2. Len(A.ci) = SizeCI(A) \/ Len(A.ci) < SizeCI(A)
    BY <1>1, <1>8, <1>10
  <2>3. A.over \/ ~A.over
    OBVIOUS
  <2> QED
    BY <1>12, <1>13, <1>14, <1>15, <1>16, <2>1, <2>2, <2>3

-----------------------------------------------------------------------------
(* The steps.                                                              *)

LEMMA Becomes ==
  ASSUME NEW r, Become(r), Good(r)
  PROVE  IInv'
<1>1. r \in State
  BY DEF Good, Inv
<1>2. r = [th |-> th', cs |-> cs']
  BY <1>1 DEF State, Become
<1> QED
  BY <1>2 DEF IInv, M

LEMMA Starts ==
  ASSUME IInv
  PROVE  /\ M \in State /\ M.cs = cs /\ M.th = th /\ Last(M.cs) = Here /\ Running(M) = Now
         /\ Now.nC < ErrCCalls
         /\ ~(Here.k = "cfun" /\ Here.f = "wrapped" /\ Here.pc = "ok") => Sound(M)
<1>1. PICK d, e \in [DOMAIN M.cs -> Nat] : Inv(M, d, e) /\ Rests(M, e)
  BY DEF IInv, Good
<1>2. /\ M \in State /\ M.cs = cs /\ M.th = th /\ Last(M.cs) = Here /\ Running(M) = Now
  BY <1>1 DEF Inv, M, Running, Here, Now
<1>3. Now.nC < ErrCCalls
  <2>1. Running(M).nC = e[Len(M.cs)]
    BY <1>1, RunningFacts
  <2> QED
    BY <1>1, <1>2, <2>1 DEF Rests
<1>4. ASSUME ~(Here.k = "cfun" /\ Here.f = "wrapped" /\ Here.pc = "ok")
      PROVE  Sound(M)
  <2>1. ASSUME ~Runs(M.cs), M.th["co"].ci # <<>>
        PROVE  AtRest(M.th["co"], NoOne)
    <3>1. AtRest(M.th["co"], Here)
      BY <1>1, <1>2, <2>1 DEF Inv, CoroutineInv
    <3> QED
      BY <1>4, <3>1 DEF AtRest
  <2>2. Quiet(M)
    BY <2>1 DEF Quiet
  <2> QED
    BY <1>1, <2>2 DEF Sound
<1> QED
  BY <1>2, <1>3, <1>4

(* luaD_call counts itself.                                                *)
LEMMA CallCounted ==
  ASSUME NEW m, Sound(m), Last(m.cs).k = "call", Last(m.cs).pc = "enter",
         NEW t, t = Last(m.cs).t
  PROVE  LET U == [Running(m) EXCEPT !.nC = @ + 1]
             r == [Update(m, t, U) EXCEPT !.cs[Len(m.cs)].pc = "in"]
         IN  Sound(r) /\ Running(r) = U /\ Last(r.cs) = [Last(m.cs) EXCEPT !.pc = "in"]
             /\ r.cs = [m.cs EXCEPT ![Len(m.cs)] = [Last(m.cs) EXCEPT !.pc = "in"]]
<1> DEFINE L == Len(m.cs)
           a == Last(m.cs)
           b == [a EXCEPT !.pc = "in"]
           T == Running(m)
           U == [T EXCEPT !.nC = T.nC + 1]
           s == [m.cs EXCEPT ![L] = b]
           r == [Update(m, t, U) EXCEPT !.cs[Len(m.cs)].pc = "in"]
           p == a.func
           q == Len(T.ci)
<1>1. PICK d, e \in [DOMAIN m.cs -> Nat] : Inv(m, d, e)
  BY DEF Sound
<1> DEFINE d1 == [d EXCEPT ![L] = d[L] - FramesIn(m.cs[L]) + FramesIn(b)]
           e1 == [e EXCEPT ![L] = e[L] - Adds(m.cs[L]) + Adds(b)]
<1>2. /\ m \in State /\ m.cs \in Seq(Activation) /\ L \in Nat \ {0} /\ DOMAIN m.cs = 1 .. L
      /\ a = m.cs[L] /\ a \in Activation /\ t \in Threads /\ T = m.th[t] /\ L > 1
      /\ a.k = "call" /\ p \in Nat /\ Low(Frame(T)) <= p
      /\ T \in Thread /\ FramesInv(T) /\ T.nC \in Nat /\ q \in Nat \ {0}
      /\ T.stk \in Seq(Value) /\ Len(T.stk) \in Nat
  BY SoundFacts
<1>3. /\ d \in [1 .. L -> Nat] /\ e \in [1 .. L -> Nat] /\ q = d[L] /\ T.nC = e[L]
      /\ L \in 1 .. L
  BY <1>1, <1>2, RunningFacts
<1>0. L = Len(m.cs) /\ StackInv(m.cs, d, e) /\ L \in 2 .. L
  BY <1>1, <1>2 DEF Inv
<1>4. AboveAll(m, p) /\ p <= Len(T.stk) + 1
  BY CallFloor
<1> HIDE DEF L, T
<1>5. /\ b \in Activation /\ b.k = "call" /\ b.t = t /\ b.pc = "in" /\ b.func = p
      /\ b.want = a.want
  BY <1>2 DEF Activation
<1>6. /\ U \in Thread /\ U.stk = T.stk /\ U.ci = T.ci /\ U.base = T.base /\ U.open = T.open
      /\ U.over = T.over /\ U.status = T.status /\ U.baseC = T.baseC /\ U.nC = T.nC + 1
  <2>1. T.nC + 1 \in Int
    BY <1>2
  <2> QED
    BY <1>2, <2>1 DEF Thread
<1> HIDE DEF U
<1>7. FramesInv(U)
  <2>1. FramesInv(T)
    BY <1>2
  <2>2. /\ U.stk = T.stk /\ U.ci = T.ci /\ U.base = T.base /\ U.open = T.open
        /\ U.over = T.over
    BY <1>6
  <2> QED
    BY <2>1, <2>2 DEF FramesInv, FrameInv, SizeCI, Frame
<1>8. s \in Seq(Activation) /\ Len(s) = L /\ \A i \in 1 .. L : s[i] = IF i = L THEN b ELSE m.cs[i]
  BY <1>2, <1>3, <1>5, ExceptSeq
<1>9. /\ r \in State /\ r.cs = s /\ r.th = [m.th EXCEPT ![t] = U]
  <2>1. Update(m, t, U) \in State /\ Update(m, t, U).cs = m.cs
    BY <1>2, <1>6, Updated
  <2>2. r = [Update(m, t, U) EXCEPT !.cs = s]
    BY <1>0, <1>2, <2>1
  <2>3. r.cs = s /\ r.th = Update(m, t, U).th
    BY <2>1, <2>2 DEF State
  <2>4. r \in State
    BY <1>8, <2>1, <2>2 DEF State
  <2> QED
    BY <1>2, <2>3, <2>4 DEF Update, State
<1>10. StackInv(s, d1, e1)
  <2>1. b.k = m.cs[L].k /\ b.t = m.cs[L].t /\ b.k # "exec"
    BY <1>2, <1>5
  <2> HIDE DEF b
  <2> QED
    BY <1>0, <1>2, <1>5, <2>1, StackTop
<1>11. FramesIn(m.cs[L]) = 0 /\ FramesIn(b) = 0 /\ Adds(m.cs[L]) = 0 /\ Adds(b) = 1
  BY <1>2, <1>5 DEF FramesIn, Adds, Nested
<1> HIDE DEF b, a
<1>12. /\ d1[L] = d[L] /\ e1[L] = e[L] + 1
       /\ \A i \in 1 .. L - 1 : d1[i] = d[i] /\ e1[i] = e[i]
  BY <1>2, <1>3, <1>11
<1> HIDE DEF s, d1, e1, r
<1>13. L = (L - 1) + 1 /\ L - 1 \in 0 .. L /\ L - 1 < L
  BY <1>2
<1>14. Keeps(T.stk, U.stk, p - 1)
  <2>1. p - 1 <= Len(T.stk) /\ U.stk = T.stk
    <3>1. p \in Nat /\ Len(T.stk) \in Nat
      BY <1>2
    <3> HIDE DEF p
    <3> QED
      BY <1>4, <1>6, <3>1
  <2> HIDE DEF p
  <2> QED
    BY <2>1 DEF Keeps
<1>15. OneMore(m, d, e, r, d1, e1, L - 1, p, q, b, U)
  <2>1. /\ L - 1 \in 0 .. Len(m.cs) /\ L - 1 < Len(m.cs)
        /\ r \in State /\ StackInv(r.cs, d1, e1) /\ Len(r.cs) = (L - 1) + 1
    BY <1>0, <1>8, <1>9, <1>10, <1>13
  <2>2. \A i \in 1 .. L - 1 : r.cs[i] = m.cs[i] /\ d1[i] = d[i] /\ e1[i] = e[i]
    BY <1>2, <1>8, <1>9, <1>12
  <2>3. /\ b = r.cs[(L - 1) + 1] /\ b.t = Last(m.cs).t /\ b.k # "resume"
        /\ Owns(b) => p <= Floor(b)
    BY <1>2, <1>3, <1>5, <1>8, <1>9, <1>13 DEF Owns, Floor
  <2>4. /\ \A u \in Threads : u # t => r.th[u] = m.th[u]
        /\ U = r.th[t]
    BY <1>2, <1>9 DEF State
  <2>5. \A i \in 1 .. L - 1 : m.cs[i].t = t /\ Owns(m.cs[i]) => Floor(m.cs[i]) <= p
    <3>1. \A i \in 1 .. L - 1 : i \in DOMAIN m.cs
      BY <1>2
    <3>2. \A i \in DOMAIN m.cs : m.cs[i].t = t /\ Owns(m.cs[i]) => Floor(m.cs[i]) <= p
      BY <1>4 DEF AboveAll
    <3> QED
      BY <3>1, <3>2
  <2>6. \A i \in 1 .. L - 1 : m.cs[i].t = t => d[i] <= q
    BY <1>0, <1>1, <1>2, ActivationsBelow DEF T
  <2>7. \A j \in 1 .. Len(U.ci) : /\ j <= q => U.ci[j] = T.ci[j]
                                  /\ q < j => j > Len(T.ci) /\ p <= U.ci[j].func
    BY <1>2, <1>6
  <2>8. q <= Len(U.ci) /\ q <= Len(T.ci) /\ q \in Nat
    BY <1>2, <1>6
  <2>9. FramesInv(U) /\ U.status = T.status /\ U.baseC = T.baseC
    BY <1>6, <1>7
  <2> QED
    BY <1>2, <1>14, <2>1, <2>2, <2>3, <2>4, <2>5, <2>6, <2>7, <2>8, <2>9 DEF OneMore, T
<1>16. ActivationInv(r, d1, e1, L)
  <2>1. r.cs[L] = b /\ r.th[b.t] = U
    BY <1>2, <1>3, <1>5, <1>8, <1>9 DEF State
  <2>2. d1[L] \in DOMAIN U.ci /\ Len(U.ci) = d1[L] /\ U.nC = e1[L]
    <3>1. DOMAIN T.ci = 1 .. Len(T.ci)
      BY <1>2, ThreadFacts
    <3> QED
      BY <1>2, <1>3, <1>6, <1>12, <3>1
  <2>3. Owns(b) /\ Floor(b) = p
    BY <1>5 DEF Owns, Floor
  <2>4. Low(U.ci[d1[L]]) <= p /\ p <= Len(U.stk) + 1
    <3>1. Frame(T) = T.ci[q]
      BY <1>2, FramesFacts
    <3> QED
      BY <1>2, <1>3, <1>4, <1>6, <1>12, <3>1
  <2>5. \A j \in DOMAIN U.ci : ~(d1[L] < j)
    <3>1. DOMAIN T.ci = 1 .. Len(T.ci)
      BY <1>2, ThreadFacts
    <3> QED
      BY <1>2, <1>3, <1>6, <1>12, <3>1
  <2>6. \A j \in DOMAIN r.cs : ~(L < j)
    BY <1>2, <1>8, <1>9
  <2> QED
    BY <1>5, <2>1, <2>2, <2>3, <2>4, <2>5, <2>6 DEF ActivationInv
<1>17. Inv(r, d1, e1) /\ Quiet(r) /\ Last(r.cs) = b /\ Running(r) = U
  <2>1. Quiet(m) /\ ActivationInv(r, d1, e1, (L - 1) + 1)
    BY <1>13, <1>16 DEF Sound
  <2> QED
    BY <1>1, <1>15, <2>1, OneNew
<1>18. Sound(r)
  BY <1>17, SoundFrom
<1> QED
  BY <1>9, <1>17, <1>18 DEF r, U, T, b, a, s, L

(* The Lua function called runs: in a luaV_execute of its own, or in the   *)
(* one of its caller.                                                      *)
LEMMA EnteredGood ==
  ASSUME NEW m, Sound(m), Begun(m), Last(m.cs).k \in {"call", "resume"},
         NEW t, t = Last(m.cs).t, NEW func, AboveAll(m, func), Running(m).nC < ErrCCalls,
         NEW want, NEW U, Calls1(Running(m), func, want, TRUE, U)
  PROVE  Good([Update(m, t, U) EXCEPT !.cs = Append(m.cs, [k |-> "exec", t |-> t, n |-> 1])])
<1> DEFINE b == [k |-> "exec", t |-> t, n |-> 1]
           T == Running(m)
           r == Enter(Update(m, t, U), b)
<1>1. /\ t \in Threads /\ Len(T.ci) \in Nat \ {0} /\ m \in State /\ func \in Nat
  BY SoundFacts DEF AboveAll
<1>2. b \in Activation /\ b.k = "exec" /\ b.t = t /\ b.n = 1 /\ FramesIn(b) = 1
  BY <1>1 DEF Activation, FramesIn
<1>3. [Update(m, t, U) EXCEPT !.cs = Append(m.cs, b)] = r
  BY DEF Update, Enter
<1> HIDE DEF b, T
<1>4. Above(Last(m.cs), b)
  BY <1>2 DEF Above, Begun
<1>5. Calls1(T, func, want, TRUE, U)
  BY DEF T
<1>6. Len(U.ci) = Len(T.ci) + 1 /\ \A x \in 1 .. Len(T.ci) : U.ci[x] = T.ci[x]
  BY <1>5 DEF Calls1
<1>7. \A j \in 1 .. Len(U.ci) : j <= Len(T.ci) => U.ci[j] = T.ci[j]
  BY <1>1, <1>6
<1>8. ASSUME NEW j \in 1 .. Len(U.ci), Len(T.ci) < j
      PROVE  func <= U.ci[j].func /\ U.ci[j].lua = (b.k = "exec")
  <2>1. j = Len(T.ci) + 1
    BY <1>1, <1>6, <1>8
  <2>2. U.ci[j].func = func /\ U.ci[j].lua = TRUE
    BY <1>5, <2>1 DEF Calls1
  <2>3. (b.k = "exec") = TRUE
    BY <1>2
  <2>4. func <= U.ci[j].func
    BY <1>1, <2>2
  <2>5. U.ci[j].lua = (b.k = "exec")
    BY <2>2, <2>3
  <2> QED
    BY <2>4, <2>5
<1>9. EnterWith(m, r, func, b, U)
  <2>1. /\ U \in Thread /\ FramesInv(U) /\ Keeps(T.stk, U.stk, func - 1)
        /\ U.nC = T.nC /\ U.status = T.status /\ U.baseC = T.baseC
    BY <1>5 DEF Calls1
  <2>2. Len(U.ci) = Len(T.ci) + FramesIn(b)
    BY <1>2, <1>6
  <2> HIDE DEF r
  <2> QED
    BY <1>2, <1>4, <1>7, <1>8, <2>1, <2>2 DEF EnterWith, T, r
<1> HIDE DEF r
<1>10. Sound(r) /\ Running(r) = U /\ Last(r.cs) = b
  BY <1>9, SoundEnter
<1>11. U.nC < ErrCCalls
  BY <1>5 DEF Calls1, T
<1>12. Good(r)
  BY <1>2, <1>10, <1>11, GoodTop
<1> QED
  BY <1>3, <1>12 DEF b

LEMMA EnteredHere ==
  ASSUME NEW m, Sound(m), Last(m.cs).k = "exec", NEW t, t = Last(m.cs).t, NEW func,
         AboveAll(m, func), Running(m).nC < ErrCCalls,
         NEW want, NEW U, Calls1(Running(m), func, want, TRUE, U)
  PROVE  Good([Update(m, t, U) EXCEPT !.cs = [m.cs EXCEPT ![Len(m.cs)].n = @ + 1]])
<1> DEFINE L == Len(m.cs)
           a == Last(m.cs)
           T == Running(m)
           k == a.n + 1
           q == Len(T.ci)
           r == [Update(m, a.t, U) EXCEPT !.cs[L] = [a EXCEPT !.n = k]]
<1>1. /\ t \in Threads /\ q \in Nat \ {0} /\ m \in State /\ func \in Nat /\ a.n \in Nat \ {0}
      /\ a.n < q /\ a = m.cs[L] /\ DOMAIN m.cs = 1 .. L /\ L \in Nat \ {0}
  BY SoundFacts DEF AboveAll
<1>2. [Update(m, t, U) EXCEPT !.cs = [m.cs EXCEPT ![L].n = @ + 1]] = r
  BY <1>1 DEF Update
<1> HIDE DEF T
<1>3. Calls1(T, func, want, TRUE, U)
  BY DEF T
<1>4. Len(U.ci) = q + 1 /\ \A x \in 1 .. q : U.ci[x] = T.ci[x]
  BY <1>3 DEF Calls1
<1>5. ExecWith(m, r, k, func, q, U)
  <2>1. /\ U \in Thread /\ FramesInv(U) /\ Keeps(T.stk, U.stk, func - 1)
        /\ U.nC = T.nC /\ U.status = T.status /\ U.baseC = T.baseC
    BY <1>3 DEF Calls1
  <2>2. /\ Len(U.ci) = (q - a.n) + k /\ q <= Len(U.ci) /\ q <= q /\ q - a.n <= q
        /\ k \in Nat \ {0} /\ q \in Nat
    <3> HIDE DEF a, q
    <3> QED
      BY <1>1, <1>4
  <2>3. \A j \in 1 .. Len(U.ci) :
          /\ j <= q => U.ci[j] = T.ci[j]
          /\ q < j => j > q /\ func <= U.ci[j].func /\ U.ci[j].lua
    <3>1. \A j \in 1 .. Len(U.ci) : j <= q => U.ci[j] = T.ci[j]
      BY <1>1, <1>4
    <3>2. ASSUME NEW j \in 1 .. Len(U.ci), q < j
          PROVE  j > q /\ func <= U.ci[j].func /\ U.ci[j].lua
      <4>1. j = q + 1
        BY <1>1, <1>4, <3>2
      <4>2. U.ci[j].func = func /\ U.ci[j].lua = TRUE
        BY <1>3, <4>1 DEF Calls1
      <4> QED
        BY <1>1, <3>2, <4>2
    <3> QED
      BY <3>1, <3>2
  <2>4. \A i \in 1 .. L - 1 : Owns(m.cs[i]) /\ m.cs[i].t = a.t => Floor(m.cs[i]) <= func
    <3>1. \A i \in 1 .. L - 1 : i \in DOMAIN m.cs
      BY <1>1
    <3>2. \A i \in DOMAIN m.cs : Owns(m.cs[i]) /\ m.cs[i].t = a.t => Floor(m.cs[i]) <= func
      BY DEF AboveAll
    <3> QED
      BY <3>1, <3>2
  <2> HIDE DEF k, L, a
  <2>5. /\ a.k = "exec" /\ func \in Nat /\ L = Len(m.cs) /\ a = Last(m.cs)
    BY <1>1 DEF a, L
  <2> QED
    BY <2>1, <2>2, <2>3, <2>4, <2>5 DEF ExecWith, T
<1> HIDE DEF r
<1>6. Sound(r) /\ Running(r) = U /\ Last(r.cs) = [a EXCEPT !.n = k]
  BY <1>5, SoundExec
<1>7. U.nC < ErrCCalls
  BY <1>3 DEF Calls1, T
<1>8. [a EXCEPT !.n = k].k = "exec"
  <2>1. a \in Activation /\ a.k = "exec"
    BY SoundFacts
  <2> QED
    BY <2>1 DEF Activation
<1>9. Good(r)
  BY <1>6, <1>7, <1>8, GoodTop
<1> QED
  BY <1>2, <1>9

LEMMA LuaDCallStep ==
  ASSUME IInv, LuaDCall
  PROVE  IInv'
<1> DEFINE t == Here.t
           T == [Now EXCEPT !.nC = @ + 1]
           m == [Update(M, t, T) EXCEPT !.cs[Len(cs)].pc = "in"]
           b == [k |-> "exec", t |-> t, n |-> 1]
           r == CASE T.nC = MaxCCalls -> RunError(m, t)
                  [] T.nC >= ErrCCalls -> Throw(m, ErrErr)
                  [] OTHER -> Precall(m, t, Here.func, Here.want, Append(m.cs, b))
<1>1. Here.k = "call" /\ Here.pc = "enter" /\ Become(r)
  BY DEF LuaDCall
<1>2. /\ M \in State /\ M.cs = cs /\ M.th = th /\ Last(M.cs) = Here /\ Running(M) = Now
      /\ Now.nC < ErrCCalls /\ Sound(M)
  BY <1>1, Starts
<1>3. Sound(m) /\ Running(m) = T /\ Last(m.cs) = [Here EXCEPT !.pc = "in"]
  <2>1. LET U == [Running(M) EXCEPT !.nC = @ + 1]
            u == [Update(M, t, U) EXCEPT !.cs[Len(M.cs)].pc = "in"]
        IN  Sound(u) /\ Running(u) = U /\ Last(u.cs) = [Last(M.cs) EXCEPT !.pc = "in"]
    BY <1>1, <1>2, CallCounted
  <2> QED
    BY <1>2, <2>1
<1>4. /\ Here \in Activation /\ t \in Threads /\ Here.func \in Nat /\ Here.want \in Result
      /\ Now \in Thread /\ Now.nC \in Nat
  BY <1>1, <1>2, SoundFacts
<1>5. Here.func <= Len(Now.stk)
  BY <1>1, <1>2, CallFloor
<1>6. /\ Last(m.cs).k = "call" /\ Last(m.cs).pc = "in" /\ Last(m.cs).t = t
      /\ Last(m.cs).func = Here.func
  BY <1>1, <1>3, <1>4 DEF Activation
<1>7. T.nC = Now.nC + 1 /\ T.stk = Now.stk /\ Len(T.stk) \in Nat
  BY <1>4 DEF Thread
<1> HIDE DEF m, T
<1>8. AboveAll(m, Here.func) /\ AboveAll(m, Len(T.stk) + 1) /\ Begun(m)
  <2>1. AboveAll(m, Here.func)
    BY <1>3, <1>6, CallFloor
  <2>2. Len(T.stk) + 1 \in Nat /\ Here.func <= Len(T.stk) + 1
    BY <1>4, <1>5, <1>7
  <2> QED
    BY <1>3, <1>6, <2>1, <2>2, AboveMore DEF Begun
<1>9. Good(r)
  <2> HIDE DEF r
  <2>0. /\ MaxCCalls \in Nat /\ ErrCCalls \in Nat /\ MaxCCalls < ErrCCalls
        /\ T.nC \in Nat /\ T.nC <= ErrCCalls
    BY <1>2, <1>4, <1>7, LimitsOrdered
  <2>1. CASE T.nC = MaxCCalls
    <3>1. r = RunError(m, t)
      BY <2>0, <2>1 DEF r
    <3>2. T.nC < ErrCCalls
      BY <2>0, <2>1
    <3> QED
      BY <1>3, <1>6, <1>8, <3>1, <3>2, RunErrorGood
  <2>2. CASE T.nC # MaxCCalls /\ T.nC >= ErrCCalls
    <3>1. r = Throw(m, ErrErr)
      BY <2>0, <2>2 DEF r
    <3>2. Nested(Last(m.cs)) /\ ErrErr \in Value /\ Last(m.cs).k # "jni"
      BY <1>6 DEF Nested, Value
    <3> QED
      BY <1>3, <2>0, <3>1, <3>2, ThrowGood
  <2>3. CASE T.nC # MaxCCalls /\ ~(T.nC >= ErrCCalls)
    <3> DEFINE x == Precall(m, t, Here.func, Here.want, Append(m.cs, b))
    <3>1. r = x
      BY <2>0, <2>3 DEF r
    <3>2. T.nC < ErrCCalls
      BY <2>0, <2>3
    <3>3. CanCall(m, t, Here.func, Here.want)
      BY <1>3, <1>4, <1>5, <1>6, <1>7, <1>8, <3>2 DEF CanCall
    <3>4. CASE Enters(m, t, Here.func, Here.want, Append(m.cs, b), x)
      <4>1. PICK U : /\ Calls1(Running(m), Here.func, Here.want, TRUE, U)
                     /\ x = [Update(m, t, U) EXCEPT !.cs = Append(m.cs, b)]
        BY <3>4 DEF Enters
      <4>2. Calls1(Running(m), Here.func, Here.want, TRUE, U) /\ Running(m).nC < ErrCCalls
            /\ Last(m.cs).k \in {"call", "resume"} /\ t = Last(m.cs).t
        BY <1>3, <1>6, <3>2, <4>1
      <4>3. Good([Update(m, t, U) EXCEPT !.cs = Append(m.cs, [k |-> "exec", t |-> t, n |-> 1])])
        BY <1>3, <1>8, <4>2, EnteredGood
      <4> QED
        BY <3>1, <4>1, <4>3
    <3>5. CASE Good(x)
      BY <3>1, <3>5
    <3>6. Enters(m, t, Here.func, Here.want, Append(m.cs, b), x) \/ Good(x)
      BY <3>3, PrecallCases
    <3> HIDE DEF x
    <3> QED
      BY <3>4, <3>5, <3>6
  <2> QED
    BY <2>1, <2>2, <2>3
<1> QED
  BY <1>1, <1>9, Becomes

(* A call instruction finds the callee and its arguments from register 1.  *)
LEMMA Loaded ==
  ASSUME NEW m, Sound(m), Last(m.cs).k = "exec", NEW t, t = Last(m.cs).t,
         NEW c \in Seq(Value)
  PROVE  LET T == Running(m)
             U == Load(T, c)
             r == Update(m, t, U)
         IN  /\ Sound(r) /\ Begun(r) /\ r.cs = m.cs /\ Running(r) = U
             /\ AboveAll(r, T.base + 1) /\ Len(U.stk) = T.base + Len(c) /\ U.nC = T.nC
             /\ U.ci = T.ci /\ T.base \in Nat /\ Len(c) \in Nat
<1> DEFINE T == Running(m)
           b == T.base
           p == Low(Frame(T))
           s == SubSeq(T.stk, 1, b) \o c
           U == [T EXCEPT !.stk = s]
           r == Update(m, t, U)
<1>1. /\ T \in Thread /\ FramesInv(T) /\ Frame(T).lua /\ T.stk \in Seq(Value)
      /\ Len(T.stk) \in Nat /\ p \in Nat /\ Len(T.stk) >= p - 1
  BY SoundFacts
<1>2. AboveAll(m, p) /\ Begun(m)
  BY RestAbove
<1>3. b \in Nat /\ p = b + 1
  <2>1. b = Frame(T).base /\ b \in Nat
    BY <1>1, FramesFacts
  <2> QED
    BY <1>1, <2>1 DEF Low
<1> HIDE DEF T, b, p
<1>4. s \in Seq(Value) /\ Len(s) = b + Len(c) /\ Keeps(T.stk, s, b) /\ Len(c) \in Nat
  <2>1. b \in 0 .. Len(T.stk)
    BY <1>1, <1>3
  <2> QED
    BY <1>1, <2>1, Upper
<1> HIDE DEF s
<1>5. Keeps(T.stk, s, p - 1)
  BY <1>3, <1>4
<1>6. U.stk = s /\ U.nC = T.nC /\ U.ci = T.ci
  BY <1>1 DEF Thread
<1>7. /\ Sound(r) /\ Begun(r) /\ AboveAll(r, p) /\ r.cs = m.cs /\ Running(r) = U
  <2>1. r = Update(m, Last(m.cs).t, [T EXCEPT !.stk = s])
    OBVIOUS
  <2> HIDE DEF r
  <2> QED
    BY <1>2, <1>4, <1>5, <2>1, SoundStack DEF T
<1>8. Load(T, c) = U
  BY DEF Load, s, b
<1> HIDE DEF U
<1> QED
  BY <1>3, <1>4, <1>6, <1>7, <1>8 DEF T, b, p

LEMMA ArgumentsAre ==
  ASSUME NEW c \in Calls \cup Entries \cup Metamethods
  PROVE  c \in Seq(Value) /\ c # <<>> /\ Len(c) \in Nat \ {0}
<1>1. c \in Seq(STRING) /\ c # <<>>
  BY ProgramAssumption
<1>2. STRING \subseteq Value
  BY DEF Value
<1>3. Seq(STRING) \subseteq Seq(Value)
  BY <1>2, SeqMonotonic
<1>4. c \in Seq(Value)
  BY <1>1, <1>3
<1>5. Len(c) \in Nat \ {0}
  BY <1>1
<1> QED
  BY <1>1, <1>4, <1>5

LEMMA OpCallStep ==
  ASSUME IInv, NEW c \in Callees, NEW want \in Wants, OpCall(c, want)
  PROVE  IInv'
<1> DEFINE t == Here.t
           m == Update(M, t, Load(Now, c))
           execs == [cs EXCEPT ![Len(cs)].n = @ + 1]
           x == Precall(m, t, Reg(1), want, execs)
<1>1. Here.k = "exec" /\ Become(x)
  BY DEF OpCall, Settled, InLua
<1>2. /\ M \in State /\ M.cs = cs /\ M.th = th /\ Last(M.cs) = Here /\ Running(M) = Now
      /\ Now.nC < ErrCCalls /\ Sound(M)
  BY <1>1, Starts
<1>3. c \in Seq(Value) /\ Len(c) \in Nat \ {0}
  <2>1. c \in Calls
    BY DEF Callees, Loadable
  <2> QED
    BY <2>1, ArgumentsAre
<1>4. /\ Sound(m) /\ Begun(m) /\ m.cs = cs /\ Running(m) = Load(Now, c)
      /\ AboveAll(m, Now.base + 1) /\ Len(Load(Now, c).stk) = Now.base + Len(c)
      /\ Load(Now, c).nC = Now.nC /\ Now.base \in Nat
  BY <1>1, <1>2, <1>3, Loaded
<1>5. want \in Result
  BY ProgramAssumption DEF Result
<1> HIDE DEF m
<1>6. CanCall(m, t, Reg(1), want)
  <2>1. Reg(1) = Now.base + 1 /\ Now.base + 1 <= Now.base + Len(c)
    BY <1>3, <1>4 DEF Reg
  <2> QED
    BY <1>1, <1>2, <1>4, <1>5, <2>1 DEF CanCall
<1>7. Good(x)
  <2>1. CASE Good(x)
    BY <2>1
  <2>2. CASE Enters(m, t, Reg(1), want, execs, x)
    <3>1. PICK U : /\ Calls1(Running(m), Reg(1), want, TRUE, U)
                   /\ x = [Update(m, t, U) EXCEPT !.cs = execs]
      BY <2>2 DEF Enters
    <3>2. x = [Update(m, t, U) EXCEPT !.cs = [m.cs EXCEPT ![Len(m.cs)].n = @ + 1]]
      BY <1>4, <3>1
    <3>3. AboveAll(m, Reg(1)) /\ Running(m).nC < ErrCCalls /\ Last(m.cs).k = "exec"
          /\ t = Last(m.cs).t /\ Sound(m)
      BY <1>1, <1>2, <1>4, <1>6 DEF CanCall
    <3> HIDE DEF x
    <3>4. Calls1(Running(m), Reg(1), want, TRUE, U)
      BY <3>1
    <3>5. Good([Update(m, t, U) EXCEPT !.cs = [m.cs EXCEPT ![Len(m.cs)].n = @ + 1]])
      BY <3>3, <3>4, EnteredHere
    <3> QED
      BY <3>2, <3>5
  <2> HIDE DEF x
  <2> QED
    BY <1>6, <2>1, <2>2, PrecallCases DEF x
<1> QED
  BY <1>1, <1>7, Becomes

(* A Lua function returns to the Lua function that called it.              *)
Shorter(m, t, U) ==
  [Update(m, t, U) EXCEPT !.cs[Len(m.cs)] = [Last(m.cs) EXCEPT !.n = @ - 1]]

LEMMA ExecReturned ==
  ASSUME NEW m, Sound(m), Last(m.cs).k = "exec", Last(m.cs).n > 1, NEW t, t = Last(m.cs).t,
         NEW U, Returned(Running(m), U)
  PROVE  LET r == Shorter(m, t, U)
         IN  /\ Sound(r) /\ Running(r) = U /\ Last(r.cs) = [Last(m.cs) EXCEPT !.n = @ - 1]
             /\ Len(r.cs) = Len(m.cs) /\ AboveAll(r, Frame(Running(m)).func)
<1> DEFINE L == Len(m.cs)
           a == Last(m.cs)
           T == Running(m)
           k == a.n - 1
           q == Len(T.ci)
           b == [a EXCEPT !.n = k]
           r == [Update(m, t, U) EXCEPT !.cs[L] = b]
           p == Frame(T).func
<1>1. /\ t \in Threads /\ q \in Nat \ {0} /\ m \in State /\ a.n \in Nat \ {0}
      /\ a.n < q /\ a = m.cs[L] /\ DOMAIN m.cs = 1 .. L /\ L \in Nat \ {0} /\ a \in Activation
      /\ T \in Thread /\ FramesInv(T) /\ T.ci \in Seq(CallInfo) /\ m.cs \in Seq(Activation)
      /\ T.stk \in Seq(Value) /\ Len(T.stk) \in Nat /\ a.k = "exec"
  BY SoundFacts, FramesFacts
<1>2. /\ q - 1 \in 1 .. q /\ q - 1 < q /\ Low(T.ci[q - 1]) <= p /\ p \in Nat
      /\ \A i \in 1 .. L - 1 : Owns(m.cs[i]) /\ m.cs[i].t = a.t => Floor(m.cs[i]) <= p
  BY FuncAbove
<1>3. Returned(T, U)
  OBVIOUS
<1> HIDE DEF T, p
<1>4. /\ U \in Thread /\ Keeps(T.stk, U.stk, p - 1)
      /\ U.ci = SubSeq(T.ci, 1, q - 1) /\ U.base = T.ci[q - 1].base /\ U.over = T.over
      /\ U.open = UNION {T.ci[i].captured : i \in 1 .. q - 1}
      /\ U.nC = T.nC /\ U.status = T.status /\ U.baseC = T.baseC
  BY <1>3 DEF Returned, p
<1>5. /\ Len(U.ci) = q - 1 /\ \A i \in 1 .. q - 1 : U.ci[i] = T.ci[i]
  <2>1. q - 1 \in 0 .. q
    BY <1>1
  <2> QED
    BY <1>1, <1>4, <2>1, Prefix
<1>6. FramesInv(U)
  <2>1. q - 1 <= SizeCI(U)
    <3>1. q <= SizeCI(T) /\ SizeCI(U) = SizeCI(T) /\ SizeCI(T) \in Nat
      BY <1>1, <1>4, LimitsOrdered DEF FramesInv, SizeCI
    <3> QED
      BY <1>1, <3>1
  <2> QED
    BY <1>1, <1>2, <1>4, <2>1, FramesCut
<1>7. ExecWith(m, r, k, p, q - 1, U)
  <2>1. /\ k \in Nat \ {0} /\ q - 1 \in Nat /\ Len(U.ci) = (q - a.n) + k
        /\ q - 1 <= Len(U.ci) /\ q - 1 <= q /\ q - a.n <= q - 1
    <3>1. a.n \in Nat /\ a.n > 1 /\ q \in Nat /\ a.n < q /\ Len(U.ci) = q - 1 /\ k = a.n - 1
      BY <1>1, <1>5
    <3> HIDE DEF a, q, k
    <3>2. \A x, y, z : x \in Nat /\ x > 1 /\ y \in Nat /\ x < y /\ z = x - 1 =>
            /\ z \in Nat \ {0} /\ y - 1 \in Nat /\ y - 1 = (y - x) + z
            /\ y - 1 <= y /\ y - x <= y - 1
      OBVIOUS
    <3>3. /\ k \in Nat \ {0} /\ q - 1 \in Nat /\ q - 1 = (q - a.n) + k
          /\ q - 1 <= q /\ q - a.n <= q - 1
      BY <3>1, <3>2
    <3> QED
      BY <3>1, <3>3
  <2>2. \A j \in 1 .. Len(U.ci) : /\ j <= q - 1 => U.ci[j] = T.ci[j]
                                  /\ q - 1 < j => FALSE
    BY <1>1, <1>5
  <2>3. \A j \in 1 .. Len(U.ci) :
          /\ j <= q - 1 => U.ci[j] = T.ci[j]
          /\ q - 1 < j => j > Len(T.ci) /\ p <= U.ci[j].func /\ U.ci[j].lua
    BY <2>2
  <2>4. r = [Update(m, a.t, U) EXCEPT !.cs[L] = b]
    OBVIOUS
  <2> HIDE DEF r, k
  <2> QED
    BY <1>1, <1>2, <1>4, <1>6, <2>1, <2>3, <2>4 DEF ExecWith, T
<1>8. /\ Sound(r) /\ Running(r) = U /\ Len(r.cs) = L /\ Last(r.cs) = b
  <2> HIDE DEF r
  <2> QED
    BY <1>7, SoundExec
<1>9. AboveAll(r, p)
  <2>1. r.cs = [m.cs EXCEPT ![L] = b]
    BY <1>1 DEF Update
  <2>2. b.t = a.t /\ b.k = "exec" /\ ~Owns(b)
    BY <1>1 DEF Activation, Owns
  <2>3. Low(Frame(U)) <= p
    <3>1. Frame(U) = T.ci[q - 1]
      <4>1. Frame(U) = U.ci[q - 1]
        BY <1>4, <1>5, <1>6, FramesFacts
      <4> QED
        BY <1>1, <1>2, <1>5, <4>1
    <3> QED
      BY <1>2, <3>1
  <2>4. \A i \in DOMAIN r.cs : i \in 1 .. L /\ r.cs[i] = IF i = L THEN b ELSE m.cs[i]
    BY <1>1, <2>1
  <2> HIDE DEF r, b
  <2>5. ASSUME NEW i \in DOMAIN r.cs, Owns(r.cs[i]), r.cs[i].t = a.t
        PROVE  Floor(r.cs[i]) <= p
    <3>1. i # L /\ i \in 1 .. L /\ r.cs[i] = m.cs[i]
      BY <2>2, <2>4, <2>5
    <3>2. i \in 1 .. L - 1
      BY <1>1, <3>1
    <3> QED
      BY <1>2, <2>5, <3>1, <3>2
  <2> QED
    BY <1>2, <1>8, <2>2, <2>3, <2>5 DEF AboveAll
<1>10. Shorter(m, t, U) = r
  BY DEF Shorter
<1> HIDE DEF r
<1> QED
  BY <1>8, <1>9, <1>10 DEF T, p

(* A tail call is a return of the frame that makes it, and a call in its   *)
(* place: B is what the thread would be in between.                        *)
Dropped(T) ==
  LET q == Len(T.ci)
  IN  [T EXCEPT !.ci = SubSeq(@, 1, q - 1), !.base = T.ci[q - 1].base,
                !.open = {x \in @ : x < T.base}]

LEMMA DroppedFacts ==
  ASSUME NEW T \in Thread, FramesInv(T), Len(T.ci) > 1
  PROVE  LET B == Dropped(T)
         IN  /\ Returned(T, B) /\ FramesInv(B) /\ B.stk = T.stk
             /\ Len(B.ci) = Len(T.ci) - 1 /\ Low(Frame(B)) <= Frame(T).func
             /\ Len(B.ci) < SizeCI(B) /\ B.open = {x \in T.open : x < T.base}
<1> DEFINE B == Dropped(T)
           q == Len(T.ci)
           p == Frame(T).func
           c == SubSeq(T.ci, 1, q - 1)
           o == {x \in T.open : x < T.base}
<1>1. /\ q \in Nat \ {0} /\ T.ci \in Seq(CallInfo) /\ T.base = T.ci[q].base /\ T.base \in Nat
      /\ Frame(T) = T.ci[q] /\ T.stk \in Seq(Value) /\ Len(T.stk) \in Nat
      /\ Len(T.stk) >= Low(T.ci[q]) - 1 /\ T.open \in SUBSET Nat
      /\ \A i, j \in 1 .. q : i < j => Low(T.ci[i]) <= T.ci[j].func
      /\ \A i \in 1 .. q : T.ci[i].func \in Nat /\ T.ci[i].base \in Nat /\ Low(T.ci[i]) \in Nat
                           /\ T.ci[i].func < Low(T.ci[i])
  BY FramesFacts DEF Thread
<1>2. /\ q - 1 \in 1 .. q /\ q - 1 < q /\ q \in 1 .. q /\ q - 1 \in 0 .. q
  BY <1>1
<1>3. Low(T.ci[q - 1]) <= p /\ p \in Nat /\ 0 < p /\ p < T.base
  <2>1. 0 < T.ci[q].func /\ T.ci[q].func < T.ci[q].base
    BY <1>2, FrameFacts
  <2> QED
    BY <1>1, <1>2, <2>1
<1>4. o = UNION {T.ci[i].captured : i \in 1 .. q - 1}
  <2>1. \A i \in 1 .. q - 1 : Low(T.ci[i]) <= T.base
    <3> SUFFICES ASSUME NEW i \in 1 .. q - 1 PROVE Low(T.ci[i]) <= T.base
      OBVIOUS
    <3>1. i \in 1 .. q /\ i < q
      BY <1>1
    <3>2. Low(T.ci[i]) <= T.ci[q].func /\ Low(T.ci[i]) \in Nat
      BY <1>1, <1>2, <3>1
    <3> QED
      BY <1>1, <1>3, <3>2
  <2>2. \A i \in (q - 1) + 1 .. q : T.base <= T.ci[i].base
    BY <1>1
  <2> QED
    BY <1>1, <1>2, <2>1, <2>2, OpenCut
<1>5. c \in Seq(CallInfo) /\ Len(c) = q - 1 /\ c[q - 1] = T.ci[q - 1] /\ c # <<>>
  <2>1. /\ c \in Seq(CallInfo) /\ Len(c) = q - 1 /\ \A i \in 1 .. q - 1 : c[i] = T.ci[i]
    BY <1>1, <1>2, Prefix
  <2>2. q - 1 \in 1 .. q - 1 /\ q - 1 # 0
    <3>1. q \in Nat /\ q - 1 \in 1 .. q
      BY <1>1, <1>2
    <3> HIDE DEF q
    <3> QED
      BY <3>1
  <2> QED
    BY <2>1, <2>2
<1>6. B = [T EXCEPT !.ci = c, !.base = T.ci[q - 1].base, !.open = o]
  BY DEF Dropped
<1>7. T.ci[q - 1].base \in Nat /\ o \in SUBSET Nat
  BY <1>1, <1>2
<1> HIDE DEF c, o
<1>8. /\ B \in Thread /\ B.ci = c /\ B.base = T.ci[q - 1].base /\ B.open = o
      /\ B.stk = T.stk /\ B.nC = T.nC /\ B.status = T.status /\ B.baseC = T.baseC
      /\ B.over = T.over
  <2> HIDE DEF B, q
  <2> QED
    BY <1>5, <1>6, <1>7 DEF Thread
<1> HIDE DEF B
<1>9. q - 1 < SizeCI(B)
  <2>1. q <= SizeCI(T) /\ SizeCI(B) = SizeCI(T) /\ SizeCI(T) \in Nat
    BY <1>1, <1>8, LimitsOrdered DEF FramesInv, SizeCI
  <2> QED
    BY <1>1, <2>1
<1>10. Keeps(T.stk, B.stk, p - 1)
  <2>1. p - 1 <= Len(T.stk) /\ p <= Low(T.ci[q]) - 1
    <3>1. p = T.ci[q].func /\ T.ci[q].func < Low(T.ci[q]) /\ Low(T.ci[q]) \in Nat
      BY <1>1, <1>2
    <3>2. p \in Nat /\ Len(T.stk) >= Low(T.ci[q]) - 1 /\ Len(T.stk) \in Nat
      BY <1>1, <1>3
    <3> HIDE DEF p, q
    <3> QED
      BY <3>1, <3>2
  <2> QED
    BY <1>8, <2>1 DEF Keeps
<1>11. Returned(T, B)
  BY <1>4, <1>8, <1>10 DEF Returned, c
<1>12. FramesInv(B)
  <2>1. q - 1 <= SizeCI(B)
    <3>1. SizeCI(B) \in Nat
      BY LimitsOrdered DEF SizeCI
    <3> QED
      BY <1>1, <1>9, <3>1
  <2>2. B.ci = SubSeq(T.ci, 1, q - 1) /\ B.open = UNION {T.ci[i].captured : i \in 1 .. q - 1}
    BY <1>4, <1>8 DEF c
  <2> HIDE DEF p, q
  <2> QED
    BY <1>2, <1>3, <1>8, <1>10, <2>1, <2>2, FramesCut DEF q
<1>13. Frame(B) = T.ci[q - 1]
  BY <1>5, <1>8, LastOf DEF Frame
<1> QED
  BY <1>3, <1>5, <1>8, <1>9, <1>11, <1>12, <1>13 DEF B, o

LEMMA ReplacedFacts ==
  ASSUME NEW T \in Thread, FramesInv(T), Len(T.ci) > 1, Frame(T).lua, NEW func \in Nat,
         Low(Frame(T)) <= func, NEW want, NEW U, Calls1(T, func, want, TRUE, U)
  PROVE  Calls1(Dropped(T), Frame(T).func, Frame(T).want, TRUE, Replace(U))
<1> DEFINE B == Dropped(T)
           q == Len(T.ci)
           old == T.ci[q]
           new == U.ci[q + 1]
           f == old.func
           x == SubSeq(U.stk, func, Len(U.stk))
           s == SubSeq(U.stk, 1, f - 1) \o x
           base == f + new.base - func
           top == Len(s) + 1
           under == [old.under EXCEPT ![f] = s[f]]
           c == [old EXCEPT !.base = base, !.top = top, !.captured = {}, !.under = under]
           ci == SubSeq(T.ci, 1, q - 1)
           o == {y \in T.open : y < T.base}
           R == [U EXCEPT !.open = o, !.stk = s, !.base = base, !.ci = Append(ci, c)]
<1>1. /\ B \in Thread /\ FramesInv(B) /\ B.stk = T.stk /\ Low(Frame(B)) <= f
      /\ Len(B.ci) < SizeCI(B) /\ B.open = o /\ B.ci = ci /\ B.over = T.over
      /\ B.nC = T.nC /\ B.status = T.status /\ B.baseC = T.baseC /\ ci \in Seq(CallInfo)
      /\ Frame(T) = old /\ q \in Nat \ {0} /\ old \in CallInfo /\ T.base = old.base
      /\ old.lua = TRUE /\ Low(old) = old.base + 1 /\ f \in Nat /\ old.base \in Nat
      /\ old.under \in Seq(Value) /\ Len(T.stk) \in Nat /\ T.stk \in Seq(Value)
  <2>1. /\ T.ci \in Seq(CallInfo) /\ q \in Nat \ {0} /\ Frame(T) = old /\ T.base = old.base
        /\ old \in CallInfo /\ old.lua \in BOOLEAN /\ Len(T.stk) \in Nat /\ T.stk \in Seq(Value)
        /\ f \in Nat /\ old.base \in Nat /\ old.under \in Seq(Value)
    BY FramesFacts
  <2>2. Low(old) = old.base + 1 /\ old.lua = TRUE
    BY <2>1 DEF Low
  <2>3. /\ Returned(T, B) /\ FramesInv(B) /\ B.stk = T.stk /\ Low(Frame(B)) <= Frame(T).func
        /\ Len(B.ci) < SizeCI(B) /\ B.open = o
    BY DroppedFacts
  <2>4. /\ B \in Thread /\ B.ci = ci /\ B.over = T.over
        /\ B.nC = T.nC /\ B.status = T.status /\ B.baseC = T.baseC
    BY <2>3 DEF Returned
  <2>5. B.ci \in Seq(CallInfo)
    BY <2>4 DEF Thread
  <2> HIDE DEF B, q, old, ci, o
  <2> QED
    BY <2>1, <2>2, <2>3, <2>4, <2>5 DEF f
<1>2. 0 < f /\ f < old.base /\ SubSeq(T.stk, 1, f) = old.under /\ f < func
  <2>1. q \in 1 .. q
    BY <1>1
  <2>2. 0 < f /\ f < old.base /\ SubSeq(T.stk, 1, f) = old.under
    BY <2>1, FrameFacts
  <2>3. old.base + 1 <= func
    BY <1>1
  <2>4. f < func
    <3>1. f \in Nat /\ old.base \in Nat /\ f < old.base
      BY <1>1, <2>2
    <3> HIDE DEF f, old
    <3> QED
      BY <2>3, <3>1
  <2> QED
    BY <2>2, <2>4
<1>3. /\ U \in Thread /\ FramesInv(U) /\ Keeps(T.stk, U.stk, func - 1)
      /\ Len(U.ci) = q + 1 /\ \A j \in 1 .. q : U.ci[j] = T.ci[j]
      /\ new.func = func /\ new.lua = TRUE
      /\ U.nC = T.nC /\ U.status = T.status /\ U.baseC = T.baseC /\ U.over = T.over
      /\ U.open = T.open
  BY DEF Calls1
<1>4. /\ U.ci \in Seq(CallInfo) /\ U.stk \in Seq(Value) /\ Len(U.stk) \in Nat
      /\ Frame(U) = new /\ new.base \in Nat /\ func < new.base /\ Len(U.stk) >= new.base
  <2>1. q + 1 \in 1 .. Len(U.ci)
    BY <1>1, <1>3
  <2>2. /\ U.ci \in Seq(CallInfo) /\ U.stk \in Seq(Value) /\ Len(U.stk) \in Nat
        /\ Frame(U) = new /\ new.base \in Nat /\ Len(U.stk) >= Low(new) - 1
    BY <1>3, <2>1, FramesFacts
  <2>3. Low(new) = new.base + 1 /\ new.func < new.base
    BY <1>3, <2>1, FrameFacts
  <2> HIDE DEF new
  <2> QED
    BY <1>3, <2>2, <2>3
<1>5. U.ci[Len(U.ci) - 1] = old /\ SubSeq(U.ci, 1, Len(U.ci) - 2) = ci
  <2>1. Len(U.ci) - 1 = q /\ Len(U.ci) - 2 = q - 1 /\ q \in 1 .. q
    BY <1>1, <1>3
  <2>2. U.ci[q] = T.ci[q]
    BY <1>3, <2>1
  <2>3. SubSeq(U.ci, 1, q - 1) = SubSeq(T.ci, 1, q - 1)
    <3>1. q - 1 \in Nat /\ \A j \in 1 .. q - 1 : j \in 1 .. q
      BY <1>1
    <3>2. \A j \in 1 .. q - 1 : U.ci[j] = T.ci[j]
      BY <1>3, <3>1
    <3> HIDE DEF q
    <3> QED
      BY <3>1, <3>2
  <2> QED
    BY <2>1, <2>2, <2>3
<1>6. /\ x \in Seq(Value) /\ Len(x) = Len(U.stk) - func + 1
  <2>1. func \in Nat \ {0} /\ func <= Len(U.stk)
    BY <1>1, <1>4
  <2>2. Len(U.stk) \in Int /\ Len(U.stk) <= Len(U.stk)
    BY <1>4
  <2>3. x \in Seq(Value)
    BY <1>4, <2>1, <2>2, Slice
  <2> QED
    BY <1>4, <2>1, <2>3
<1>7. /\ s \in Seq(Value) /\ Len(s) = (f - 1) + Len(x) /\ Keeps(U.stk, s, f - 1)
  <2>1. f - 1 \in 0 .. Len(U.stk)
    <3>1. f \in Nat /\ 0 < f /\ f < func /\ func < new.base /\ new.base <= Len(U.stk)
          /\ new.base \in Nat /\ Len(U.stk) \in Nat
      BY <1>1, <1>2, <1>4
    <3> HIDE DEF f, new
    <3> QED
      BY <3>1
  <2> HIDE DEF x, f
  <2> QED
    BY <1>4, <1>6, <2>1, Upper
<1>8. U.open = T.open /\ Replace(U) = R
  <2>1. Replace(U) = [Close(U, old.base) EXCEPT !.stk = s, !.base = base,
                        !.ci = Append(ci, c)]
    <3>1. Close(U, old.base) = [U EXCEPT !.open = {p \in U.open : p < old.base}]
      BY DEF Close
    <3>2. Close(U, old.base).stk = U.stk /\ Close(U, old.base).ci = U.ci
      BY <1>3, <3>1 DEF Thread
    <3>3. [old EXCEPT !.base = base, !.top = top, !.captured = {}, !.under[f] = s[f]] = c
      <4> HIDE DEF old, base, top, s
      <4> QED
        BY <1>1 DEF CallInfo, f
    <3> DEFINE S == Close(U, old.base)
    <3>4. Replace(U) = [S EXCEPT !.stk = s, !.base = base,
                          !.ci = Append(SubSeq(@, 1, Len(@) - 2),
                                   [old EXCEPT !.base = base, !.top = top,
                                               !.captured = {}, !.under[f] = s[f]])]
      <4>1. S.stk = U.stk /\ U.ci[Len(U.ci) - 1] = old /\ Frame(U) = new /\ new.func = func
        BY <1>3, <1>4, <1>5, <3>2
      <4> QED
        BY <4>1 DEF Replace
    <3> HIDE DEF c
    <3>5. Replace(U) = [S EXCEPT !.stk = s, !.base = base,
                          !.ci = Append(SubSeq(@, 1, Len(@) - 2), c)]
      BY <3>3, <3>4
    <3>6. SubSeq(S.ci, 1, Len(S.ci) - 2) = ci /\ S \in Thread
      <4>1. S \in Thread
        BY <1>3, <3>1 DEF Thread
      <4> QED
        BY <1>5, <3>2, <4>1
    <3> HIDE DEF S, s, base, ci
    <3> QED
      BY <3>5, <3>6 DEF S, Thread
  <2>2. Close(U, old.base) = [U EXCEPT !.open = o]
    BY <1>1, <1>3 DEF Close
  <2> QED
    BY <1>3, <2>1, <2>2
<1> HIDE DEF x
<1>9. /\ base \in Nat /\ f < base /\ top \in Nat /\ top > base /\ Len(s) >= base
      /\ f <= Len(s) /\ Len(s) \in Nat
  <2>1. /\ new.base \in Nat /\ func \in Nat /\ f \in Nat /\ Len(U.stk) \in Nat /\ 0 < f
        /\ func < new.base /\ new.base <= Len(U.stk) /\ f < func
    BY <1>1, <1>2, <1>4
  <2>2. Len(s) = (f - 1) + (Len(U.stk) - func + 1)
    BY <1>6, <1>7
  <2> HIDE DEF s, f, new
  <2> QED
    BY <2>1, <2>2
<1>10. /\ under \in Seq(Value) /\ under = SubSeq(s, 1, f)
  <2>1. old.under = SubSeq(T.stk, 1, f) /\ f \in 0 .. Len(T.stk) /\ f <= func - 1
    <3>1. f <= func - 1 /\ func - 1 <= Len(T.stk)
      BY <1>1, <1>2, <1>3 DEF Keeps
    <3> QED
      BY <1>1, <1>2, <3>1
  <2>2. /\ Len(old.under) = f /\ DOMAIN old.under = 1 .. f
        /\ \A i \in 1 .. f : old.under[i] = T.stk[i]
    <3> HIDE DEF f, old
    <3> QED
      BY <1>1, <2>1, Prefix
  <2>3. /\ SubSeq(s, 1, f) \in Seq(Value) /\ DOMAIN SubSeq(s, 1, f) = 1 .. f
        /\ \A i \in 1 .. f : SubSeq(s, 1, f)[i] = s[i]
    <3>1. f \in 0 .. Len(s)
      BY <1>1, <1>9
    <3> HIDE DEF f, s
    <3> QED
      BY <1>7, <3>1, Prefix
  <2>4. \A i \in 1 .. f : i # f => s[i] = T.stk[i]
    <3> SUFFICES ASSUME NEW i \in 1 .. f, i # f PROVE s[i] = T.stk[i]
      OBVIOUS
    <3>1. i \in 1 .. f - 1 /\ i \in 1 .. func - 1
      BY <1>1, <2>1
    <3> HIDE DEF f, s
    <3> QED
      BY <1>3, <1>7, <3>1 DEF Keeps
  <2>5. DOMAIN under = 1 .. f /\ \A i \in 1 .. f : under[i] = s[i]
    <3> HIDE DEF f, s, old
    <3> QED
      BY <2>2, <2>4
  <2>6. under = SubSeq(s, 1, f)
    <3>1. under = [i \in DOMAIN under |-> under[i]]
      BY DEF under
    <3>2. SubSeq(s, 1, f) = [i \in 1 .. f |-> SubSeq(s, 1, f)[i]]
      <4> DEFINE z == SubSeq(s, 1, f)
      <4>1. z \in Seq(Value) /\ DOMAIN z = 1 .. f
        BY <2>3
      <4> HIDE DEF z, f
      <4>2. z = [i \in 1 .. f |-> z[i]]
        BY <4>1
      <4> QED
        BY <4>2 DEF z
    <3> HIDE DEF under, f, s
    <3> QED
      BY <2>3, <2>5, <3>1, <3>2
  <2> QED
    BY <2>3, <2>6
<1> HIDE DEF s, top, base, under
<1>11. /\ c \in CallInfo /\ c.func = f /\ c.base = base /\ c.top = top /\ c.want = old.want
       /\ c.lua = TRUE /\ c.captured = {} /\ c.under = under
  BY <1>1, <1>9, <1>10 DEF CallInfo
<1> HIDE DEF c
<1>12. Append(ci, c) \in Seq(CallInfo) /\ o \in SUBSET Nat
  <2>1. T.open \in SUBSET Nat
    BY DEF Thread
  <2> QED
    BY <1>1, <1>11, <2>1, Appended
<1>13. /\ R \in Thread /\ R.ci = Append(ci, c) /\ R.base = base /\ R.open = o /\ R.stk = s
       /\ R.over = U.over /\ R.nC = U.nC /\ R.status = U.status /\ R.baseC = U.baseC
  <2> HIDE DEF ci, o
  <2> QED
    BY <1>3, <1>7, <1>9, <1>12 DEF Thread
<1> HIDE DEF R
<1>14. Keeps(B.stk, R.stk, c.func - 1)
  <2>1. Keeps(T.stk, U.stk, f - 1)
    <3>1. f - 1 \in Int /\ f - 1 <= func - 1 /\ func - 1 \in Int
      BY <1>1, <1>2
    <3> HIDE DEF f
    <3> QED
      BY <1>1, <1>3, <1>4, <3>1, KeepsLess
  <2> HIDE DEF f, B
  <2> QED
    BY <1>1, <1>7, <1>11, <1>13, <2>1, KeepsKeeps
<1>15. Low(c) = base + 1
  BY <1>11 DEF Low
<1> HIDE DEF B, o, ci, f
<1>16. Calls1(B, c.func, c.want, c.lua, R)
  <2>1. /\ R.ci = Append(B.ci, c) /\ R.base = c.base /\ R.over = B.over /\ R.open = B.open
        /\ R.nC = B.nC /\ R.status = B.status /\ R.baseC = B.baseC
    BY <1>1, <1>3, <1>11, <1>13
  <2>2. Low(Frame(B)) <= c.func /\ c.func < c.base /\ c.top > c.base
    BY <1>1, <1>9, <1>11
  <2>3. c.under = SubSeq(R.stk, 1, c.func) /\ Len(R.stk) >= Low(c) - 1
    BY <1>9, <1>10, <1>11, <1>13, <1>15
  <2> QED
    BY <1>1, <1>11, <1>13, <1>14, <2>1, <2>2, <2>3, FrameAdded
<1> QED
  BY <1>1, <1>8, <1>11, <1>16 DEF B, f

LEMMA ReplacedGood ==
  ASSUME NEW m, Sound(m), Last(m.cs).k = "exec", NEW t, t = Last(m.cs).t, NEW func,
         AboveAll(m, func), Running(m).nC < ErrCCalls,
         NEW want, NEW U, Calls1(Running(m), func, want, TRUE, U)
  PROVE  Good(Update(m, t, Replace(U)))
<1> DEFINE L == Len(m.cs)
           a == Last(m.cs)
           T == Running(m)
           B == Dropped(T)
           R == Replace(U)
           p == Frame(T).func
           w == Frame(T).want
<1>1. /\ t \in Threads /\ m \in State /\ a = m.cs[L] /\ DOMAIN m.cs = 1 .. L /\ a \in Activation
      /\ T \in Thread /\ FramesInv(T) /\ Len(T.ci) \in Nat /\ m.cs \in Seq(Activation)
      /\ a.k = "exec" /\ a.n \in Nat \ {0} /\ Frame(T).lua /\ m.cs # <<>> /\ L \in Nat \ {0}
      /\ a.n < Len(T.ci) /\ a.t = t
  BY SoundFacts
<1>2. Len(T.ci) > 1 /\ L > 1 /\ Above(m.cs[L - 1], a)
  BY <1>1, SoundFacts
<1>3. Returned(T, B) /\ B.nC = T.nC
  BY <1>1, <1>2, DroppedFacts DEF Returned
<1>4. Calls1(B, p, w, TRUE, R)
  <2>1. func \in Nat /\ Low(Frame(T)) <= func
    BY DEF AboveAll
  <2> QED
    BY <1>1, <1>2, <2>1, ReplacedFacts
<1> HIDE DEF B, R, T, p, w
<1>5. CASE a.n = 1
  <2> DEFINE m2 == PoppedWith(m, t, B)
             b == [k |-> "exec", t |-> t, n |-> 1]
  <2>1. /\ Sound(m2) /\ Begun(m2) /\ AboveAll(m2, p) /\ Last(m2.cs) = m.cs[L - 1]
        /\ Running(m2) = B
    BY <1>1, <1>3, <1>5, FrameReturned DEF T, p
  <2>2. Last(m2.cs).k \in {"call", "resume"} /\ t = Last(m2.cs).t
    BY <1>1, <1>2, <2>1 DEF Above
  <2>3. Running(m2).nC < ErrCCalls
    BY <1>3, <2>1 DEF T
  <2>4. a = b
    BY <1>1, <1>5 DEF Activation
  <2>5. m2.cs = Front(m.cs)
    BY <1>1 DEF PoppedWith, Leave, Update, State
  <2>6. Append(m2.cs, b) = m.cs
    <3>1. Front(m.cs) = SubSeq(m.cs, 1, L - 1)
      BY <1>1, LastOf
    <3>2. m.cs = Append(SubSeq(m.cs, 1, L - 1), m.cs[L])
      BY <1>1, <1>2
    <3> HIDE DEF m2, b
    <3> QED
      BY <1>1, <2>4, <2>5, <3>1, <3>2
  <2>7. [Update(m2, t, R) EXCEPT !.cs = m.cs] = Update(m, t, R)
    BY <1>1 DEF PoppedWith, Leave, Update, State
  <2> HIDE DEF m2
  <2>8. Calls1(Running(m2), p, w, TRUE, R)
    BY <1>4, <2>1
  <2>9. Good([Update(m2, t, R) EXCEPT !.cs = Append(m2.cs, [k |-> "exec", t |-> t, n |-> 1])])
    BY <2>1, <2>2, <2>3, <2>8, EnteredGood
  <2> QED
    BY <2>6, <2>7, <2>9 DEF R
<1>6. CASE a.n > 1
  <2> DEFINE b == [a EXCEPT !.n = @ - 1]
             m2 == [Update(m, t, B) EXCEPT !.cs[L] = b]
  <2>1. Sound(m2) /\ Running(m2) = B /\ Last(m2.cs) = b /\ Len(m2.cs) = L /\ AboveAll(m2, p)
    <3>1. m2 = Shorter(m, t, B)
      BY DEF Shorter
    <3>2. LET x == Shorter(m, t, B)
          IN  Sound(x) /\ Running(x) = B /\ Last(x.cs) = b /\ Len(x.cs) = L /\ AboveAll(x, p)
      BY <1>1, <1>3, <1>6, ExecReturned DEF T, p
    <3> HIDE DEF m2, b, p
    <3> QED
      BY <3>1, <3>2
  <2>2. /\ b.k = "exec" /\ b.t = t /\ [b EXCEPT !.n = @ + 1] = a
    <3>1. a \in [k : {"exec"}, t : Threads, n : Nat]
      BY <1>1 DEF Activation
    <3> HIDE DEF a
    <3>2. b.k = "exec" /\ b.t = t /\ b.n = a.n - 1
      BY <1>1, <3>1
    <3>3. (a.n - 1) + 1 = a.n
      BY <1>1
    <3>4. [b EXCEPT !.n = @ + 1] = [a EXCEPT !.n = (a.n - 1) + 1]
      BY <3>1, <3>2
    <3>5. [a EXCEPT !.n = a.n] = a
      BY <3>1
    <3> HIDE DEF b
    <3> QED
      BY <3>2, <3>3, <3>4, <3>5
  <2>3. m2.cs = [m.cs EXCEPT ![L] = b]
    BY <1>1 DEF Update, State
  <2>4. [m2.cs EXCEPT ![Len(m2.cs)].n = @ + 1] = m.cs
    <3>1. L \in 1 .. L
      BY <1>1
    <3>2. m2.cs[L] = b
      BY <1>1, <2>3, <3>1
    <3>3. [m2.cs EXCEPT ![L].n = @ + 1] = [m2.cs EXCEPT ![L] = a]
      <4> HIDE DEF b, m2, a
      <4> QED
        BY <2>2, <3>2
    <3>4. [m2.cs EXCEPT ![L] = a] = m.cs
      <4> HIDE DEF b, a, m2
      <4> QED
        BY <1>1, <2>3, <3>1
    <3> QED
      BY <2>1, <3>3, <3>4
  <2>5. [Update(m2, t, R) EXCEPT !.cs = m.cs] = Update(m, t, R)
    BY <1>1 DEF Update, State
  <2> HIDE DEF m2, b
  <2>6. Calls1(Running(m2), p, w, TRUE, R) /\ Running(m2).nC < ErrCCalls
    BY <1>3, <1>4, <2>1 DEF T
  <2>7. Good([Update(m2, t, R) EXCEPT !.cs = [m2.cs EXCEPT ![Len(m2.cs)].n = @ + 1]])
    BY <2>1, <2>2, <2>6, EnteredHere
  <2> QED
    BY <2>4, <2>5, <2>7 DEF R
<1> QED
  BY <1>1, <1>5, <1>6

LEMMA OpTailCallStep ==
  ASSUME IInv, NEW c \in Callees, OpTailCall(c)
  PROVE  IInv'
<1> DEFINE t == Here.t
           m == Update(M, t, Load(Now, c))
           x == Precall(m, t, Reg(1), MultRet, cs)
           T == x.th[t]
           r == IF Len(T.ci) > Len(Now.ci) /\ Frame(T).lua
                THEN Update(x, t, Replace(T)) ELSE x
<1>1. Here.k = "exec" /\ Become(r)
  BY DEF OpTailCall, Settled, InLua
<1>2. /\ M \in State /\ M.cs = cs /\ M.th = th /\ Last(M.cs) = Here /\ Running(M) = Now
      /\ Now.nC < ErrCCalls /\ Sound(M)
  BY <1>1, Starts
<1>3. c \in Seq(Value) /\ Len(c) \in Nat \ {0}
  <2>1. c \in Calls
    BY DEF Callees, Loadable
  <2> QED
    BY <2>1, ArgumentsAre
<1>4. /\ Sound(m) /\ Begun(m) /\ m.cs = cs /\ Running(m) = Load(Now, c)
      /\ AboveAll(m, Now.base + 1) /\ Len(Load(Now, c).stk) = Now.base + Len(c)
      /\ Load(Now, c).nC = Now.nC /\ Now.base \in Nat /\ Running(m).ci = Now.ci
  BY <1>1, <1>2, <1>3, Loaded
<1>5. Last(m.cs) = Here /\ t = Last(m.cs).t /\ m \in State /\ t \in Threads
      /\ Len(Now.ci) \in Nat
  <2>1. Last(m.cs) = Here
    BY <1>4 DEF Here
  <2> HIDE DEF m
  <2> QED
    BY <1>4, <2>1, SoundFacts
<1> HIDE DEF m
<1>6. CanCall(m, t, Reg(1), MultRet)
  <2>1. Reg(1) = Now.base + 1 /\ Now.base + 1 <= Now.base + Len(c)
    BY <1>3, <1>4 DEF Reg
  <2>2. MultRet \in Result
    BY DEF Result
  <2> QED
    BY <1>1, <1>2, <1>4, <1>5, <2>1, <2>2 DEF CanCall
<1>7. CASE Enters(m, t, Reg(1), MultRet, cs, x)
  <2>1. PICK U : /\ Calls1(Running(m), Reg(1), MultRet, TRUE, U)
                 /\ x = [Update(m, t, U) EXCEPT !.cs = cs]
    BY <1>7 DEF Enters
  <2>2. x = Update(m, t, U)
    <3>1. Update(m, t, U).cs = cs /\ Update(m, t, U) \in State
      <4>1. U \in Thread
        BY <2>1 DEF Calls1
      <4> QED
        BY <1>4, <1>5, <4>1, Updated
    <3> HIDE DEF x
    <3> QED
      BY <2>1, <3>1 DEF State
  <2> HIDE DEF x
  <2>3. T = U
    BY <1>5, <2>2 DEF Update, State
  <2>4. Len(U.ci) = Len(Now.ci) + 1 /\ Frame(U).lua
    <3>1. /\ U \in Thread /\ FramesInv(U) /\ Len(U.ci) = Len(Now.ci) + 1
          /\ U.ci[Len(Now.ci) + 1].lua = TRUE
      BY <1>4, <2>1 DEF Calls1
    <3>2. Frame(U) = U.ci[Len(U.ci)]
      BY <3>1, FramesFacts
    <3> QED
      BY <3>1, <3>2
  <2>5. r = Update(x, t, Replace(U))
    <3>1. Len(U.ci) > Len(Now.ci)
      BY <1>5, <2>4
    <3> QED
      BY <2>3, <2>4, <3>1
  <2>6. r = Update(m, t, Replace(U))
    BY <1>5, <2>2, <2>5, UpdateTwice
  <2>7. /\ AboveAll(m, Reg(1)) /\ Running(m).nC < ErrCCalls /\ Last(m.cs).k = "exec"
        /\ Sound(m) /\ Calls1(Running(m), Reg(1), MultRet, TRUE, U)
    BY <1>1, <1>5, <1>6, <2>1 DEF CanCall
  <2>8. Good(Update(m, t, Replace(U)))
    BY <1>5, <2>7, ReplacedGood
  <2> HIDE DEF r
  <2> QED
    BY <1>1, <2>6, <2>8, Becomes
<1>8. CASE Good(x) /\ NoLua(m, t, x)
  <2> HIDE DEF x
  <2>1. ~(Len(T.ci) > Len(Now.ci) /\ Frame(T).lua)
    <3>1. Len(T.ci) <= Len(Now.ci) \/ ~Frame(T).lua
      BY <1>4, <1>5, <1>8 DEF NoLua, Fewer
    <3>2. Len(T.ci) \in Nat
      <4>1. x \in State
        BY <1>8 DEF Good, Inv
      <4> QED
        BY <1>5, <4>1, ThreadFacts
    <3> QED
      BY <1>5, <3>1, <3>2
  <2>2. r = x
    BY <2>1
  <2> HIDE DEF r
  <2> QED
    BY <1>1, <1>8, <2>2, Becomes
<1>9. Enters(m, t, Reg(1), MultRet, cs, x) \/ (Good(x) /\ NoLua(m, t, x))
  BY <1>6, PrecallCases
<1> HIDE DEF x
<1> QED
  BY <1>7, <1>8, <1>9

(* The stack s is what OP_RETURN made of it: no more than the values above *)
(* the frame's base may be gone.                                           *)
LEMMA LuaReturned ==
  ASSUME NEW T \in Thread, FramesInv(T), Len(T.ci) > 1,
         NEW s \in Seq(Value), Keeps(T.stk, s, T.base - 1),
         NEW first \in Nat \ {0}, first <= Len(s) + 1
  PROVE  LET T1 == [T EXCEPT !.stk = s]
         IN  Returned(T, Poscall(Close(T1, T1.base), first))
<1> DEFINE T1 == [T EXCEPT !.stk = s]
           c == Frame(T)
           q == Len(T.ci)
           o == {x \in T.open : x < T.base}
           u == Back(s, c.func, first, c.want)
           f == SubSeq(T.ci, 1, q - 1)
           b == T.ci[q - 1].base
           C == Close(T1, T1.base)
           U == Poscall(C, first)
           B == Dropped(T)
<1>1. /\ T.stk \in Seq(Value) /\ T.ci \in Seq(CallInfo) /\ q \in Nat \ {0} /\ c = T.ci[q]
      /\ T.ci # <<>> /\ T.base = c.base /\ c.base \in Nat /\ c.func \in Nat /\ c.want \in Result
      /\ q - 1 \in 1 .. q /\ q \in 1 .. q /\ Len(s) \in Nat
  <2>1. T.ci # <<>>
    BY DEF FramesInv
  <2>2. q \in Nat \ {0} /\ q - 1 \in 1 .. q /\ q \in 1 .. q
    BY FramesFacts
  <2> QED
    BY <2>1, <2>2, FramesFacts
<1>2. 0 < c.func /\ c.func < T.base
  BY <1>1, FrameFacts
<1>3. /\ B \in Thread /\ B.ci = f /\ B.base = b
      /\ o = UNION {T.ci[i].captured : i \in 1 .. q - 1} /\ Returned(T, B)
  BY DroppedFacts DEF Returned
<1>4. f \in Seq(CallInfo) /\ b \in Nat /\ o \in SUBSET Nat
  BY <1>1, <1>3 DEF Thread
<1>5. u \in Seq(Value) /\ Keeps(s, u, c.func - 1)
  <2>1. c.func - 1 <= Len(s)
    BY <1>1, <1>2 DEF Keeps
  <2> HIDE DEF c
  <2> QED
    BY <1>1, <1>2, <2>1, BackFacts
<1>6. Keeps(T.stk, u, c.func - 1)
  <2>1. c.func - 1 \in Int /\ c.func - 1 <= T.base - 1 /\ T.base - 1 \in Int
        /\ Len(T.stk) \in Nat
    <3>1. c.func \in Nat /\ c.func < T.base /\ T.base \in Nat /\ Len(T.stk) \in Nat
      BY <1>1, <1>2
    <3> HIDE DEF c
    <3> QED
      BY <3>1
  <2>2. Keeps(T.stk, s, c.func - 1)
    BY <1>1, <2>1, KeepsLess
  <2> HIDE DEF c
  <2> QED
    BY <1>5, <2>2, KeepsKeeps
<1>7. /\ C = [T1 EXCEPT !.open = o] /\ C.stk = s /\ C.ci = T.ci
  BY DEF Close, Thread
<1> HIDE DEF C
<1>8. U = [C EXCEPT !.stk = u, !.ci = f, !.base = b]
  <2>1. Frame(C) = c
    BY <1>7 DEF Frame
  <2>2. Front(T.ci) = f
    BY <1>1, LastOf
  <2> HIDE DEF f, b, c
  <2>3. Poscall(C, first) = [C EXCEPT !.stk = u, !.ci = Front(T.ci), !.base = b]
    BY <1>7, <2>1 DEF Poscall, Back, Slots, Top, b
  <2> QED
    BY <2>2, <2>3
<1> HIDE DEF u, f, b, U, o
<1>9. /\ U \in Thread /\ U.stk = u /\ U.ci = f /\ U.base = b /\ U.open = o
      /\ U.over = T.over /\ U.nC = T.nC /\ U.status = T.status /\ U.baseC = T.baseC
  BY <1>4, <1>5, <1>7, <1>8 DEF Thread
<1> QED
  BY <1>3, <1>6, <1>9 DEF Returned, f, b, U, C

LEMMA ReturnLuaGood ==
  ASSUME IInv, Here.k = "exec", NEW s \in Seq(Value), Keeps(Now.stk, s, Now.base - 1),
         NEW r \in Nat, Now.base + r <= Len(s) + 1
  PROVE  Good(ReturnLua([Now EXCEPT !.stk = s], r))
<1> DEFINE t == Here.t
           T1 == [Now EXCEPT !.stk = s]
           first == Now.base + r
           S == Poscall(Close(T1, T1.base), first)
           want == Frame(T1).want
           m == Update(M, t, S)
           X == IF want = MultRet THEN S ELSE ToFrameTop(S)
           L == Len(cs)
           x == ReturnLua(T1, r)
<1>1. /\ M \in State /\ M.cs = cs /\ M.th = th /\ Last(M.cs) = Here /\ Running(M) = Now
      /\ Now.nC < ErrCCalls /\ Sound(M)
  BY Starts
<1>2. /\ t \in Threads /\ Now \in Thread /\ FramesInv(Now) /\ Len(Now.ci) > 1 /\ L > 1
      /\ L \in Nat /\ Here = cs[L] /\ Here.n \in Nat \ {0} /\ cs \in Seq(Activation)
      /\ Above(cs[L - 1], Here) /\ DOMAIN cs = 1 .. L /\ cs # <<>> /\ Here \in Activation
  <2>1. /\ t \in Threads /\ Now \in Thread /\ FramesInv(Now) /\ Len(Now.ci) \in Nat
        /\ L \in Nat /\ Here = cs[L] /\ Here.n \in Nat \ {0} /\ Here.n < Len(Now.ci) /\ L > 1
    BY <1>1, SoundFacts
  <2>2. cs \in Seq(Activation) /\ Above(cs[L - 1], Here) /\ DOMAIN cs = 1 .. L /\ cs # <<>>
        /\ Here \in Activation
    BY <1>1, SoundFacts
  <2> QED
    BY <2>1, <2>2
<1>3. Returned(Now, S)
  <2>1. first \in Nat \ {0} /\ first <= Len(s) + 1
    <3>1. Now.base \in Nat /\ 0 < Frame(Now).func /\ Frame(Now).func < Now.base
          /\ Frame(Now).func \in Nat
      <4>1. Len(Now.ci) \in 1 .. Len(Now.ci)
        BY <1>2, FramesFacts
      <4> QED
        BY <1>2, <4>1, FramesFacts, FrameFacts
    <3> QED
      BY <3>1
  <2> HIDE DEF first
  <2> QED
    BY <1>2, <2>1, LuaReturned
<1>4. T1.base = Now.base
  BY <1>2 DEF Thread
<1> HIDE DEF T1, first
<1>5. S \in Thread /\ S.nC < ErrCCalls
  BY <1>1, <1>3 DEF Returned
<1>6. x = CASE Here.n > 1 -> [Update(m, t, X) EXCEPT !.cs[L].n = @ - 1]
            [] Here.n = 1 /\ cs[L - 1].k = "call" -> FinishCall(Leave(m), t)
            [] Here.n = 1 /\ cs[L - 1].k = "resume" -> FinishResume(Leave(m))
  <2>1. x = CASE Here.n > 1 ->
             [Update(m, t, IF want = MultRet THEN S ELSE ToFrameTop(S))
                EXCEPT !.cs[L].n = @ - 1]
            [] Here.n = 1 /\ cs[L - 1].k = "call" -> FinishCall(Leave(m), t)
            [] Here.n = 1 /\ cs[L - 1].k = "resume" -> FinishResume(Leave(m))
    BY <1>4 DEF ReturnLua, first
  <2> QED
    BY <2>1
<1> HIDE DEF S, x, want
<1>7. CASE Here.n > 1
  <2> DEFINE b == [Here EXCEPT !.n = @ - 1]
             m2 == [Update(M, t, S) EXCEPT !.cs[L] = b]
  <2>1. Sound(m2) /\ Running(m2) = S /\ Last(m2.cs) = b
    <3>1. Last(M.cs).k = "exec" /\ Last(M.cs).n > 1 /\ t = Last(M.cs).t /\ Returned(Running(M), S)
      BY <1>1, <1>3, <1>7
    <3>2. m2 = Shorter(M, t, S)
      BY <1>1 DEF Shorter
    <3> HIDE DEF m2
    <3>3. Sound(M)
      BY <1>1
    <3>4. Sound(Shorter(M, t, S)) /\ Running(Shorter(M, t, S)) = S
          /\ Last(Shorter(M, t, S).cs) = [Last(M.cs) EXCEPT !.n = @ - 1]
      BY <3>1, <3>3, ExecReturned
    <3> QED
      BY <1>1, <3>2, <3>4
  <2>2. b.k = "exec" /\ b.t = t
    BY <1>2 DEF Activation
  <2>3. \A V : [Update(m, t, V) EXCEPT !.cs[L].n = @ - 1] = Update(m2, t, V)
    <3> SUFFICES ASSUME NEW V
                 PROVE  [Update(m, t, V) EXCEPT !.cs[L].n = @ - 1] = Update(m2, t, V)
      OBVIOUS
    <3>1. [cs EXCEPT ![L].n = @ - 1] = [cs EXCEPT ![L] = b]
      BY <1>2
    <3> HIDE DEF b
    <3> QED
      BY <1>1, <1>2, <3>1 DEF Update, State
  <2>4. Update(m2, t, S) = m2
    <3>1. m2 \in State /\ m2.th[t] = S
      BY <1>1, <2>1, <2>2, SoundFacts DEF Running
    <3> HIDE DEF m2
    <3> QED
      BY <3>1 DEF Update, State
  <2>5. x = Update(m2, t, X)
    <3>1. x = [Update(m, t, X) EXCEPT !.cs[L].n = @ - 1]
      BY <1>2, <1>6, <1>7
    <3> HIDE DEF m, m2, X
    <3> QED
      BY <2>3, <3>1
  <2> HIDE DEF m2, b
  <2>6. ASSUME want = MultRet PROVE Good(x)
    BY <1>5, <2>1, <2>2, <2>4, <2>5, <2>6, GoodTop
  <2>7. ASSUME want # MultRet PROVE Good(x)
    BY <1>5, <2>1, <2>2, <2>5, <2>7, ToFrameTopGood
  <2> QED
    BY <2>6, <2>7 DEF x, T1
<1>8. CASE Here.n = 1
  <2> DEFINE m2 == PoppedWith(M, t, S)
  <2>1. Sound(m2) /\ Begun(m2) /\ Last(m2.cs) = cs[L - 1] /\ Running(m2) = S
    BY <1>1, <1>3, <1>8, FrameReturned
  <2>2. cs[L - 1].k \in {"call", "resume"} /\ cs[L - 1].t = t
    BY <1>2 DEF Above
  <2>3. Leave(m) = m2
    BY <1>1 DEF Leave, Update, PoppedWith, State
  <2> HIDE DEF m2, m
  <2>4. x = Onward(m2, t, want)
    BY <1>6, <1>8, <2>1, <2>2, <2>3 DEF Onward
  <2>5. Good(Onward(m2, t, want))
    BY <1>5, <2>1, <2>2, OnwardGood
  <2> QED
    BY <2>4, <2>5 DEF x, T1
<1> QED
  BY <1>2, <1>7, <1>8

LEMMA OpReturnStep ==
  ASSUME IInv, NEW n \in 0 .. 1, OpReturn(n)
  PROVE  IInv'
<1> DEFINE s == Cut(Now.stk, Reg(n))
<1>1. Here.k = "exec" /\ Become(ReturnLua(CutTo(Now, Reg(n)), 0))
  BY DEF OpReturn, Settled, InLua
<1>2. M \in State /\ Last(M.cs) = Here /\ Running(M) = Now /\ Sound(M)
  BY <1>1, Starts
<1>3. /\ Now.stk \in Seq(Value) /\ Now.base \in Nat \ {0} /\ Len(Now.stk) >= Now.base
      /\ Len(Now.stk) \in Nat
  <2>1. /\ FramesInv(Now) /\ Now \in Thread /\ Frame(Now).lua /\ Len(Now.stk) >= Low(Frame(Now)) - 1
        /\ Now.stk \in Seq(Value) /\ Len(Now.stk) \in Nat
    BY <1>1, <1>2, SoundFacts
  <2>2. Len(Now.ci) \in 1 .. Len(Now.ci) /\ Frame(Now) = Now.ci[Len(Now.ci)]
        /\ Now.base = Frame(Now).base /\ Frame(Now).func \in Nat /\ Now.base \in Nat
    BY <2>1, FramesFacts
  <2>3. 0 < Frame(Now).func /\ Frame(Now).func < Now.base /\ Low(Frame(Now)) = Now.base + 1
    BY <2>1, <2>2, FrameFacts
  <2> QED
    BY <2>1, <2>2, <2>3
<1>4. Reg(n) = Now.base + n /\ Reg(n) \in Nat \ {0}
  BY <1>3 DEF Reg
<1>5. s \in Seq(Value) /\ Len(s) = Reg(n) - 1 /\ Keeps(Now.stk, s, Now.base - 1)
  <2>1. Now.base - 1 \in Int /\ Now.base - 1 <= Len(Now.stk) /\ Now.base - 1 < Reg(n)
    BY <1>3, <1>4
  <2> QED
    BY <1>3, <1>4, <2>1, CutFacts
<1>6. CutTo(Now, Reg(n)) = [Now EXCEPT !.stk = s]
  BY CutIs
<1> HIDE DEF s
<1>7. Now.base + 0 <= Len(s) + 1
  BY <1>3, <1>4, <1>5
<1>8. Good(ReturnLua([Now EXCEPT !.stk = s], 0))
  BY <1>1, <1>5, <1>7, ReturnLuaGood
<1> QED
  BY <1>1, <1>6, <1>8, Becomes

LEMMA OpReturnAllStep ==
  ASSUME IInv, OpReturnAll
  PROVE  IInv'
<1>1. Here.k = "exec" /\ Become(ReturnLua(Now, 1))
  BY DEF OpReturnAll, InLua
<1>2. M \in State /\ Last(M.cs) = Here /\ Running(M) = Now /\ Sound(M)
  BY <1>1, Starts
<1>3. /\ Now.stk \in Seq(Value) /\ Len(Now.stk) \in Nat /\ Now \in Thread
      /\ Now.base \in Nat /\ Len(Now.stk) >= Now.base
  <2>1. /\ FramesInv(Now) /\ Now \in Thread /\ Frame(Now).lua /\ Len(Now.stk) >= Low(Frame(Now)) - 1
        /\ Now.stk \in Seq(Value) /\ Len(Now.stk) \in Nat
    BY <1>1, <1>2, SoundFacts
  <2>2. Frame(Now) = Now.ci[Len(Now.ci)] /\ Now.base = Frame(Now).base /\ Now.base \in Nat
    BY <2>1, FramesFacts
  <2>3. Low(Frame(Now)) = Now.base + 1
    BY <2>1, <2>2 DEF Low
  <2> QED
    BY <2>1, <2>2, <2>3
<1>4. Keeps(Now.stk, Now.stk, Now.base - 1) /\ Now.base + 1 <= Len(Now.stk) + 1
  BY <1>3 DEF Keeps
<1>5. [Now EXCEPT !.stk = Now.stk] = Now
  BY <1>3 DEF Thread
<1>6. Good(ReturnLua([Now EXCEPT !.stk = Now.stk], 1))
  BY <1>1, <1>3, <1>4, ReturnLuaGood
<1> QED
  BY <1>1, <1>5, <1>6, Becomes

(* Other instructions of a Lua function: its stack above register 0, and   *)
(* the variables it shares.                                                *)
LEMMA LuaFacts ==
  ASSUME IInv, Here.k = "exec"
  PROVE  /\ M \in State /\ M.cs = cs /\ M.th = th /\ Last(M.cs) = Here /\ Running(M) = Now
         /\ Now.nC < ErrCCalls /\ Sound(M) /\ Begun(M) /\ Here.t \in Threads
         /\ Now \in Thread /\ FramesInv(Now) /\ Frame(Now).lua /\ Len(Now.ci) > 1
         /\ Now.stk \in Seq(Value) /\ Len(Now.stk) \in Nat /\ Len(Now.ci) \in Nat
         /\ Frame(Now) = Now.ci[Len(Now.ci)] /\ Now.base = Frame(Now).base
         /\ Now.base \in Nat /\ Low(Frame(Now)) = Now.base + 1 /\ Len(Now.stk) >= Now.base
         /\ AboveAll(M, Now.base + 1) /\ AboveAll(M, Len(Now.stk) + 1)
<1>1. /\ M \in State /\ M.cs = cs /\ M.th = th /\ Last(M.cs) = Here /\ Running(M) = Now
      /\ Now.nC < ErrCCalls /\ Sound(M)
  BY Starts
<1>2. /\ Here.t \in Threads /\ Now \in Thread /\ FramesInv(Now) /\ Frame(Now).lua
      /\ Now.stk \in Seq(Value) /\ Len(Now.stk) \in Nat /\ Len(Now.stk) >= Low(Frame(Now)) - 1
      /\ Frame(Now) = Now.ci[Len(Now.ci)] /\ Len(Now.ci) \in Nat
  BY <1>1, SoundFacts
<1>3. Now.base = Frame(Now).base /\ Now.base \in Nat
  BY <1>2, FramesFacts
<1>4. Low(Frame(Now)) = Now.base + 1
  BY <1>2, <1>3 DEF Low
<1>5. Len(Now.ci) > 1
  <2>1. Here.n \in Nat \ {0} /\ Here.n < Len(Now.ci)
    BY <1>1, SoundFacts
  <2> QED
    BY <1>2, <2>1
<1>6. AboveAll(M, Low(Frame(Running(M)))) /\ AboveAll(M, Len(Running(M).stk) + 1) /\ Begun(M)
  <2>1. Last(M.cs).k \in {"jni", "exec", "cfun"}
    BY <1>1
  <2> QED
    BY <1>1, <2>1, RestAbove
<1>7. Len(Now.stk) >= Now.base
  BY <1>2, <1>3, <1>4
<1> QED
  BY <1>1, <1>2, <1>3, <1>4, <1>5, <1>6, <1>7

LEMMA Associates ==
  ASSUME NEW s \in Seq(Value), NEW t \in Seq(Value), NEW u \in Seq(Value)
  PROVE  (s \o t) \o u = s \o (t \o u)
BY ConcatAssociative

LEMMA OpTForLoopStep ==
  ASSUME IInv, NEW c \in Callees \cap Iterators, OpTForLoop(c)
  PROVE  IInv'
<1> DEFINE t == Here.t
           U == Load(Now, c)
           m == Update(M, t, U)
           s == Cut(U.stk, Reg(4))
           r == Update(m, t, [U EXCEPT !.stk = s])
<1>1. Here.k = "exec"
      /\ Become(BeginCall(Update(M, t, CutTo(Load(Now, c), Reg(4))), t, Reg(1), 1))
  BY DEF OpTForLoop, Settled, InLua
<1>2. /\ M \in State /\ M.cs = cs /\ Last(M.cs) = Here /\ Running(M) = Now /\ t \in Threads
      /\ Now.nC < ErrCCalls /\ Sound(M) /\ Now.base \in Nat
  BY <1>1, LuaFacts
<1>3. c \in Seq(Value) /\ Len(c) \in Nat \ {0}
  <2>1. c \in Calls
    BY DEF Callees, Loadable
  <2> QED
    BY <2>1, ArgumentsAre
<1>4. /\ Sound(m) /\ Begun(m) /\ m.cs = cs /\ Running(m) = U
      /\ AboveAll(m, Now.base + 1) /\ Len(U.stk) = Now.base + Len(c) /\ U.nC = Now.nC
  BY <1>1, <1>2, <1>3, Loaded
<1>5. CutTo(U, Reg(4)) = [U EXCEPT !.stk = s]
  BY CutIs
<1>6. r = Update(M, t, [U EXCEPT !.stk = s])
  BY <1>2, UpdateTwice
<1> HIDE DEF U, m
<1>7. U.stk \in Seq(Value)
  BY <1>4, SoundFacts
<1>8. s \in Seq(Value) /\ Len(s) = Now.base + 3 /\ Keeps(U.stk, s, (Now.base + 1) - 1)
  <2>1. Reg(4) \in Nat \ {0} /\ Reg(4) - 1 = Now.base + 3
    BY <1>2 DEF Reg
  <2>2. /\ (Now.base + 1) - 1 \in Int /\ (Now.base + 1) - 1 <= Len(U.stk)
        /\ (Now.base + 1) - 1 < Reg(4)
    BY <1>2, <1>3, <1>4 DEF Reg
  <2> QED
    BY <1>7, <2>1, <2>2, CutFacts
<1> HIDE DEF s
<1>9. /\ Sound(r) /\ AboveAll(r, Now.base + 1) /\ r.cs = cs /\ Running(r).stk = s
      /\ Running(r).nC = Now.nC
  <2>1. Last(m.cs) = Here /\ r = Update(m, Last(m.cs).t, [Running(m) EXCEPT !.stk = s])
    BY <1>4 DEF Here
  <2> DEFINE p == Now.base + 1
  <2>3. AboveAll(m, p) /\ Keeps(Running(m).stk, s, p - 1)
    BY <1>4, <1>8
  <2> HIDE DEF r, p
  <2>2. /\ Sound(r) /\ AboveAll(r, p) /\ r.cs = m.cs /\ Running(r).stk = s
        /\ Running(r).nC = Running(m).nC
    BY <1>4, <1>8, <2>1, <2>3, SoundStack
  <2> QED
    BY <1>4, <2>2 DEF p
<1>10. Good(BeginCall(r, t, Reg(1), 1))
  <2>1. Last(r.cs) = Here /\ Reg(1) = Now.base + 1 /\ Reg(1) <= Len(Running(r).stk)
        /\ 1 \in Result
    BY <1>2, <1>8, <1>9 DEF Here, Reg, Result
  <2> HIDE DEF r
  <2> QED
    BY <1>1, <1>2, <1>9, <2>1, BeginCallGood
<1> QED
  BY <1>1, <1>5, <1>6, <1>10, Becomes DEF U

LEMMA OpMetamethodStep ==
  ASSUME IInv, NEW f \in Loadable(Metamethods), OpMetamethod(f)
  PROVE  IInv'
<1> DEFINE t == Here.t
           x == f \o <<"v", "v">>
           s == Now.stk \o x
           m == Update(M, t, [Now EXCEPT !.stk = s])
           p == Len(Now.stk) + 1
<1>1. Here.k = "exec"
      /\ Become(BeginCall(Update(M, t, [Now EXCEPT !.stk = @ \o f \o <<"v", "v">>]), t, Top(Now), 1))
  BY DEF OpMetamethod, Settled, InLua
<1>2. /\ M \in State /\ M.cs = cs /\ Last(M.cs) = Here /\ Running(M) = Now /\ t \in Threads
      /\ Now.nC < ErrCCalls /\ Sound(M) /\ Begun(M) /\ AboveAll(M, p)
      /\ Now.stk \in Seq(Value) /\ Len(Now.stk) \in Nat
  BY <1>1, LuaFacts
<1>3. f \in Seq(Value) /\ Len(f) \in Nat \ {0}
  <2>1. f \in Metamethods
    BY DEF Loadable
  <2> QED
    BY <2>1, ArgumentsAre
<1>4. x \in Seq(Value) /\ Len(x) = Len(f) + 2
  <2>1. <<"v", "v">> \in Seq(Value) /\ Len(<<"v", "v">>) = 2
    BY DEF Value
  <2> QED
    BY <1>3, <2>1, ConcatKeeps
<1>5. (Now.stk \o f) \o <<"v", "v">> = s
  <2> DEFINE v == <<"v", "v">>
  <2>1. v \in Seq(Value)
    BY DEF Value
  <2> HIDE DEF v
  <2>2. (Now.stk \o f) \o v = Now.stk \o (f \o v)
    BY <1>2, <1>3, <2>1, Associates
  <2> QED
    BY <2>2 DEF v
<1> HIDE DEF x
<1>6. s \in Seq(Value) /\ Len(s) = Len(Now.stk) + Len(x) /\ Keeps(Now.stk, s, Len(Now.stk))
  BY <1>2, <1>4, ConcatKeeps
<1> HIDE DEF s
<1>7. /\ Sound(m) /\ AboveAll(m, p) /\ m.cs = cs /\ Running(m).stk = s /\ Running(m).nC = Now.nC
  <2>1. p - 1 = Len(Now.stk) /\ m = Update(M, Last(M.cs).t, [Running(M) EXCEPT !.stk = s])
    BY <1>2
  <2> HIDE DEF m, p
  <2> QED
    BY <1>2, <1>6, <2>1, SoundStack
<1>8. Good(BeginCall(m, t, p, 1))
  <2>1. Last(m.cs) = Here
    BY <1>7 DEF Here
  <2>2. p <= Len(Running(m).stk)
    <3>1. Len(Running(m).stk) = Len(Now.stk) + (Len(f) + 2)
      BY <1>4, <1>6, <1>7
    <3> HIDE DEF m
    <3> QED
      BY <1>2, <1>3, <3>1
  <2>3. 1 \in Result
    BY DEF Result
  <2> HIDE DEF m, p
  <2> QED
    BY <1>1, <1>2, <1>7, <2>1, <2>2, <2>3, BeginCallGood
<1>9. [Now EXCEPT !.stk = @ \o f \o <<"v", "v">>] = [Now EXCEPT !.stk = s]
  BY <1>5
<1> QED
  BY <1>1, <1>8, <1>9, Becomes DEF Top

LEMMA OpVarargStep ==
  ASSUME IInv, OpVararg
  PROVE  IInv'
<1> DEFINE t == Here.t
           c == Slots(Now, Frame(Now).func + 2, Frame(Now).base - 1)
           m == Update(M, t, Load(Now, c))
<1>1. Here.k = "exec" /\ Become(m)
  BY DEF OpVararg, Settled, InLua
<1>2. /\ M.cs = cs /\ Last(M.cs) = Here /\ Running(M) = Now /\ Now \in Thread /\ FramesInv(Now)
      /\ Now.nC < ErrCCalls /\ Sound(M) /\ Now.stk \in Seq(Value) /\ Len(Now.stk) \in Nat
      /\ Frame(Now) = Now.ci[Len(Now.ci)] /\ Now.base = Frame(Now).base
      /\ Now.base \in Nat /\ Len(Now.stk) >= Now.base /\ Len(Now.ci) > 1 /\ Len(Now.ci) \in Nat
  BY <1>1, LuaFacts
<1>3. c \in Seq(Value)
  <2>1. Frame(Now).func \in Nat
    <3>1. Len(Now.ci) \in 1 .. Len(Now.ci)
      BY <1>2
    <3> QED
      BY <1>2, <3>1, FramesFacts
  <2>2. Frame(Now).func + 2 \in Nat \ {0} /\ Now.base - 1 \in Int /\ Now.base - 1 <= Len(Now.stk)
    BY <1>2, <2>1
  <2> QED
    BY <1>2, <2>2, Slice DEF Slots
<1> HIDE DEF c
<1>4. /\ Sound(m) /\ m.cs = cs /\ Running(m) = Load(Now, c) /\ Load(Now, c).nC = Now.nC
  BY <1>1, <1>2, <1>3, Loaded
<1> HIDE DEF m
<1>5. Good(m)
  BY <1>1, <1>2, <1>4, GoodTop
<1> QED
  BY <1>1, <1>5, Becomes

(* The variables the frame on the top shares with closures are the set y.  *)
Shares(T, y) ==
  [T EXCEPT !.open = {x \in @ : x < T.base} \cup y, !.ci[Len(T.ci)].captured = y]

LEMMA SharesFacts ==
  ASSUME NEW T \in Thread, FramesInv(T), Len(T.ci) > 1, Frame(T).lua,
         NEW y \in SUBSET {T.base}
  PROVE  LET U == Shares(T, y)
         IN  /\ U \in Thread /\ Alike(T, U) /\ U.stk = T.stk /\ U.nC = T.nC
             /\ U.status = T.status /\ U.baseC = T.baseC
             /\ T.open = {x \in T.open : x < T.base} \cup Frame(T).captured
             /\ Frame(T).captured \subseteq {T.base}
<1> DEFINE q == Len(T.ci)
           c == [T.ci[q] EXCEPT !.captured = y]
           f == [T.ci EXCEPT ![q] = c]
           o == {x \in T.open : x < T.base}
           U == [T EXCEPT !.open = o \cup y, !.ci = f]
<1>1. /\ T.ci \in Seq(CallInfo) /\ q \in Nat \ {0} /\ DOMAIN T.ci = 1 .. q /\ q \in 1 .. q
      /\ T.base = T.ci[q].base /\ Frame(T) = T.ci[q] /\ T.base \in Nat
  BY FramesFacts
<1>2. T.ci[q] \in CallInfo
  BY <1>1, ElementOfSeq
<1>3. /\ c \in CallInfo /\ c.func = T.ci[q].func /\ c.base = T.ci[q].base /\ c.lua = T.ci[q].lua
      /\ c.under = T.ci[q].under /\ c.captured = y /\ c.top = T.ci[q].top
  BY <1>1, <1>2 DEF CallInfo
<1>4. o = UNION {T.ci[i].captured : i \in 1 .. q - 1}
  BY DroppedFacts DEF Returned
<1>5. Shares(T, y) = U
  BY DEF Shares
<1> HIDE DEF c
<1>6. /\ f \in Seq(CallInfo) /\ Len(f) = q
      /\ \A i \in 1 .. q : f[i] = IF i = q THEN c ELSE T.ci[i]
  BY <1>1, <1>3, ExceptSeq
<1>7. o \cup y \in SUBSET Nat
  <2>1. T.open \in SUBSET Nat
    BY DEF Thread
  <2> QED
    BY <1>1, <2>1
<1> HIDE DEF f, o
<1>8. /\ U \in Thread /\ U.ci = f /\ U.stk = T.stk /\ U.nC = T.nC /\ U.open = o \cup y
      /\ U.status = T.status /\ U.baseC = T.baseC /\ U.base = T.base /\ U.over = T.over
  BY <1>6, <1>7 DEF Thread
<1> HIDE DEF U
<1>9. /\ T.ci[q].captured \subseteq {T.base}
      /\ T.open = o \cup T.ci[q].captured
  <2>1. T.ci[q].captured \subseteq (IF T.ci[q].lua THEN {T.ci[q].base} ELSE {})
    BY <1>1, FrameFacts
  <2>2. T.open = UNION {T.ci[i].captured : i \in 1 .. q}
    BY <1>1 DEF FramesInv
  <2>3. 1 .. q = (1 .. q - 1) \cup {q}
    BY <1>1
  <2>4. T.ci[q].captured \subseteq {T.base}
    BY <1>1, <2>1
  <2> QED
    BY <1>4, <2>2, <2>3, <2>4
<1>10. U.open = UNION {U.ci[i].captured : i \in 1 .. q}
  <2>1. 1 .. q = (1 .. q - 1) \cup {q} /\ q \notin 1 .. q - 1
    BY <1>1
  <2>2. U.ci[q].captured = y
    BY <1>1, <1>3, <1>6, <1>8
  <2>3. \A i \in 1 .. q - 1 : U.ci[i].captured = T.ci[i].captured
    BY <1>6, <1>8, <2>1
  <2> HIDE DEF q
  <2>4. UNION {U.ci[i].captured : i \in 1 .. q}
        = (UNION {U.ci[i].captured : i \in 1 .. q - 1}) \cup U.ci[q].captured
    BY <2>1
  <2>5. UNION {U.ci[i].captured : i \in 1 .. q - 1} = UNION {T.ci[i].captured : i \in 1 .. q - 1}
    BY <2>3
  <2> QED
    BY <1>4, <1>8, <2>2, <2>4, <2>5
<1> HIDE DEF q
<1>11. \A i \in 1 .. q : /\ U.ci[i].func = T.ci[i].func /\ U.ci[i].base = T.ci[i].base
                         /\ U.ci[i].lua = T.ci[i].lua /\ U.ci[i].under = T.ci[i].under
                         /\ U.ci[i].lua => U.ci[i].top > U.ci[i].base
                         /\ U.ci[i].captured \subseteq
                              (IF U.ci[i].lua THEN {U.ci[i].base} ELSE {})
  <2> SUFFICES ASSUME NEW i \in 1 .. q
               PROVE  /\ U.ci[i].func = T.ci[i].func /\ U.ci[i].base = T.ci[i].base
                      /\ U.ci[i].lua = T.ci[i].lua /\ U.ci[i].under = T.ci[i].under
                      /\ U.ci[i].lua => U.ci[i].top > U.ci[i].base
                      /\ U.ci[i].captured \subseteq
                           (IF U.ci[i].lua THEN {U.ci[i].base} ELSE {})
    OBVIOUS
  <2>1. /\ T.ci[i].lua => T.ci[i].top > T.ci[i].base
        /\ T.ci[i].captured \subseteq (IF T.ci[i].lua THEN {T.ci[i].base} ELSE {})
    BY FrameFacts DEF q
  <2>2. CASE i # q
    BY <1>6, <1>8, <2>1, <2>2
  <2>3. CASE i = q
    BY <1>1, <1>3, <1>6, <1>8, <2>1, <2>3
  <2> QED
    BY <2>2, <2>3
<1>12. Alike(T, U)
  <2>1. Len(T.ci) <= SizeCI(T)
    BY DEF FramesInv
  <2>2. Len(U.ci) <= SizeCI(U) /\ Len(U.ci) = q
    BY <1>6, <1>8, <2>1 DEF SizeCI, q
  <2> QED
    BY <1>8, <1>10, <1>11, <2>2 DEF Alike, q
<1> QED
  BY <1>1, <1>5, <1>8, <1>9, <1>12 DEF o

LEMMA SharesGood ==
  ASSUME IInv, Here.k = "exec", NEW y \in SUBSET {Now.base}
  PROVE  Good(Update(M, Here.t, Shares(Now, y)))
<1> DEFINE U == Shares(Now, y)
           r == Update(M, Here.t, U)
           p == Now.base + 1
<1>1. /\ M.cs = cs /\ Last(M.cs) = Here /\ Running(M) = Now /\ Now \in Thread /\ FramesInv(Now)
      /\ Now.nC < ErrCCalls /\ Sound(M) /\ Begun(M) /\ Frame(Now).lua /\ Len(Now.ci) > 1
      /\ Now.base \in Nat /\ AboveAll(M, p) /\ Len(Now.stk) >= Now.base /\ Len(Now.stk) \in Nat
  BY LuaFacts
<1>2. /\ U \in Thread /\ Alike(Now, U) /\ U.stk = Now.stk /\ U.nC = Now.nC
      /\ U.status = Now.status /\ U.baseC = Now.baseC
  BY <1>1, SharesFacts
<1>3. Keeps(Now.stk, U.stk, p - 1)
  BY <1>1, <1>2 DEF Keeps
<1> HIDE DEF U, p
<1>4. Sound(r) /\ r.cs = M.cs /\ Running(r) = U
  BY <1>1, <1>2, <1>3, SoundWritten
<1> HIDE DEF r
<1>5. Good(r)
  BY <1>1, <1>2, <1>4, GoodTop
<1> QED
  BY <1>5 DEF r, U

LEMMA OpClosureStep ==
  ASSUME IInv, OpClosure(0)
  PROVE  IInv'
<1> DEFINE y == {Now.base}
           q == Len(Now.ci)
<1>1. Here.k = "exec" /\ Become(Update(M, Here.t, FindUpval(Now, Reg(0))))
  BY DEF OpClosure, Settled, InLua
<1>2. /\ Now \in Thread /\ FramesInv(Now) /\ Frame(Now).lua /\ Len(Now.ci) > 1
      /\ Frame(Now) = Now.ci[q] /\ Now.base \in Nat
  BY <1>1, LuaFacts
<1>3. y \in SUBSET {Now.base}
  OBVIOUS
<1>4. /\ Now.open = {x \in Now.open : x < Now.base} \cup Now.ci[q].captured
      /\ Now.ci[q].captured \subseteq {Now.base}
  BY <1>2, <1>3, SharesFacts
<1>5. Reg(0) = Now.base
  BY <1>2 DEF Reg
<1>6. FindUpval(Now, Now.base) = Shares(Now, y)
  <2>1. Now.ci[q].captured \cup {Now.base} = y
    BY <1>4
  <2>2. Now.open \cup {Now.base} = {x \in Now.open : x < Now.base} \cup y
    BY <1>4
  <2>3. [Now EXCEPT !.open = @ \cup {Now.base}, !.ci[q].captured = @ \cup {Now.base}]
        = [Now EXCEPT !.open = {x \in @ : x < Now.base} \cup y, !.ci[q].captured = y]
    <3>1. Now.ci \in Seq(CallInfo) /\ q \in DOMAIN Now.ci
      BY <1>2, FramesFacts
    <3> HIDE DEF y, q
    <3> QED
      BY <2>1, <2>2, <3>1 DEF Thread
  <2> QED
    BY <2>3 DEF FindUpval, Shares
<1>7. Good(Update(M, Here.t, Shares(Now, y)))
  BY <1>1, <1>3, SharesGood
<1> QED
  BY <1>1, <1>5, <1>6, <1>7, Becomes

LEMMA OpCloseStep ==
  ASSUME IInv, OpClose(0)
  PROVE  IInv'
<1> DEFINE y == {}
           q == Len(Now.ci)
           T == Close(Now, Reg(0))
           U == [T EXCEPT !.ci[Len(T.ci)].captured = {p \in @ : p < Reg(0)}]
<1>1. Here.k = "exec" /\ Become(Update(M, Here.t, U))
  BY DEF OpClose, Settled, InLua
<1>2. /\ Now \in Thread /\ FramesInv(Now) /\ Frame(Now).lua /\ Len(Now.ci) > 1
      /\ Frame(Now) = Now.ci[q] /\ Now.base \in Nat
  BY <1>1, LuaFacts
<1>3. y \in SUBSET {Now.base}
  OBVIOUS
<1>4. Now.ci[q].captured \subseteq {Now.base}
  BY <1>2, <1>3, SharesFacts
<1>5. Reg(0) = Now.base
  BY <1>2 DEF Reg
<1>6. U = Shares(Now, y)
  <2>1. {p \in Now.ci[q].captured : p < Now.base} = y
    BY <1>2, <1>4
  <2> DEFINE o == {p \in Now.open : p < Now.base}
  <2>2. T = [Now EXCEPT !.open = o] /\ o \cup y = o
    BY <1>5 DEF Close
  <2>3. T.ci = Now.ci
    BY <1>2, <2>2 DEF Thread
  <2>4. Shares(Now, y) = [Now EXCEPT !.open = o, !.ci[q].captured = y]
    BY <2>2 DEF Shares
  <2>5. U = [[Now EXCEPT !.open = o] EXCEPT !.ci[q].captured = {p \in @ : p < Now.base}]
    BY <1>5, <2>2, <2>3
  <2>6. Now.ci \in Seq(CallInfo) /\ q \in DOMAIN Now.ci
    BY <1>2, FramesFacts
  <2> HIDE DEF y, q, o, U
  <2> QED
    BY <2>1, <2>4, <2>5, <2>6 DEF Thread
<1>7. Good(Update(M, Here.t, Shares(Now, y)))
  BY <1>1, <1>3, SharesGood
<1> QED
  BY <1>1, <1>6, <1>7, Becomes

=============================================================================
