----------------------------- MODULE LuaCallsProofs -----------------------------
(***************************************************************************)
(* Proofs about LuaCalls, for any program and any limits: C functions,     *)
(* coroutines and Java keep the invariant, every step does, and the        *)
(* properties follow from it.                                              *)
(***************************************************************************)
EXTENDS LuaCallsSteps

-----------------------------------------------------------------------------
(* C functions.                                                            *)

LEMMA CFacts ==
  ASSUME IInv, Here.k \in {"cfun", "jni"}, ~(Here.k = "cfun" /\ Here.f = "wrapped" /\ Here.pc = "ok")
  PROVE  /\ M \in State /\ M.cs = cs /\ M.th = th /\ Last(M.cs) = Here /\ Running(M) = Now
         /\ Now.nC < ErrCCalls /\ Sound(M) /\ Begun(M) /\ Here.t \in Threads
         /\ Now \in Thread /\ FramesInv(Now) /\ ~Frame(Now).lua
         /\ Now.stk \in Seq(Value) /\ Len(Now.stk) \in Nat
         /\ Frame(Now) = Now.ci[Len(Now.ci)] /\ Now.base = Frame(Now).base
         /\ Now.base \in Nat \ {0} /\ Low(Frame(Now)) = Now.base /\ Len(Now.stk) >= Now.base - 1
         /\ AboveAll(M, Now.base) /\ AboveAll(M, Len(Now.stk) + 1)
<1>1. /\ M \in State /\ M.cs = cs /\ M.th = th /\ Last(M.cs) = Here /\ Running(M) = Now
      /\ Now.nC < ErrCCalls /\ Sound(M)
  BY Starts
<1>2. /\ Here.t \in Threads /\ Now \in Thread /\ FramesInv(Now)
      /\ Now.stk \in Seq(Value) /\ Len(Now.stk) \in Nat /\ Len(Now.stk) >= Low(Frame(Now)) - 1
      /\ Frame(Now) = Now.ci[Len(Now.ci)] /\ Len(Now.ci) \in Nat \ {0}
      /\ Low(Frame(Now)) \in Nat \ {0}
  BY <1>1, SoundFacts
<1>3. Now.base = Frame(Now).base /\ Now.base \in Nat
  BY <1>2, FramesFacts
<1>4. ~Frame(Now).lua
  <2>1. CASE Here.k = "cfun"
    BY <1>1, <2>1, SoundFacts
  <2>2. CASE Here.k = "jni"
    <3>1. PICK d, e \in [DOMAIN M.cs -> Nat] : Inv(M, d, e)
      BY <1>1 DEF Sound
    <3>2. Len(M.cs) = 1
      <4>1. Len(M.cs) \in Nat \ {0} /\ ~(Len(M.cs) > 1)
        BY <1>1, <2>2, SoundFacts
      <4> QED
        BY <4>1
    <3>3. Len(Now.ci) = d[Len(M.cs)]
      BY <1>1, <3>1, RunningFacts
    <3>4. d[1] = 1
      BY <3>1 DEF Inv, StackInv, Counts
    <3> QED
      BY <1>2, <3>2, <3>3, <3>4 DEF FramesInv
  <2> QED
    BY <2>1, <2>2
<1>5. Low(Frame(Now)) = Now.base
  BY <1>3, <1>4 DEF Low
<1>6. AboveAll(M, Low(Frame(Running(M)))) /\ AboveAll(M, Len(Running(M).stk) + 1) /\ Begun(M)
  <2>1. Last(M.cs).k \in {"jni", "exec", "cfun"}
    BY <1>1
  <2> QED
    BY <1>1, <2>1, RestAbove
<1> QED
  BY <1>1, <1>2, <1>3, <1>4, <1>5, <1>6

LEMMA CWritten ==
  ASSUME IInv, Here.k \in {"cfun", "jni"}, ~(Here.k = "cfun" /\ Here.f = "wrapped" /\ Here.pc = "ok"),
         NEW s \in Seq(Value), Keeps(Now.stk, s, Now.base - 1)
  PROVE  LET r == Update(M, Here.t, [Now EXCEPT !.stk = s])
         IN  /\ Sound(r) /\ Begun(r) /\ AboveAll(r, Now.base) /\ r.cs = cs /\ Last(r.cs) = Here
             /\ Running(r) = [Now EXCEPT !.stk = s] /\ Running(r).stk = s
             /\ Running(r).nC < ErrCCalls
<1> DEFINE r == Update(M, Here.t, [Now EXCEPT !.stk = s])
           p == Now.base
<1>1. /\ M.cs = cs /\ Last(M.cs) = Here /\ Running(M) = Now /\ Now.nC < ErrCCalls /\ Sound(M)
      /\ Begun(M) /\ AboveAll(M, p)
  BY CFacts
<1>2. Keeps(Running(M).stk, s, p - 1)
  BY <1>1
<1>3. r = Update(M, Last(M.cs).t, [Running(M) EXCEPT !.stk = s])
  BY <1>1
<1> HIDE DEF r, p
<1>4. /\ Sound(r) /\ Begun(r) /\ AboveAll(r, p) /\ r.cs = M.cs
      /\ Running(r) = [Running(M) EXCEPT !.stk = s] /\ Running(r).stk = s
      /\ Running(r).nC = Running(M).nC
  BY <1>1, <1>2, <1>3, SoundStack
<1>5. Last(r.cs) = Here
  BY <1>1, <1>4 DEF Here
<1> QED
  BY <1>1, <1>4, <1>5 DEF r, p

LEMMA CReturnStep ==
  ASSUME IInv, NEW n \in 0 .. 1, CReturn(n)
  PROVE  IInv'
<1> DEFINE t == Here.t
           x == [i \in 1 .. n |-> "v"]
           s == Now.stk \o x
           m == Update(M, t, [Now EXCEPT !.stk = s])
<1>1. Here.k = "cfun" /\ Here.f = "C" /\ Become(ReturnC(m, t, n))
  BY DEF CReturn, InC
<1>2. /\ Now.stk \in Seq(Value) /\ Len(Now.stk) \in Nat /\ Now.base \in Nat \ {0}
      /\ Len(Now.stk) >= Now.base - 1
  BY <1>1, CFacts
<1>3. x \in Seq(Value) /\ Len(x) = n /\ n \in Nat
  <2>1. "v" \in Value /\ n \in Nat
    BY DEF Value
  <2> QED
    BY <2>1
<1> HIDE DEF x
<1>4. s \in Seq(Value) /\ Len(s) = Len(Now.stk) + n /\ Keeps(Now.stk, s, Len(Now.stk))
  BY <1>2, <1>3, ConcatKeeps
<1> HIDE DEF s
<1>5. Keeps(Now.stk, s, Now.base - 1)
  BY <1>2, <1>3, <1>4, KeepsLess
<1>6. Sound(m) /\ Last(m.cs) = Here /\ Running(m).stk = s /\ Running(m).nC < ErrCCalls
  BY <1>1, <1>4, <1>5, CWritten
<1> HIDE DEF m
<1>7. n <= Len(Running(m).stk)
  BY <1>2, <1>3, <1>4, <1>6
<1>8. Good(ReturnC(m, t, n))
  BY <1>1, <1>3, <1>6, <1>7, ReturnCGood
<1> QED
  BY <1>1, <1>8, Becomes

LEMMA CErrorStep ==
  ASSUME IInv, CError
  PROVE  IInv'
<1>1. Here.k = "cfun" /\ Here.f = "C" /\ Become(RunError(M, Here.t))
  BY DEF CError, InC
<1>2. Sound(M) /\ Last(M.cs) = Here /\ Running(M) = Now /\ Now.nC < ErrCCalls
  BY <1>1, CFacts
<1>3. Good(RunError(M, Here.t))
  BY <1>1, <1>2, RunErrorRests
<1> QED
  BY <1>1, <1>3, Becomes

LEMMA CCallStep ==
  ASSUME IInv, NEW c \in Callees, NEW want \in Wants, CCall(c, want)
  PROVE  IInv'
<1> DEFINE t == Here.t
           T == SetTop(Now, 0)
           u == Cut(Now.stk, Now.base)
           s == u \o c
           m == Update(M, t, [Now EXCEPT !.stk = s])
<1>1. Here.k = "cfun" /\ Here.f = "C"
      /\ Become(BeginCall(Update(M, t, [T EXCEPT !.stk = @ \o c]), t, Top(T), want))
  BY DEF CCall, InC
<1>2. /\ Now.stk \in Seq(Value) /\ Len(Now.stk) \in Nat /\ Now.base \in Nat \ {0}
      /\ Len(Now.stk) >= Now.base - 1 /\ Now \in Thread
  BY <1>1, CFacts
<1>3. c \in Seq(Value) /\ Len(c) \in Nat \ {0} /\ want \in Result
  <2>1. c \in Calls
    BY DEF Callees, Loadable
  <2>2. want \in Result
    BY ProgramAssumption DEF Result
  <2> QED
    BY <2>1, <2>2, ArgumentsAre
<1>4. T = [Now EXCEPT !.stk = u] /\ T.stk = u
  <2>1. T = CutTo(Now, Now.base)
    BY <1>2 DEF SetTop
  <2>2. T = [Now EXCEPT !.stk = u]
    BY <2>1, CutIs
  <2> QED
    BY <1>2, <2>2 DEF Thread
<1>5. u \in Seq(Value) /\ Len(u) = Now.base - 1 /\ Keeps(Now.stk, u, Now.base - 1)
  <2>1. Now.base - 1 \in Int /\ Now.base - 1 <= Len(Now.stk) /\ Now.base - 1 < Now.base
    BY <1>2
  <2> QED
    BY <1>2, <2>1, CutFacts
<1>6. [T EXCEPT !.stk = @ \o c] = [Now EXCEPT !.stk = s] /\ Top(T) = Now.base
  <2>1. Top(T) = (Now.base - 1) + 1
    BY <1>4, <1>5 DEF Top
  <2>2. [T EXCEPT !.stk = @ \o c] = [Now EXCEPT !.stk = s]
    BY <1>4
  <2> QED
    BY <1>2, <2>1, <2>2
<1> HIDE DEF u, T
<1>7. s \in Seq(Value) /\ Len(s) = (Now.base - 1) + Len(c) /\ Keeps(Now.stk, s, Now.base - 1)
  <2>1. s \in Seq(Value) /\ Len(s) = Len(u) + Len(c) /\ Keeps(u, s, Len(u))
    BY <1>3, <1>5, ConcatKeeps
  <2> QED
    BY <1>5, <2>1, KeepsKeeps
<1> HIDE DEF s
<1>8. /\ Sound(m) /\ Last(m.cs) = Here /\ Running(m).stk = s /\ Running(m).nC < ErrCCalls
      /\ AboveAll(m, Now.base)
  BY <1>1, <1>7, CWritten
<1> HIDE DEF m
<1>9. Now.base <= Len(Running(m).stk)
  BY <1>2, <1>3, <1>7, <1>8
<1>10. Good(BeginCall(m, t, Now.base, want))
  BY <1>1, <1>3, <1>8, <1>9, BeginCallGood
<1> QED
  BY <1>1, <1>6, <1>10, Becomes DEF m

(* A protected call.                                                       *)
LEMMA HandlerSet ==
  ASSUME NEW T \in Thread, FramesInv(T), NEW h \in Nat
  PROVE  LET U == [T EXCEPT !.ef = h]
         IN  /\ U \in Thread /\ Alike(T, U) /\ U.stk = T.stk /\ U.nC = T.nC
             /\ U.status = T.status /\ U.baseC = T.baseC /\ U.ci = T.ci
<1> DEFINE U == [T EXCEPT !.ef = h]
<1>1. /\ U \in Thread /\ U.stk = T.stk /\ U.nC = T.nC /\ U.status = T.status
      /\ U.baseC = T.baseC /\ U.ci = T.ci /\ U.base = T.base /\ U.open = T.open /\ U.over = T.over
  BY DEF Thread
<1> HIDE DEF U
<1>2. Alike(T, U)
  <2>1. /\ Len(T.ci) <= SizeCI(T) /\ T.open = UNION {T.ci[i].captured : i \in 1 .. Len(T.ci)}
        /\ SizeCI(U) = SizeCI(T)
    <3>1. DOMAIN T.ci = 1 .. Len(T.ci)
      BY FramesFacts
    <3> QED
      BY <1>1, <3>1 DEF FramesInv, SizeCI
  <2> QED
    BY <1>1, <2>1, FrameFacts DEF Alike
<1> QED
  BY <1>1, <1>2 DEF U

LEMMA BeginPcallGood ==
  ASSUME NEW m, Sound(m),
         Last(m.cs).k = "jni" \/ (Last(m.cs).k = "cfun" /\ Last(m.cs).f \in {"pcall", "xpcall"}),
         NEW t, t = Last(m.cs).t, NEW func, AboveAll(m, func), func <= Len(Running(m).stk),
         func > 0, NEW want \in Result, NEW h \in Nat, Running(m).nC < ErrCCalls
  PROVE  Good(BeginPcall(m, t, func, want, h))
<1> DEFINE T == Running(m)
           U == [T EXCEPT !.ef = h]
           m1 == Update(m, t, U)
           b == [k |-> "pcall", t |-> t, top |-> func, ci |-> Len(T.ci), nC |-> T.nC,
                 ef |-> T.ef, under |-> SubSeq(T.stk, 1, func - 1)]
           r == Enter(m1, b)
<1>1. /\ T \in Thread /\ FramesInv(T) /\ t \in Threads /\ T = m.th[t] /\ Len(T.stk) \in Nat
      /\ T.stk \in Seq(Value) /\ Len(T.ci) \in Nat /\ T.nC \in Nat /\ func \in Nat
  BY SoundFacts DEF AboveAll
<1>2. Begun(m)
  BY DEF Begun
<1>3. /\ U \in Thread /\ Alike(T, U) /\ U.stk = T.stk /\ U.nC = T.nC
      /\ U.status = T.status /\ U.baseC = T.baseC /\ U.ci = T.ci
  BY <1>1, HandlerSet
<1>4. BeginPcall(m, t, func, want, h) = BeginCall(r, t, func, want)
  BY <1>1 DEF BeginPcall
<1> HIDE DEF U
<1>5. Sound(m1) /\ m1.cs = m.cs /\ Running(m1) = U /\ AboveAll(m1, func)
  <2>1. Keeps(T.stk, U.stk, func - 1)
    BY <1>1, <1>3 DEF Keeps
  <2> HIDE DEF T
  <2> QED
    BY <1>2, <1>3, <2>1, SoundWritten DEF T
<1>6. b \in Activation /\ b.k = "pcall" /\ b.t = t /\ b.top = func /\ b.ci = Len(T.ci)
      /\ b.nC = T.nC /\ b.under = SubSeq(T.stk, 1, func - 1)
  <2>1. SubSeq(T.stk, 1, func - 1) \in Seq(Value)
    <3>1. func - 1 \in 0 .. Len(T.stk)
      BY <1>1
    <3> QED
      BY <1>1, <3>1, Prefix
  <2>2. T.ef \in Nat
    BY <1>1 DEF Thread
  <2> HIDE DEF T
  <2> QED
    BY <1>1, <2>1, <2>2 DEF Activation
<1> HIDE DEF b, T, m1
<1>7. Owns(b) /\ Floor(b) = func
  BY <1>6 DEF Owns, Floor
<1>8. Above(Last(m1.cs), b)
  BY <1>5, <1>6 DEF Above
<1>9. Sound(r) /\ Last(r.cs) = b /\ Running(r) = U /\ AboveAll(r, func)
  <2>1. Floor(b) <= Len(Running(m1).stk) + 1
    BY <1>1, <1>3, <1>5, <1>7 DEF T
  <2>2. /\ b.ci = Len(Running(m1).ci) /\ b.nC = Running(m1).nC
        /\ b.under = SubSeq(Running(m1).stk, 1, b.top - 1)
    BY <1>3, <1>5, <1>6
  <2>3. AboveAll(m1, Floor(b)) /\ b.t = Last(m1.cs).t
    BY <1>5, <1>6, <1>7
  <2>4. /\ Sound(r) /\ Last(r.cs) = b /\ Running(r) = Running(m1)
        /\ \A p : AboveAll(m1, p) /\ (Owns(b) => Floor(b) <= p) => AboveAll(r, p)
    BY <1>5, <1>6, <1>8, <2>1, <2>2, <2>3, SoundPush
  <2>5. func <= func
    BY <1>1
  <2> QED
    BY <1>5, <1>7, <2>4, <2>5
<1> HIDE DEF r
<1>10. Good(BeginCall(r, t, func, want))
  <2>1. func <= Len(Running(r).stk) /\ Running(r).nC < ErrCCalls
    BY <1>3, <1>9 DEF T
  <2> QED
    BY <1>6, <1>9, <2>1, BeginCallGood
<1> QED
  BY <1>4, <1>10 DEF T

LEMMA InsertFacts ==
  ASSUME NEW s \in Seq(Value), NEW v \in Value, NEW n \in Nat \ {0}, n <= Len(s) + 1
  PROVE  /\ InsertAt(s, n, v) \in Seq(Value) /\ Len(InsertAt(s, n, v)) = Len(s) + 1
         /\ Keeps(s, InsertAt(s, n, v), n - 1)
<1> DEFINE l == SubSeq(s, 1, n - 1)
           w == <<v>>
           g == l \o w
           h == SubSeq(s, n, Len(s))
           r == InsertAt(s, n, v)
<1>1. r = g \o h
  BY DEF InsertAt
<1>2. Len(s) \in Nat /\ n - 1 \in 0 .. Len(s)
  BY LenProperties
<1>3. w \in Seq(Value) /\ Len(w) = 1
  OBVIOUS
<1> HIDE DEF w
<1>4. g \in Seq(Value) /\ Len(g) = n - 1 + Len(w) /\ Keeps(s, g, n - 1)
  BY <1>2, <1>3, Upper
<1>5. h \in Seq(Value) /\ Len(h) = Len(s) - n + 1
  <2>1. h \in Seq(Value)
    BY <1>2, Slice
  <2> QED
    BY <1>2, <2>1
<1> HIDE DEF g, h, r
<1>6. g \o h \in Seq(Value) /\ Len(g \o h) = Len(g) + Len(h) /\ Keeps(g, g \o h, Len(g))
      /\ Len(g) \in Nat /\ Len(h) \in Nat
  BY <1>4, <1>5, ConcatKeeps
<1>7. Keeps(g, g \o h, n - 1)
  <2>1. n - 1 \in Int /\ n - 1 <= Len(g) /\ Len(g \o h) \in Nat
    BY <1>2, <1>3, <1>4, <1>6
  <2> QED
    BY <1>6, <2>1, KeepsLess
<1>8. Len(r) = Len(s) + 1
  BY <1>1, <1>2, <1>3, <1>4, <1>5, <1>6
<1> QED
  BY <1>1, <1>4, <1>6, <1>7, <1>8, KeepsKeeps DEF r

LEMMA BasePcallStep ==
  ASSUME IInv, BasePcall
  PROVE  IInv'
<1>1. Here.k = "cfun" /\ Here.f = "pcall"
      /\ Become(IF GetTop(Now) = 0 THEN RunError(M, Here.t)
                ELSE BeginPcall(M, Here.t, Now.base, MultRet, 0))
  BY DEF BasePcall, InC
<1>2. /\ Sound(M) /\ Last(M.cs) = Here /\ Running(M) = Now /\ Now.nC < ErrCCalls
      /\ Len(Now.stk) \in Nat /\ Now.base \in Nat \ {0} /\ Len(Now.stk) >= Now.base - 1
      /\ AboveAll(M, Now.base)
  BY <1>1, CFacts
<1>3. CASE GetTop(Now) = 0
  <2>1. Good(RunError(M, Here.t))
    BY <1>1, <1>2, RunErrorRests
  <2> QED
    BY <1>1, <1>3, <2>1, Becomes
<1>4. CASE GetTop(Now) # 0
  <2>1. Now.base <= Len(Now.stk)
    BY <1>2, <1>4 DEF GetTop, Top
  <2>2. MultRet \in Result /\ 0 \in Nat /\ Now.base > 0
    BY <1>2 DEF Result
  <2>3. Good(BeginPcall(M, Here.t, Now.base, MultRet, 0))
    BY <1>1, <1>2, <2>1, <2>2, BeginPcallGood
  <2> QED
    BY <1>1, <1>4, <2>3, Becomes
<1> QED
  BY <1>3, <1>4

LEMMA BasePcallDoneStep ==
  ASSUME IInv, BasePcallDone
  PROVE  IInv'
<1> DEFINE t == Here.t
           v == Here.pc
           s == InsertAt(Now.stk, Now.base, v)
           T == InsertIndex(PushValueOf(Now, v), 1)
           m == Update(M, t, [Now EXCEPT !.stk = s])
<1>1. Here.k = "cfun" /\ Here.f = "pcall" /\ v \in {"ok", "failed"}
      /\ Become(ReturnC(Update(M, t, T), t, GetTop(T)))
  BY DEF BasePcallDone, InC
<1>2. /\ Now.stk \in Seq(Value) /\ Len(Now.stk) \in Nat /\ Now.base \in Nat \ {0}
      /\ Len(Now.stk) >= Now.base - 1 /\ Now \in Thread
  BY <1>1, CFacts
<1>3. v \in Value
  BY <1>1 DEF Value
<1> HIDE DEF v
<1>4. s \in Seq(Value) /\ Len(s) = Len(Now.stk) + 1 /\ Keeps(Now.stk, s, Now.base - 1)
  <2>1. Now.base <= Len(Now.stk) + 1
    BY <1>2
  <2> QED
    BY <1>2, <1>3, <2>1, InsertFacts
<1>5. T = [Now EXCEPT !.stk = s]
  <2> DEFINE P == PushValueOf(Now, v)
  <2>1. P = [Now EXCEPT !.stk = Append(Now.stk, v)] /\ P.stk = Append(Now.stk, v)
        /\ P.base = Now.base
    BY <1>2 DEF PushValueOf, Thread
  <2>2. Front(Append(Now.stk, v)) = Now.stk /\ Last(Append(Now.stk, v)) = v
    <3> DEFINE a == Append(Now.stk, v)
    <3>1. a \in Seq(Value) /\ a # <<>> /\ Len(a) = Len(Now.stk) + 1 /\ Last(a) = v
      BY <1>2, <1>3, Appended
    <3>2. Front(a) = SubSeq(a, 1, Len(a) - 1)
      BY <3>1, LastOf
    <3>3. SubSeq(a, 1, Len(Now.stk)) = Now.stk
      BY <1>2, <1>3
    <3> HIDE DEF a
    <3>4. Len(a) - 1 = Len(Now.stk)
      BY <1>2, <3>1
    <3> QED
      BY <3>1, <3>2, <3>3, <3>4 DEF a
  <2>3. Address(P, 1) = Now.base
    BY <1>2, <2>1 DEF Address
  <2> HIDE DEF P
  <2>4. T = [P EXCEPT !.stk = InsertAt(Front(@), Now.base, Last(@))]
    BY <2>3 DEF InsertIndex, P
  <2> QED
    BY <1>2, <2>1, <2>2, <2>4 DEF Thread
<1> HIDE DEF s, T
<1>6. /\ Sound(m) /\ Last(m.cs) = Here /\ Running(m).stk = s /\ Running(m).nC < ErrCCalls
      /\ Running(m) = T
  BY <1>1, <1>4, <1>5, CWritten
<1>7. GetTop(T) \in Nat /\ GetTop(T) <= Len(Running(m).stk)
  <2>1. T.stk = s /\ T.base = Now.base
    BY <1>2, <1>5 DEF Thread
  <2> HIDE DEF m
  <2> QED
    BY <1>2, <1>4, <1>6, <2>1 DEF GetTop, Top
<1> HIDE DEF m
<1>8. Good(ReturnC(m, t, GetTop(T)))
  BY <1>1, <1>6, <1>7, ReturnCGood
<1> QED
  BY <1>1, <1>5, <1>8, Becomes DEF m

LEMMA FrontAppend ==
  ASSUME NEW s \in Seq(Value), NEW v \in Value
  PROVE  Front(Append(s, v)) = s /\ Last(Append(s, v)) = v
<1> DEFINE a == Append(s, v)
<1>1. a \in Seq(Value) /\ a # <<>> /\ Len(a) = Len(s) + 1 /\ Last(a) = v /\ Len(s) \in Nat
  BY Appended, LenProperties
<1>2. Front(a) = SubSeq(a, 1, Len(a) - 1)
  BY <1>1, LastOf
<1>3. SubSeq(a, 1, Len(s)) = s
  BY <1>1
<1> HIDE DEF a
<1>4. Len(a) - 1 = Len(s)
  BY <1>1
<1> QED
  BY <1>1, <1>2, <1>3, <1>4 DEF a

LEMMA BaseXPcallStep ==
  ASSUME IInv, BaseXPcall
  PROVE  IInv'
<1> DEFINE t == Here.t
           b == Now.base
           u == Cut(Now.stk, b + 2)
           s == InsertAt(Front(u), b, Last(u))
           T == InsertIndex(SetTop(Now, 2), 1)
           m == Update(M, t, [Now EXCEPT !.stk = s])
<1>1. Here.k = "cfun" /\ Here.f = "xpcall"
      /\ Become(IF GetTop(Now) < 2 THEN RunError(M, Here.t)
                ELSE BeginPcall(Update(M, t, T), t, T.base + 1, MultRet, T.base))
  BY DEF BaseXPcall, InC
<1>2. /\ Now.stk \in Seq(Value) /\ Len(Now.stk) \in Nat /\ b \in Nat \ {0}
      /\ Len(Now.stk) >= b - 1 /\ Now \in Thread
      /\ Sound(M) /\ Last(M.cs) = Here /\ Running(M) = Now /\ Now.nC < ErrCCalls
  BY <1>1, CFacts
<1>3. CASE GetTop(Now) < 2
  <2>1. Good(RunError(M, Here.t))
    BY <1>1, <1>2, RunErrorRests
  <2> QED
    BY <1>1, <1>3, <2>1, Becomes
<1>4. CASE ~(GetTop(Now) < 2)
  <2>1. Len(Now.stk) >= b + 1
    BY <1>2, <1>4 DEF GetTop, Top
  <2>2. u \in Seq(Value) /\ Len(u) = b + 1 /\ Keeps(Now.stk, u, b)
    <3>1. b \in Int /\ b <= Len(Now.stk) /\ b < b + 2 /\ b + 2 \in Nat \ {0} /\ (b + 2) - 1 = b + 1
      BY <1>2, <2>1
    <3> HIDE DEF b
    <3>2. u \in Seq(Value) /\ Len(u) = (b + 2) - 1 /\ Keeps(Now.stk, u, b)
      BY <1>2, <3>1, CutFacts
    <3> QED
      BY <3>1, <3>2
  <2>3. SetTop(Now, 2) = [Now EXCEPT !.stk = u]
    <3>1. SetTop(Now, 2) = CutTo(Now, b + 2)
      BY DEF SetTop
    <3> QED
      BY <3>1, CutIs
  <2> HIDE DEF u
  <2>4. /\ Front(u) = SubSeq(u, 1, b) /\ Last(u) \in Value
    <3>1. u # <<>> /\ Len(u) - 1 = b
      BY <1>2, <2>2
    <3> QED
      BY <2>2, <3>1, LastOf
  <2>5. Front(u) \in Seq(Value) /\ Len(Front(u)) = b /\ Keeps(u, Front(u), b)
    <3>1. b \in 0 .. Len(u)
      BY <1>2, <2>2
    <3> QED
      BY <2>2, <2>4, <3>1, CutKeeps
  <2>6. s \in Seq(Value) /\ Len(s) = b + 1 /\ Keeps(Front(u), s, b - 1)
    <3>1. b <= Len(Front(u)) + 1
      BY <1>2, <2>5
    <3> HIDE DEF b
    <3> QED
      BY <1>2, <2>4, <2>5, <3>1, InsertFacts
  <2>7. Keeps(Now.stk, s, b - 1)
    <3>1. Keeps(Now.stk, Front(u), b)
      BY <2>2, <2>5, KeepsKeeps
    <3>2. Keeps(Now.stk, Front(u), b - 1)
      <4>1. b \in Int /\ b - 1 \in Int /\ b - 1 <= b /\ Len(Front(u)) \in Nat
        BY <1>2, <2>5
      <4> HIDE DEF b
      <4> QED
        BY <1>2, <3>1, <4>1, KeepsLess
    <3> QED
      BY <2>6, <3>2, KeepsKeeps
  <2>8. T = [Now EXCEPT !.stk = s] /\ T.base = b
    <3> DEFINE P == SetTop(Now, 2)
    <3>1. P = [Now EXCEPT !.stk = u] /\ P.stk = u /\ P.base = b
      BY <1>2, <2>3 DEF Thread
    <3>2. Address(P, 1) = b
      BY <1>2, <3>1 DEF Address
    <3> HIDE DEF P
    <3>3. T = [P EXCEPT !.stk = InsertAt(Front(@), b, Last(@))]
      BY <3>2 DEF InsertIndex, P
    <3>4. T = [Now EXCEPT !.stk = s]
      BY <3>1, <3>3
    <3> HIDE DEF T, s
    <3> QED
      BY <1>2, <3>4 DEF Thread
  <2> HIDE DEF s, T
  <2>9. /\ Sound(m) /\ Last(m.cs) = Here /\ Running(m).stk = s /\ Running(m).nC < ErrCCalls
        /\ AboveAll(m, b)
    BY <1>1, <2>6, <2>7, CWritten
  <2> HIDE DEF m, b
  <2>10. AboveAll(m, b + 1) /\ b + 1 <= Len(Running(m).stk) /\ b + 1 > 0 /\ MultRet \in Result
    <3>1. b + 1 \in Nat /\ b <= b + 1
      BY <1>2
    <3>2. b + 1 <= Len(Running(m).stk) /\ b + 1 > 0 /\ MultRet \in Result
      BY <1>2, <2>6, <2>9 DEF Result
    <3> QED
      BY <2>9, <3>1, <3>2, AboveMore
  <2>11. Good(BeginPcall(m, t, b + 1, MultRet, b))
    BY <1>1, <1>2, <2>9, <2>10, BeginPcallGood
  <2> QED
    BY <1>1, <1>4, <2>8, <2>11, Becomes DEF m
<1> QED
  BY <1>3, <1>4

LEMMA BaseXPcallDoneStep ==
  ASSUME IInv, BaseXPcallDone
  PROVE  IInv'
<1> DEFINE t == Here.t
           b == Now.base
           v == Here.pc
           a == Append(Now.stk, v)
           w == [a EXCEPT ![b] = v]
           s == Front(w)
           T == ReplaceIndex(PushValueOf(Now, v), 1)
           m == Update(M, t, [Now EXCEPT !.stk = s])
<1>1. Here.k = "cfun" /\ Here.f = "xpcall" /\ v \in {"ok", "failed"}
      /\ Become(ReturnC(Update(M, t, T), t, GetTop(T)))
  BY DEF BaseXPcallDone, InC
<1>2. /\ Now.stk \in Seq(Value) /\ Len(Now.stk) \in Nat /\ b \in Nat \ {0}
      /\ Len(Now.stk) >= b - 1 /\ Now \in Thread
  BY <1>1, CFacts
<1>3. v \in Value
  BY <1>1 DEF Value
<1> HIDE DEF v
<1>4. a \in Seq(Value) /\ Len(a) = Len(Now.stk) + 1 /\ Last(a) = v
      /\ DOMAIN a = 1 .. Len(Now.stk) + 1 /\ Keeps(Now.stk, a, Len(Now.stk))
  BY <1>2, <1>3, Appended, AppendKeeps
<1>5. T = [Now EXCEPT !.stk = s]
  <2> DEFINE P == PushValueOf(Now, v)
  <2>1. P = [Now EXCEPT !.stk = a] /\ P.stk = a /\ P.base = b
    BY <1>2 DEF PushValueOf, Thread
  <2>2. Address(P, 1) = b
    BY <1>2, <2>1 DEF Address
  <2> HIDE DEF P, a
  <2>3. T = [P EXCEPT !.stk = Front([P.stk EXCEPT ![b] = Last(P.stk)])]
    BY <2>2 DEF ReplaceIndex, P
  <2> QED
    BY <1>4, <2>1, <2>3
<1> HIDE DEF a
<1>6. /\ w \in Seq(Value) /\ Len(w) = Len(Now.stk) + 1
      /\ \A i \in 1 .. Len(Now.stk) + 1 : w[i] = IF i = b THEN v ELSE a[i]
  <2>1. b \in 1 .. Len(a)
    BY <1>2, <1>4
  <2> HIDE DEF b
  <2> QED
    BY <1>3, <1>4, <2>1, ExceptSeq
<1> HIDE DEF w
<1>7. s = SubSeq(w, 1, Len(Now.stk))
  <2>1. w # <<>> /\ Len(w) - 1 = Len(Now.stk)
    BY <1>2, <1>6
  <2> QED
    BY <1>6, <2>1, LastOf
<1>8. s \in Seq(Value) /\ Len(s) = Len(Now.stk) /\ Keeps(w, s, Len(Now.stk))
  <2>1. Len(Now.stk) \in 0 .. Len(w)
    BY <1>2, <1>6
  <2> QED
    BY <1>6, <1>7, <2>1, CutKeeps
<1> HIDE DEF s
<1>9. Keeps(Now.stk, s, b - 1)
  <2>1. b - 1 <= Len(Now.stk) /\ b - 1 <= Len(s)
    BY <1>2, <1>8
  <2>2. ASSUME NEW i \in 1 .. b - 1 PROVE s[i] = Now.stk[i]
    <3>1. i \in 1 .. Len(Now.stk) /\ i \in 1 .. Len(Now.stk) + 1 /\ i # b
      BY <1>2
    <3> HIDE DEF b
    <3> QED
      BY <1>4, <1>6, <1>8, <3>1 DEF Keeps
  <2> QED
    BY <2>1, <2>2 DEF Keeps
<1> HIDE DEF T
<1>10. /\ Sound(m) /\ Last(m.cs) = Here /\ Running(m).stk = s /\ Running(m).nC < ErrCCalls
       /\ Running(m) = T
  BY <1>1, <1>5, <1>8, <1>9, CWritten
<1>11. GetTop(T) \in Nat /\ GetTop(T) <= Len(Running(m).stk)
  <2>1. T.stk = s /\ T.base = b
    BY <1>2, <1>5 DEF Thread
  <2> HIDE DEF m
  <2> QED
    BY <1>2, <1>8, <1>10, <2>1 DEF GetTop, Top
<1> HIDE DEF m
<1>12. Good(ReturnC(m, t, GetTop(T)))
  BY <1>1, <1>10, <1>11, ReturnCGood
<1> QED
  BY <1>1, <1>5, <1>12, Becomes DEF m

(* Java calls into the main thread, and takes the results off its stack.   *)
LEMMA JavaPcallStep ==
  ASSUME IInv, NEW c \in Loadable(Entries), NEW want \in Result, NEW handler \in Value,
         JavaPcall(c, want, handler)
  PROVE  IInv'
<1> DEFINE h == IF handler = NilValue THEN <<>> ELSE <<handler>>
           b == Now.base
           s == (Now.stk \o h) \o c
           m == Update(M, "main", [Now EXCEPT !.stk = s])
           g == IF h = <<>> THEN 0 ELSE b
<1>1. Here.k = "jni" /\ Become(BeginPcall(m, "main", b + Len(h), want, g))
  BY DEF JavaPcall
<1>2. /\ Now.stk \in Seq(Value) /\ Len(Now.stk) \in Nat /\ b \in Nat \ {0}
      /\ Len(Now.stk) >= b - 1 /\ Now \in Thread /\ Last(M.cs) = Here /\ M \in State /\ M.cs = cs
  BY <1>1, CFacts
<1>3. Here.t = "main"
  <2>1. Here \in Activation
    BY <1>1, CFacts, SoundFacts
  <2> QED
    BY <1>1, <2>1, ActivationFacts
<1>4. c \in Seq(Value) /\ Len(c) \in Nat \ {0}
  BY ArgumentsAre DEF Loadable
<1>5. h \in Seq(Value) /\ Len(h) \in Nat /\ g \in Nat
  BY <1>2
<1> HIDE DEF h, g
<1>6. s \in Seq(Value) /\ Len(s) = (Len(Now.stk) + Len(h)) + Len(c) /\ Keeps(Now.stk, s, Len(Now.stk))
  <2> DEFINE u == Now.stk \o h
  <2>1. /\ u \in Seq(Value) /\ Len(u) = Len(Now.stk) + Len(h)
        /\ Keeps(Now.stk, u, Len(Now.stk))
    BY <1>2, <1>5, ConcatKeeps
  <2> HIDE DEF u
  <2>2. u \o c \in Seq(Value) /\ Len(u \o c) = Len(u) + Len(c) /\ Keeps(u, u \o c, Len(u))
    BY <1>4, <2>1, ConcatKeeps
  <2>3. Keeps(u, u \o c, Len(Now.stk))
    <3>1. Len(Now.stk) <= Len(u) /\ Len(u) \in Int /\ Len(u) \in Nat /\ Len(u \o c) \in Nat
          /\ Len(Now.stk) \in Int
      BY <1>2, <1>4, <1>5, <2>1, <2>2
    <3> QED
      BY <2>2, <3>1, KeepsLess
  <2> QED
    BY <2>1, <2>2, <2>3, KeepsKeeps DEF u
<1> HIDE DEF s
<1>7. Keeps(Now.stk, s, b - 1)
  <2>1. Len(s) \in Nat /\ b - 1 \in Int /\ b - 1 <= Len(Now.stk) /\ Len(Now.stk) \in Int
    BY <1>2, <1>4, <1>5, <1>6
  <2> HIDE DEF b
  <2> QED
    BY <1>2, <1>6, <2>1, KeepsLess
<1>8. /\ Sound(m) /\ Last(m.cs) = Here /\ Running(m).stk = s /\ Running(m).nC < ErrCCalls
      /\ AboveAll(m, b)
  BY <1>1, <1>3, <1>6, <1>7, CWritten
<1> HIDE DEF m, b
<1>9. AboveAll(m, b + Len(h)) /\ b + Len(h) <= Len(Running(m).stk) /\ b + Len(h) > 0
  <2>1. b + Len(h) \in Nat /\ b <= b + Len(h) /\ b + Len(h) > 0
    BY <1>2, <1>5
  <2>2. b + Len(h) <= Len(Running(m).stk)
    BY <1>2, <1>4, <1>5, <1>6, <1>8 DEF b
  <2> QED
    BY <1>8, <2>1, <2>2, AboveMore
<1>10. Good(BeginPcall(m, "main", b + Len(h), want, g))
  BY <1>1, <1>3, <1>5, <1>8, <1>9, BeginPcallGood
<1> QED
  BY <1>1, <1>10, Becomes

LEMMA JavaSetTopStep ==
  ASSUME IInv, JavaSetTop
  PROVE  IInv'
<1> DEFINE b == Now.base
           s == Cut(Now.stk, b)
           m == Update(M, "main", [Now EXCEPT !.stk = s])
           a == [Here EXCEPT !.pc = "idle"]
           r == [m EXCEPT !.cs[1] = a]
<1>1. Here.k = "jni" /\ Become([Update(M, "main", SetTop(Now, 0)) EXCEPT !.cs[1].pc = "idle"])
  BY DEF JavaSetTop
<1>2. /\ Now.stk \in Seq(Value) /\ Len(Now.stk) \in Nat /\ b \in Nat \ {0}
      /\ Len(Now.stk) >= b - 1 /\ Now \in Thread /\ Last(M.cs) = Here /\ Sound(M) /\ M.cs = cs
  BY <1>1, CFacts
<1>3. Here \in Activation /\ Here.t = "main" /\ Len(cs) = 1
  <2>1. Here \in Activation /\ Len(cs) \in Nat \ {0} /\ ~(Len(cs) > 1)
    BY <1>1, <1>2, SoundFacts
  <2>2. Here.t = "main"
    BY <1>1, <2>1, ActivationFacts
  <2>3. Len(cs) = 1
    BY <2>1
  <2> QED
    BY <2>1, <2>2, <2>3
<1>4. a \in Activation /\ a.k = "jni" /\ a.t = "main" /\ a.pc = "idle"
  BY <1>1, <1>3 DEF Activation
<1> HIDE DEF a
<1>5. SetTop(Now, 0) = [Now EXCEPT !.stk = s]
  <2>1. SetTop(Now, 0) = CutTo(Now, b)
    BY <1>2 DEF SetTop
  <2> QED
    BY <2>1, CutIs
<1>6. s \in Seq(Value) /\ Keeps(Now.stk, s, b - 1)
  <2>1. b - 1 \in Int /\ b - 1 <= Len(Now.stk) /\ b - 1 < b
    BY <1>2
  <2> HIDE DEF b
  <2> QED
    BY <1>2, <2>1, CutFacts
<1> HIDE DEF s
<1>7. Sound(m) /\ Last(m.cs) = Here /\ Running(m).nC < ErrCCalls /\ m.cs = cs
  BY <1>1, <1>3, <1>6, CWritten
<1>8. [Update(M, "main", SetTop(Now, 0)) EXCEPT !.cs[1].pc = "idle"] = r
  <2>1. cs[1] = Here
    BY <1>2, <1>3, <1>7, SoundFacts
  <2> QED
    BY <1>5, <1>7, <2>1 DEF a
<1> HIDE DEF m
<1>9. PICK d, e \in [DOMAIN m.cs -> Nat] : Inv(m, d, e)
  BY <1>7 DEF Sound
<1>10. Quiet(m) /\ Len(m.cs) = 1 /\ r = [m EXCEPT !.cs[Len(m.cs)] = a]
  BY <1>3, <1>7 DEF Sound
<1> HIDE DEF r
<1>11. Inv(r, d, e) /\ Quiet(r) /\ Last(r.cs) = a /\ r.th = m.th
  <2>1. /\ a.k = Last(m.cs).k /\ a.t = Last(m.cs).t /\ a.k \in {"jni", "cfun"} /\ a.k # "cfun"
    BY <1>1, <1>3, <1>4, <1>7
  <2>2. LET x == [m EXCEPT !.cs[Len(m.cs)] = a]
        IN  Inv(x, d, e) /\ Quiet(x) /\ Last(x.cs) = a /\ x.th = m.th
    BY <1>4, <1>9, <1>10, <2>1, Continued
  <2> QED
    BY <1>10, <2>2
<1>12. Good(r)
  <2>1. Sound(r)
    BY <1>11, SoundFrom
  <2>2. Running(r).nC < ErrCCalls
    BY <1>3, <1>4, <1>7, <1>11 DEF Running
  <2> QED
    BY <1>4, <1>11, <2>1, <2>2, GoodTop
<1> QED
  BY <1>1, <1>8, <1>12, Becomes

(* While the main thread runs, the coroutine may be any that rests.        *)
LEMMA CoWritten ==
  ASSUME NEW m, NEW d, NEW e, Inv(m, d, e), Last(m.cs).t = "main",
         NEW K \in Thread, FramesInv(K), AtRest(K, NoOne)
  PROVE  LET r == Update(m, "co", K)
         IN  /\ Sound(r) /\ r.cs = m.cs /\ Running(r) = Running(m)
             /\ r.th["main"] = m.th["main"] /\ r.th["co"] = K
             /\ \A p : AboveAll(m, p) => AboveAll(r, p)
<1> DEFINE r == Update(m, "co", K)
<1>1. /\ m \in State /\ m.cs \in Seq(Activation) /\ Len(m.cs) \in Nat \ {0}
      /\ DOMAIN m.cs = 1 .. Len(m.cs) /\ ~Runs(m.cs) /\ StackInv(m.cs, d, e)
  BY RunningFacts DEF Inv
<1>2. "main" \in Threads /\ "co" \in Threads /\ "main" # "co"
  BY DEF Threads
<1>3. r \in State /\ r.cs = m.cs /\ r.th["co"] = K /\ r.th["main"] = m.th["main"]
  BY <1>1, <1>2, Updated
<1> HIDE DEF r
<1>4. \A i \in DOMAIN m.cs : m.cs[i].t = "main" /\ m.cs[i].k # "resume"
  <2>1. SUFFICES ASSUME NEW i \in DOMAIN m.cs
                 PROVE  m.cs[i].t = "main" /\ m.cs[i].k # "resume"
    OBVIOUS
  <2>2. m.cs[i].k # "resume"
    BY <1>1 DEF Runs
  <2>3. m.cs[i].t \in Threads /\ m.cs[i].t # "co"
    <3>1. i \in 1 .. Len(m.cs)
      BY <1>1
    <3>2. m.cs[i].t = "co" => \E j \in 1 .. Len(m.cs) : m.cs[j].k = "resume"
      BY <1>1, <3>1, StackFacts
    <3>3. m.cs[i].t \in Threads
      BY <1>1, <3>1, StackFacts
    <3> QED
      BY <1>1, <3>2, <3>3 DEF Runs
  <2> QED
    BY <2>2, <2>3 DEF Threads
<1>5. \A i \in DOMAIN r.cs : ActivationInv(r, d, e, i)
  <2>1. SUFFICES ASSUME NEW i \in DOMAIN m.cs
                 PROVE  ActivationInv(r, d, e, i)
    BY <1>3
  <2>2. ActivationInv(m, d, e, i)
    BY DEF Inv
  <2>3. r.cs[i] = m.cs[i] /\ r.th[m.cs[i].t] = m.th[m.cs[i].t] /\ m.cs[i].k # "resume"
    BY <1>3, <1>4
  <2> QED
    BY <1>3, <2>2, <2>3 DEF ActivationInv
<1>6. AtRest(K, Last(m.cs)) /\ ~Runs(r.cs) /\ K.ci # <<>>
  BY <1>1, <1>3, QuietAnswers DEF FramesInv
<1>7. FramesInv(r.th["main"]) /\ r.th["main"].baseC = 0
  BY <1>3 DEF Inv
<1>8. CoroutineInv(r)
  BY <1>3, <1>6 DEF CoroutineInv
<1>9. Inv(r, d, e) /\ Quiet(r)
  BY <1>1, <1>3, <1>5, <1>6, <1>7, <1>8 DEF Inv, Quiet
<1>10. Running(r) = Running(m)
  BY <1>3 DEF Running
<1>11. ASSUME NEW p, AboveAll(m, p) PROVE AboveAll(r, p)
  BY <1>3, <1>10, <1>11 DEF AboveAll
<1> QED
  BY <1>3, <1>9, <1>10, <1>11, SoundFrom DEF r

(* stack_init makes the frame of the thread.                                *)
LEMMA NewFrames ==
  ASSUME NEW s \in Seq(Value), Len(s) > 0, s[1] = NilValue
  PROVE  LET K == [NewThread EXCEPT !.stk = s]
         IN  /\ K \in Thread /\ FramesInv(K) /\ K.stk = s /\ K.status = "ok"
             /\ Len(K.ci) = 1 /\ K.ci # <<>> /\ K.nC = 0 /\ K.baseC = 0
<1> DEFINE c == [func |-> 1, base |-> 2, top |-> 2 + MinStack, want |-> 0,
                 lua |-> FALSE, captured |-> {}, under |-> <<NilValue>>]
           K == [NewThread EXCEPT !.stk = s]
<1>1. K = [stk |-> s, base |-> 2, ci |-> <<c>>, status |-> "ok", nC |-> 0,
           baseC |-> 0, ef |-> 0, open |-> {}, over |-> FALSE]
  <2> DEFINE N == [stk |-> <<NilValue>>, base |-> 2, ci |-> <<c>>, status |-> "ok", nC |-> 0,
                   baseC |-> 0, ef |-> 0, open |-> {}, over |-> FALSE]
  <2>1. NewThread = N
    BY DEF NewThread
  <2>2. K = [N EXCEPT !.stk = s]
    BY <2>1
  <2> HIDE DEF c, K
  <2> QED
    BY <2>2
<1> HIDE DEF K
<1>2. /\ <<NilValue>> \in Seq(Value) /\ Len(<<NilValue>>) = 1 /\ <<NilValue>>[1] = NilValue
      /\ Len(s) \in Nat
  BY DEF Value
<1>3. c \in CallInfo /\ c.func = 1 /\ c.base = 2 /\ ~c.lua /\ c.captured = {}
      /\ c.under = <<NilValue>>
  <2>1. 0 \in Result /\ 1 \in Nat /\ 2 \in Nat /\ 2 + MinStack \in Nat
    BY LimitsOrdered DEF Result
  <2> QED
    BY <1>2, <2>1 DEF CallInfo
<1> HIDE DEF c
<1>4. K \in Thread
  <2>1. <<c>> \in Seq(CallInfo)
    BY <1>3
  <2> QED
    BY <1>1, <2>1 DEF Thread
<1>5. /\ K.stk = s /\ K.base = 2 /\ K.ci = <<c>> /\ K.status = "ok" /\ K.open = {}
      /\ ~K.over /\ K.nC = 0 /\ K.baseC = 0
  BY <1>1
<1>6. Len(K.ci) = 1 /\ K.ci[1] = c /\ K.ci # <<>> /\ Low(c) = 2
  BY <1>3, <1>5 DEF Low
<1>7. SubSeq(K.stk, 1, 1) = <<NilValue>>
  <2> DEFINE x == SubSeq(s, 1, 1)
  <2>1. 1 \in 0 .. Len(s)
    BY <1>2
  <2>2. x \in Seq(Value) /\ Len(x) = 1 /\ Keeps(s, x, 1)
    BY <2>1, CutKeeps
  <2>3. x[1] = NilValue
    BY <2>2 DEF Keeps
  <2> HIDE DEF x
  <2>4. x = <<NilValue>>
    BY <1>2, <2>2, <2>3
  <2> QED
    BY <1>5, <2>4 DEF x
<1>8. UNION {K.ci[i].captured : i \in 1 .. 1} = {}
  <2>1. \A i \in 1 .. 1 : K.ci[i].captured = {}
    BY <1>3, <1>6
  <2> QED
    BY <2>1
<1>9. 1 <= SizeCI(K)
  BY <1>5, LimitsOrdered DEF SizeCI
<1>10. FramesInv(K)
  <2>1. \A i \in 1 .. 1 : /\ 0 < K.ci[i].func /\ K.ci[i].func < K.ci[i].base
                          /\ ~K.ci[i].lua /\ K.ci[i].captured = {}
                          /\ SubSeq(K.stk, 1, K.ci[i].func) = K.ci[i].under
    <3>1. SUFFICES ASSUME NEW i \in 1 .. 1
                   PROVE  /\ 0 < K.ci[i].func /\ K.ci[i].func < K.ci[i].base
                          /\ ~K.ci[i].lua /\ K.ci[i].captured = {}
                          /\ SubSeq(K.stk, 1, K.ci[i].func) = K.ci[i].under
      OBVIOUS
    <3>2. i = 1 /\ K.ci[i] = c
      BY <1>6
    <3>3. SubSeq(K.stk, 1, K.ci[i].func) = K.ci[i].under
      BY <1>3, <1>7, <3>2
    <3>4. 0 < K.ci[i].func /\ K.ci[i].func < K.ci[i].base
      BY <1>3, <3>2
    <3> QED
      BY <1>3, <3>2, <3>3, <3>4
  <2>2. \A i, j \in 1 .. 1 : ~(i < j)
    OBVIOUS
  <2>3. /\ 1 \in Nat \ {0} /\ K.ci[1].base = 2 /\ ~K.ci[1].lua /\ K.base = K.ci[1].base
        /\ Len(K.stk) >= Low(K.ci[1]) - 1 /\ K.open = UNION {K.ci[i].captured : i \in 1 .. 1}
    BY <1>2, <1>3, <1>5, <1>6, <1>8
  <2> QED
    BY <1>4, <1>6, <1>9, <2>1, <2>2, <2>3, FramesFrom
<1> QED
  BY <1>4, <1>5, <1>6, <1>10 DEF K

(* The body of a new coroutine waits above the frame of its thread.        *)
LEMMA NewThreadFacts ==
  ASSUME NEW f \in LuaFunctions
  PROVE  LET K == PushValueOf(NewThread, f)
         IN  K \in Thread /\ FramesInv(K) /\ AtRest(K, NoOne) /\ K.ci # <<>>
<1> DEFINE s == Append(<<NilValue>>, f)
           K == [NewThread EXCEPT !.stk = s]
<1>1. f \in Value /\ NilValue \in Value
  BY DEF Value
<1>2. s \in Seq(Value) /\ Len(s) = 2 /\ s[1] = NilValue /\ s[2] = f
  <2>1. <<NilValue>> \in Seq(Value) /\ Len(<<NilValue>>) = 1 /\ <<NilValue>>[1] = NilValue
    BY <1>1
  <2>2. s \in Seq(Value) /\ Len(s) = 1 + 1 /\ s[1 + 1] = f
        /\ \A i \in 1 .. 1 : s[i] = <<NilValue>>[i]
    BY <1>1, <2>1, Appended
  <2> QED
    BY <2>1, <2>2
<1>3. PushValueOf(NewThread, f) = K
  <2>1. NewThread.stk = <<NilValue>>
    BY DEF NewThread
  <2> QED
    BY <2>1 DEF PushValueOf
<1> HIDE DEF s
<1>4. /\ K \in Thread /\ FramesInv(K) /\ K.stk = s /\ K.status = "ok"
      /\ Len(K.ci) = 1 /\ K.ci # <<>>
  BY <1>2, NewFrames
<1> HIDE DEF K
<1>5. AtRest(K, NoOne)
  BY <1>2, <1>4 DEF AtRest
<1> QED
  BY <1>3, <1>4, <1>5

LEMMA BaseCoWrapStep ==
  ASSUME IInv, BaseCoWrap
  PROVE  IInv'
<1> DEFINE f == ValueAt(Now, 1)
           K == PushValueOf(NewThread, f)
           m == [M EXCEPT !.th["co"] = K]
           s == Append(Now.stk, "wrapped")
           r == Update(m, Here.t, PushValueOf(Now, "wrapped"))
<1>1. Here.k = "cfun" /\ Here.f = "wrap" /\ ~(Created /\ f \in LuaFunctions)
      /\ Become(IF f \notin LuaFunctions THEN RunError(M, Here.t) ELSE ReturnC(r, Here.t, 1))
  BY DEF BaseCoWrap, InC
<1>2. /\ Now.stk \in Seq(Value) /\ Len(Now.stk) \in Nat
      /\ Now \in Thread /\ M \in State /\ M.th = th /\ M.cs = cs
      /\ Sound(M) /\ Last(M.cs) = Here /\ Running(M) = Now /\ Now.nC < ErrCCalls
      /\ AboveAll(M, Len(Now.stk) + 1) /\ Here.t \in Threads
  BY <1>1, CFacts
<1> HIDE DEF f
<1>3. CASE f \notin LuaFunctions
  <2>1. Good(RunError(M, Here.t))
    BY <1>1, <1>2, RunErrorRests
  <2> QED
    BY <1>1, <1>3, <2>1, Becomes
<1>4. CASE f \in LuaFunctions
  <2>1. PICK d, e \in [DOMAIN M.cs -> Nat] : Inv(M, d, e)
    BY <1>2 DEF Sound
  <2>2. Here.t = "main"
    <3>1. th["co"].ci = <<>>
      BY <1>1, <1>4 DEF Created
    <3>2. Last(M.cs).t = "co" => M.th["co"].ci # <<>>
      BY <2>1, RunningFacts
    <3> QED
      BY <1>2, <3>1, <3>2 DEF Threads
  <2>3. K \in Thread /\ FramesInv(K) /\ AtRest(K, NoOne)
    BY <1>4, NewThreadFacts
  <2>4. m = Update(M, "co", K)
    BY DEF Update
  <2> HIDE DEF K, m
  <2>5. /\ Sound(m) /\ m.cs = M.cs /\ Running(m) = Running(M)
        /\ \A p : AboveAll(M, p) => AboveAll(m, p)
    <3>1. Last(M.cs).t = "main"
      BY <1>2, <2>2
    <3> QED
      BY <2>1, <2>3, <2>4, <3>1, CoWritten
  <2>6. AboveAll(m, Len(Now.stk) + 1) /\ Begun(m) /\ Last(m.cs) = Here /\ Running(m) = Now
    BY <1>1, <1>2, <2>5 DEF Begun
  <2>7. s \in Seq(Value) /\ Len(s) = Len(Now.stk) + 1 /\ Keeps(Now.stk, s, Len(Now.stk))
    <3>1. "wrapped" \in Value
      BY DEF Value, CFunctions
    <3> QED
      BY <1>2, <3>1, AppendKeeps
  <2>8. r = Update(m, Last(m.cs).t, [Running(m) EXCEPT !.stk = s])
    BY <2>6 DEF PushValueOf
  <2> HIDE DEF s, r
  <2>9. Sound(r) /\ r.cs = m.cs /\ Running(r).stk = s /\ Running(r).nC = Running(m).nC
    <3>1. Keeps(Running(m).stk, s, (Len(Now.stk) + 1) - 1)
      BY <1>2, <2>6, <2>7
    <3> DEFINE p == Len(Now.stk) + 1
    <3>2. AboveAll(m, p) /\ Keeps(Running(m).stk, s, p - 1) /\ Begun(m) /\ Sound(m)
          /\ s \in Seq(Value)
      BY <2>5, <2>6, <2>7, <3>1
    <3> HIDE DEF p
    <3> QED
      BY <2>8, <3>2, SoundStack
  <2>10. Good(ReturnC(r, Here.t, 1))
    <3>1. Last(r.cs) = Here
      BY <2>6, <2>9
    <3>2. 1 \in Nat /\ 1 <= Len(Running(r).stk) /\ Running(r).nC < ErrCCalls
      BY <1>2, <2>6, <2>7, <2>9
    <3> QED
      BY <1>1, <2>9, <3>1, <3>2, ReturnCGood
  <2> QED
    BY <1>1, <1>4, <2>10, Becomes
<1> QED
  BY <1>3, <1>4

(* A slice up to the top.                                                  *)
LEMMA UpperSlice ==
  ASSUME NEW s \in Seq(Value), NEW n \in 0 .. Len(s)
  PROVE  LET x == SubSeq(s, Len(s) - n + 1, Len(s))
         IN  x \in Seq(Value) /\ Len(x) = n
<1> DEFINE k == Len(s) - n
           x == SubSeq(s, Len(s) - n + 1, Len(s))
<1>1. k \in Nat /\ k + 1 \in Nat \ {0} /\ Len(s) \in Nat /\ k = Len(s) - n /\ n \in Nat
  OBVIOUS
<1>2. SubSeq(s, k + 1, Len(s)) \in Seq(Value)
  <2> HIDE DEF k
  <2> QED
    BY <1>1, Slice
<1>3. SubSeq(s, k + 1, Len(s)) = [i \in 1 .. n |-> s[i + (k + 1) - 1]]
  <2>1. Len(s) - (k + 1) + 1 = n
    BY <1>1
  <2> HIDE DEF k
  <2>2. SubSeq(s, k + 1, Len(s)) = [i \in 1 .. (1 + Len(s) - (k + 1)) |-> s[i + (k + 1) - 1]]
    BY <1>1
  <2>3. 1 + Len(s) - (k + 1) = n
    BY <1>1, <2>1
  <2> QED
    BY <2>2, <2>3
<1>4. Len(SubSeq(s, k + 1, Len(s))) = n
  <2> HIDE DEF k
  <2> QED
    BY <1>1, <1>2, <1>3
<1> QED
  BY <1>2, <1>4

(* What a coroutine leaves when its values are taken off.                  *)
LEMMA TakenFrom ==
  ASSUME NEW C \in Thread, FramesInv(C), NEW a, AtRest(C, a), NEW n \in Nat,
         \/ n = GetTop(C) /\ C.status # "error"
         \/ n = 1 /\ C.status = "error" /\ Len(C.stk) >= Low(Frame(C))
  PROVE  LET K == MovedFrom(C, n)
         IN  K \in Thread /\ FramesInv(K) /\ AtRest(K, NoOne) /\ n <= Len(C.stk)
<1> DEFINE k == Len(C.stk) - n
           s == SubSeq(C.stk, 1, k)
           K == MovedFrom(C, n)
           p == Low(Frame(C))
<1>1. /\ C.stk \in Seq(Value) /\ Len(C.stk) \in Nat /\ Len(C.ci) \in Nat \ {0}
      /\ Frame(C) = C.ci[Len(C.ci)] /\ C.base = Frame(C).base /\ C.base \in Nat
      /\ Len(C.stk) >= p - 1 /\ p \in Nat /\ p > 0
  <2>1. /\ C.stk \in Seq(Value) /\ Len(C.stk) \in Nat /\ Len(C.ci) \in Nat \ {0}
        /\ Frame(C) = C.ci[Len(C.ci)] /\ C.base = Frame(C).base /\ C.base \in Nat
        /\ Len(C.stk) >= p - 1 /\ Len(C.ci) \in 1 .. Len(C.ci)
    BY FramesFacts
  <2>2. p \in Nat /\ Frame(C).func < p /\ Frame(C).func \in Nat
    BY <2>1, FramesFacts
  <2> QED
    BY <2>1, <2>2
<1>2. C.status # "error" => ~Frame(C).lua /\ p = C.base /\ (C.status = "ok" => C.base = 2)
  <2>1. SUFFICES ASSUME C.status # "error"
                 PROVE  ~Frame(C).lua /\ (C.status = "ok" => C.base = 2)
    BY <1>1 DEF Low
  <2>2. CASE C.status = "yield"
    BY <2>2 DEF AtRest
  <2>3. CASE C.status = "ok"
    <3>1. Len(C.ci) = 1
      BY <2>3 DEF AtRest
    <3> QED
      BY <1>1, <3>1 DEF FramesInv
  <2> QED
    BY <2>1, <2>2, <2>3 DEF AtRest
<1> HIDE DEF p
<1>3. n <= Len(C.stk) /\ k \in 0 .. Len(C.stk) /\ p - 1 <= k /\ (C.status # "error" => k = p - 1)
  <2>1. CASE n = GetTop(C) /\ C.status # "error"
    <3>1. n = (Len(C.stk) + 1) - p
      BY <1>2, <2>1 DEF GetTop, Top
    <3> QED
      BY <1>1, <3>1
  <2>2. CASE n = 1 /\ C.status = "error" /\ Len(C.stk) >= Low(Frame(C))
    <3>1. n = 1 /\ Len(C.stk) >= p
      BY <2>2 DEF p
    <3> QED
      BY <1>1, <2>2, <3>1
  <2> QED
    BY <2>1, <2>2
<1>4. K = [C EXCEPT !.stk = s]
  BY DEF MovedFrom
<1> HIDE DEF k
<1>5. s \in Seq(Value) /\ Len(s) = k /\ Keeps(C.stk, s, k)
  BY <1>1, <1>3, CutKeeps
<1> HIDE DEF s, K
<1>6. /\ K \in Thread /\ Alike(C, K) /\ K.stk = s /\ K.status = C.status /\ K.ci = C.ci
      /\ Frame(K) = Frame(C)
  BY <1>4, <1>5, StackAlike
<1>7. Keeps(C.stk, K.stk, p - 1)
  <2>1. p - 1 \in Int /\ p - 1 <= k /\ k \in Int /\ Len(s) \in Nat
    BY <1>1, <1>3, <1>5
  <2> QED
    BY <1>1, <1>5, <1>6, <2>1, KeepsLess
<1>8. FramesInv(K)
  <2>1. Low(Frame(C)) <= p
    BY <1>1 DEF p
  <2> QED
    BY <1>1, <1>6, <1>7, <2>1, FramesAlike
<1>9. AtRest(K, NoOne)
  <2>1. CASE C.status = "error"
    BY <1>6, <2>1 DEF AtRest
  <2>2. CASE C.status = "yield"
    BY <1>6, <2>2 DEF AtRest
  <2>3. CASE C.status = "ok"
    <3>1. Len(K.stk) = 1
      BY <1>2, <1>3, <1>5, <1>6, <2>3
    <3>2. Len(K.ci) = 1
      BY <1>6, <2>3 DEF AtRest
    <3> QED
      BY <1>6, <2>3, <3>1, <3>2 DEF AtRest
  <2> QED
    BY <2>1, <2>2, <2>3 DEF AtRest
<1> QED
  BY <1>3, <1>6, <1>8, <1>9 DEF K

(* A resumed coroutine gave the control back: its values move over.        *)
LEMMA AuxWrapDoneStep ==
  ASSUME IInv, AuxWrapDone
  PROVE  IInv'
<1> DEFINE t == Here.t
           C == th["co"]
           n == IF Here.pc = "ok" THEN GetTop(C) ELSE 1
           K == MovedFrom(C, n)
           m1 == Update(M, "co", K)
           x == SubSeq(C.stk, Len(C.stk) - n + 1, Len(C.stk))
           s == Now.stk \o x
           m == Update(m1, t, MovedTo(Now, n, C))
           p == Len(Now.stk) + 1
<1>1. /\ Here.k = "cfun" /\ Here.f = "wrapped" /\ Here.pc \in {"ok", "failed"}
      /\ Become(IF Here.pc = "ok" THEN ReturnC(m, t, n) ELSE ErrorMsg(m, t))
  BY DEF AuxWrapDone, InC
<1>2. /\ M \in State /\ M.cs = cs /\ M.th = th /\ Last(M.cs) = Here /\ Running(M) = Now
      /\ Now.nC < ErrCCalls
  BY Starts
<1>3. PICK d, e \in [DOMAIN M.cs -> Nat] : Inv(M, d, e) /\ Rests(M, e)
  BY DEF IInv, Good
<1>4. /\ Now \in Thread /\ FramesInv(Now) /\ Now.stk \in Seq(Value) /\ Len(Now.stk) \in Nat
      /\ t = "main"
  <2>1. Now \in Thread /\ FramesInv(Now) /\ Now.stk \in Seq(Value)
    BY <1>2, <1>3, RunningFacts
  <2>2. Len(M.cs) \in DOMAIN M.cs /\ Last(M.cs) = M.cs[Len(M.cs)]
    BY <1>3, RunningFacts
  <2>3. ActivationInv(M, d, e, Len(M.cs))
    BY <1>3, <2>2 DEF Inv
  <2>4. t = "main"
    BY <1>1, <1>2, <2>2, <2>3 DEF ActivationInv
  <2> QED
    BY <2>1, <2>4, LenProperties
<1>5. /\ C \in Thread /\ FramesInv(C) /\ AtRest(C, Here)
      /\ Here.pc = "ok" => C.status # "error"
      /\ Here.pc = "failed" => C.status = "error" /\ Len(C.stk) >= Low(Frame(C))
  <2>1. M.th["co"] \in Thread
    BY <1>2 DEF State, Threads
  <2>2. C.ci # <<>> /\ (Here.pc = "ok" => C.status # "error")
        /\ (Here.pc = "failed" => C.status = "error" /\ Len(C.stk) >= Low(Frame(C)))
    BY <1>1, <1>2, <1>3 DEF Rests
  <2>3. CoroutineInv(M) /\ ~Runs(M.cs)
    BY <1>2, <1>3, <1>4, RunningFacts DEF Inv
  <2> QED
    BY <1>2, <2>1, <2>2, <2>3 DEF CoroutineInv
<1>6. K \in Thread /\ FramesInv(K) /\ AtRest(K, NoOne) /\ n <= Len(C.stk) /\ n \in Nat
  <2>1. n \in Nat /\ (\/ n = GetTop(C) /\ C.status # "error"
                      \/ n = 1 /\ C.status = "error" /\ Len(C.stk) >= Low(Frame(C)))
    <3>1. CASE Here.pc = "ok"
      <4>1. n = (Len(C.stk) + 1) - C.base
        BY <3>1 DEF GetTop, Top
      <4>2. C.base \in Nat /\ C.base <= Low(C.ci[Len(C.ci)]) /\ Len(C.stk) \in Nat
            /\ Len(C.stk) >= Low(C.ci[Len(C.ci)]) - 1 /\ Low(C.ci[Len(C.ci)]) \in Nat
        <5>1. Len(C.ci) \in 1 .. Len(C.ci) /\ C.base = C.ci[Len(C.ci)].base
          BY <1>5, FramesFacts
        <5> QED
          BY <1>5, <5>1, FramesFacts
      <4>3. n \in Nat
        BY <4>1, <4>2
      <4> QED
        BY <1>5, <3>1, <4>3
    <3>2. CASE Here.pc = "failed"
      BY <1>5, <3>2
    <3> QED
      BY <1>1, <3>1, <3>2
  <2> HIDE DEF n, C
  <2> QED
    BY <1>5, <2>1, TakenFrom
<1> HIDE DEF n, K
<1>7. /\ Sound(m1) /\ m1.cs = M.cs /\ Running(m1) = Running(M)
      /\ \A q : AboveAll(M, q) => AboveAll(m1, q)
  BY <1>2, <1>3, <1>4, <1>6, CoWritten
<1> HIDE DEF m1
<1>8. AboveAll(m1, p) /\ Begun(m1) /\ Last(m1.cs) = Here
  <2>1. AboveAll(m1, Low(Frame(Now)))
    BY <1>1, <1>2, <1>3, <1>7, LowAboveAll
  <2>2. p \in Nat /\ Low(Frame(Now)) <= p
    <3>1. Len(Now.stk) >= Low(Now.ci[Len(Now.ci)]) - 1 /\ Frame(Now) = Now.ci[Len(Now.ci)]
          /\ Len(Now.ci) \in 1 .. Len(Now.ci)
      BY <1>4, FramesFacts
    <3>2. Low(Frame(Now)) \in Nat
      BY <1>4, <3>1, FramesFacts
    <3> QED
      BY <1>4, <3>1, <3>2
  <2> HIDE DEF p
  <2> QED
    BY <1>1, <1>2, <1>7, <2>1, <2>2, AboveMore DEF Begun
<1>9. x \in Seq(Value) /\ Len(x) = n
  <2>1. C.stk \in Seq(Value) /\ n \in 0 .. Len(C.stk)
    BY <1>5, <1>6, FramesFacts
  <2> HIDE DEF C
  <2> QED
    BY <2>1, UpperSlice
<1>10. MovedTo(Now, n, C) = [Now EXCEPT !.stk = s]
  BY DEF MovedTo
<1> HIDE DEF x, C
<1>11. s \in Seq(Value) /\ Len(s) = Len(Now.stk) + n /\ Keeps(Now.stk, s, Len(Now.stk))
  BY <1>4, <1>9, ConcatKeeps
<1> HIDE DEF s
<1>12. m = Update(m1, Last(m1.cs).t, [Running(m1) EXCEPT !.stk = s])
  BY <1>2, <1>7, <1>8, <1>10
<1>13. Keeps(Running(m1).stk, s, p - 1)
  BY <1>2, <1>4, <1>7, <1>11
<1> HIDE DEF m, p
<1>14. /\ Sound(m) /\ Begun(m) /\ AboveAll(m, p) /\ m.cs = m1.cs /\ Running(m).stk = s
       /\ Running(m).nC = Running(m1).nC
  BY <1>7, <1>8, <1>11, <1>12, <1>13, SoundStack
<1>15. Last(m.cs) = Here /\ Running(m).nC < ErrCCalls
  BY <1>2, <1>7, <1>8, <1>14
<1>16. CASE Here.pc = "ok"
  <2>1. n <= Len(Running(m).stk)
    BY <1>4, <1>6, <1>11, <1>14
  <2>2. Good(ReturnC(m, t, n))
    BY <1>1, <1>6, <1>14, <1>15, <2>1, ReturnCGood
  <2> QED
    BY <1>1, <1>16, <2>2, Becomes
<1>17. CASE Here.pc # "ok"
  <2>1. p = Len(Running(m).stk)
    <3>1. n = 1
      BY <1>17 DEF n
    <3> QED
      BY <1>11, <1>14, <3>1 DEF p
  <2>2. AboveAll(m, Len(Running(m).stk))
    BY <1>14, <2>1
  <2>3. Good(ErrorMsg(m, t))
    BY <1>1, <1>14, <1>15, <2>2, ErrorMsgGood
  <2> QED
    BY <1>1, <1>17, <2>3, Becomes
<1> QED
  BY <1>16, <1>17

(* lua_resume enters a coroutine, of which it sees the first frame only.   *)
LEMMA ResumeEntered ==
  ASSUME NEW m, NEW d, NEW e, Inv(m, d, e), NEW a, a = Last(m.cs),
         a.k = "cfun", a.f = "wrapped", a.t = "main",
         NEW K \in Thread, FramesInv(K), K.status = "ok", Len(K.ci) = 1,
         K.nC = Running(m).nC + 1, K.baseC = K.nC
  PROVE  LET r == Enter(Update(m, "co", K), [k |-> "resume", t |-> "co"])
         IN  /\ Sound(r) /\ Begun(r) /\ Running(r) = K
             /\ Last(r.cs) = [k |-> "resume", t |-> "co"] /\ AboveAll(r, 2)
<1> DEFINE b == [k |-> "resume", t |-> "co"]
           m1 == Update(m, "co", K)
           r == Enter(m1, b)
           n == Len(m.cs)
           d1 == More(d, n, 1)
           e1 == More(e, n, e[n] + 1)
<1>1. /\ m \in State /\ m.cs \in Seq(Activation) /\ n \in Nat \ {0} /\ n \in Nat /\ m.cs # <<>>
      /\ DOMAIN m.cs = 1 .. n /\ ~Runs(m.cs) /\ StackInv(m.cs, d, e) /\ a = m.cs[n]
      /\ Running(m).nC = e[n]
  BY RunningFacts DEF Inv
<1>2. "main" \in Threads /\ "co" \in Threads /\ "main" # "co"
  BY DEF Threads
<1>3. m1 \in State /\ m1.cs = m.cs /\ m1.th["co"] = K /\ m1.th["main"] = m.th["main"]
  BY <1>1, <1>2, Updated
<1>4. b \in Activation /\ b.k = "resume" /\ b.t = "co"
  BY DEF Activation
<1> HIDE DEF b, m1
<1>5. /\ r \in State /\ r.th = m1.th /\ r.cs = Append(m.cs, b) /\ DOMAIN r.cs = 1 .. n + 1
      /\ Len(r.cs) = n + 1 /\ \A i \in 1 .. n : r.cs[i] = m.cs[i]
      /\ r.cs[n + 1] = b /\ Last(r.cs) = b
  BY <1>3, <1>4, Entered
<1> HIDE DEF r
<1>6. /\ \A i \in 1 .. n : m.cs[i] \in Activation /\ d[i] \in Nat /\ e[i] \in Nat
      /\ \A i \in 1 .. n : m.cs[i].t = "main" /\ m.cs[i].k # "resume"
  <2>1. SUFFICES ASSUME NEW i \in 1 .. n
                 PROVE  /\ m.cs[i] \in Activation /\ d[i] \in Nat /\ e[i] \in Nat
                        /\ m.cs[i].t = "main" /\ m.cs[i].k # "resume"
    OBVIOUS
  <2>2. /\ m.cs[i] \in Activation /\ d[i] \in Nat /\ e[i] \in Nat /\ m.cs[i].t \in Threads
        /\ m.cs[i].t = "co" => \E j \in 1 .. n : m.cs[j].k = "resume"
    BY <1>1, StackFacts
  <2> QED
    BY <1>1, <2>2 DEF Runs, Threads
<1>7. StackInv(r.cs, d1, e1)
  <2>1. Above(a, b)
    BY <1>4 DEF Above
  <2>2. FramesIn(b) = 1 /\ Adds(b) = 1
    BY <1>4 DEF FramesIn, Adds, Nested
  <2>3. a.t # "co"
    BY <1>2
  <2>4. StackInv(Append(m.cs, b),
                 More(d, n, (IF b.k = "resume" THEN 0 ELSE d[n]) + FramesIn(b)),
                 More(e, n, e[n] + Adds(b)))
    BY <1>1, <1>4, <2>1, <2>3, StackPush
  <2> QED
    BY <1>4, <1>5, <2>2, <2>4
<1>8. /\ \A i \in 1 .. n : d1[i] = d[i] /\ e1[i] = e[i]
      /\ d1[n + 1] = 1 /\ e1[n + 1] = e[n] + 1
  <2>1. n + 1 \in 1 .. n + 1 /\ ~(n + 1 <= n) /\ \A i \in 1 .. n : i \in 1 .. n + 1 /\ i <= n
    BY <1>1
  <2> QED
    BY <2>1 DEF More
<1> HIDE DEF d1, e1, n
<1>9. \A i \in 1 .. n : ActivationInv(r, d1, e1, i)
  <2>1. SUFFICES ASSUME NEW i \in 1 .. n
                 PROVE  ActivationInv(r, d1, e1, i)
    OBVIOUS
  <2>2. ActivationInv(m, d, e, i)
    BY <1>1 DEF Inv
  <2>3. r.cs[i] = m.cs[i] /\ r.th[m.cs[i].t] = m.th[m.cs[i].t] /\ m.cs[i].k # "resume"
        /\ d1[i] = d[i] /\ e1[i] = e[i]
    BY <1>3, <1>5, <1>6, <1>8
  <2>4. IsLast(r.cs, i) => IsLast(m.cs, i)
    <3>1. CASE i = n
      BY <3>1 DEF IsLast, n
    <3>2. CASE i # n
      <4>1. i # n + 1 /\ i + 1 \in 1 .. n
        BY <1>1, <3>2
      <4>2. r.cs[i + 1] = m.cs[i + 1]
        BY <1>5, <4>1
      <4> QED
        BY <1>5, <4>1, <4>2 DEF IsLast
    <3> QED
      BY <3>1, <3>2
  <2>5. ~Owns(b)
    BY <1>4 DEF Owns
  <2>6. ASSUME NEW j \in DOMAIN r.cs, Owns(r.cs[j]) PROVE j \in DOMAIN m.cs /\ r.cs[j] = m.cs[j]
    <3>1. j # n + 1
      BY <1>5, <2>5, <2>6
    <3>2. j \in 1 .. n
      BY <1>1, <1>5, <3>1
    <3> QED
      BY <1>1, <1>5, <3>2
  <2> QED
    BY <2>2, <2>3, <2>4, <2>6 DEF ActivationInv
<1>10. ActivationInv(r, d1, e1, n + 1)
  <2>1. r.th["co"] = K /\ r.cs[n + 1] = b /\ b.t = "co"
    BY <1>3, <1>4, <1>5
  <2>2. d1[n + 1] \in DOMAIN K.ci /\ Len(K.ci) = d1[n + 1]
    <3>1. DOMAIN K.ci = 1 .. Len(K.ci)
      BY FramesFacts
    <3> QED
      BY <1>8, <3>1
  <2>3. K.nC = e1[n + 1] /\ K.baseC = e1[n + 1]
    BY <1>1, <1>8
  <2> QED
    BY <1>4, <2>1, <2>2, <2>3 DEF ActivationInv, Owns
<1>11. Runs(r.cs)
  <2>1. n + 1 \in DOMAIN r.cs
    BY <1>1, <1>5
  <2> QED
    BY <1>4, <1>5, <2>1 DEF Runs
<1>12. K.ci # <<>>
  BY DEF FramesInv
<1>13. CoroutineInv(r)
  BY <1>3, <1>5, <1>11, <1>12 DEF CoroutineInv
<1>14. Inv(r, d1, e1) /\ Quiet(r)
  <2>1. FramesInv(r.th["main"]) /\ r.th["main"].baseC = 0
    BY <1>3, <1>5 DEF Inv
  <2>2. \A i \in DOMAIN r.cs : ActivationInv(r, d1, e1, i)
    <3>1. SUFFICES ASSUME NEW i \in 1 .. n + 1 PROVE ActivationInv(r, d1, e1, i)
      BY <1>5
    <3>2. i \in 1 .. n \/ i = n + 1
      BY <1>1
    <3> QED
      BY <1>9, <1>10, <3>2
  <2> QED
    BY <1>5, <1>7, <1>11, <1>13, <2>1, <2>2 DEF Inv, Quiet
<1>15. Running(r) = K
  BY <1>3, <1>4, <1>5 DEF Running
<1>16. AboveAll(r, 2)
  <2>1. Low(Frame(K)) <= 2 /\ 2 \in Nat
    <3>1. Frame(K) = K.ci[1]
      BY FramesFacts
    <3>2. K.ci[1].base = 2 /\ ~K.ci[1].lua
      BY DEF FramesInv
    <3> QED
      BY <3>1, <3>2 DEF Low
  <2>2. ASSUME NEW j \in DOMAIN r.cs, Owns(r.cs[j]), r.cs[j].t = "co" PROVE FALSE
    <3>1. j # n + 1
      BY <1>4, <1>5, <2>2 DEF Owns
    <3>2. j \in 1 .. n
      BY <1>1, <1>5, <3>1
    <3> QED
      BY <1>2, <1>5, <1>6, <2>2, <3>2
  <2> QED
    BY <1>4, <1>5, <1>15, <2>1, <2>2 DEF AboveAll
<1>17. Sound(r) /\ Begun(r) /\ Last(r.cs) = b
  BY <1>4, <1>5, <1>14, SoundFrom DEF Begun
<1> QED
  BY <1>15, <1>16, <1>17 DEF r, m1, b

LEMMA EnterUpdated ==
  ASSUME NEW m \in State, NEW t \in Threads, NEW U, NEW b
  PROVE  Update(Enter(m, b), t, U) = Enter(Update(m, t, U), b)
BY DEF Update, Enter, State

(* The arguments arrive, and the coroutine counts on from its resumer.     *)
Arrives(C, x, k, h, K) ==
  /\ C \in Thread /\ FramesInv(C) /\ x \in Seq(Value) /\ k \in Int
  /\ h \in {"ok", "yield", "error"}
  /\ K = [C EXCEPT !.stk = @ \o x, !.nC = k, !.baseC = k, !.status = h]

LEMMA ArgumentsArrive ==
  ASSUME NEW C, NEW x, NEW k, NEW h, NEW K, Arrives(C, x, k, h, K)
  PROVE  /\ K \in Thread /\ FramesInv(K) /\ K.stk = C.stk \o x /\ K.ci = C.ci /\ K.base = C.base
         /\ K.nC = k /\ K.baseC = k /\ K.status = h /\ Frame(K) = Frame(C) /\ K.over = C.over
         /\ K.open = C.open
<1> DEFINE s == C.stk \o x
<1>0. C \in Thread /\ FramesInv(C) /\ x \in Seq(Value) /\ k \in Int /\ h \in {"ok", "yield", "error"}
  BY DEF Arrives
<1>1. C.stk \in Seq(Value) /\ Len(C.stk) \in Nat /\ Frame(C) = C.ci[Len(C.ci)]
      /\ Len(C.ci) \in 1 .. Len(C.ci)
  BY <1>0, FramesFacts
<1>2. s \in Seq(Value) /\ Len(s) = Len(C.stk) + Len(x) /\ Keeps(C.stk, s, Len(C.stk))
      /\ Len(x) \in Nat
  BY <1>0, <1>1, ConcatKeeps
<1>3. K = [C EXCEPT !.stk = s, !.nC = k, !.baseC = k, !.status = h]
  BY DEF Arrives
<1> HIDE DEF s
<1>4. /\ K \in Thread /\ K.stk = s /\ K.ci = C.ci /\ K.base = C.base
      /\ K.nC = k /\ K.baseC = k /\ K.status = h /\ K.over = C.over /\ K.open = C.open
  BY <1>0, <1>2, <1>3 DEF Thread
<1>5. Frame(K) = Frame(C)
  BY <1>4 DEF Frame
<1>6. Alike(C, K)
  <2> DEFINE E == [C EXCEPT !.stk = s]
  <2>1. Alike(C, E) /\ E.ci = C.ci /\ E.base = C.base /\ E.over = C.over /\ E.open = C.open
    BY <1>0, <1>2, StackAlike
  <2> HIDE DEF E
  <2> QED
    BY <1>4, <2>1 DEF Alike, SizeCI
<1>7. Keeps(C.stk, K.stk, Low(Frame(C)) - 1) /\ Low(Frame(C)) \in Nat
  <2>1. Low(Frame(C)) \in Nat /\ Low(Frame(C)) - 1 <= Len(C.stk)
    BY <1>0, <1>1, FramesFacts
  <2>2. Low(Frame(C)) - 1 \in Int /\ Len(s) \in Nat /\ Len(C.stk) \in Int
    BY <1>1, <1>2, <2>1
  <2> QED
    BY <1>1, <1>2, <1>4, <2>1, <2>2, KeepsLess
<1>8. FramesInv(K)
  <2> DEFINE p == Low(Frame(C))
  <2>1. p \in Nat /\ Low(Frame(C)) <= p /\ Keeps(C.stk, K.stk, p - 1)
    BY <1>7
  <2> HIDE DEF p
  <2> QED
    BY <1>0, <1>4, <1>6, <2>1, FramesAlike
<1> QED
  BY <1>4, <1>5, <1>8 DEF s

(* The body of a coroutine starts.                                         *)
LEMMA BodyStarts ==
  ASSUME NEW m, Sound(m), Begun(m), Last(m.cs) = [k |-> "resume", t |-> "co"], AboveAll(m, 2),
         2 <= Len(Running(m).stk), Running(m).stk[2] \in LuaFunctions,
         Len(Running(m).ci) = 1, Running(m).nC < ErrCCalls
  PROVE  Good(Precall(m, "co", 2, MultRet, Append(m.cs, [k |-> "exec", t |-> "co", n |-> 1])))
<1> DEFINE T == Running(m)
           f == T.stk[2]
           A == Arranged(T, 2)
           base == BaseOf(A, 2, f)
           execs == Append(m.cs, [k |-> "exec", t |-> "co", n |-> 1])
           r == Precall(m, "co", 2, MultRet, execs)
           U == LuaFrame(A, 2, base, MultRet)
<1>1. /\ Last(m.cs).k = "resume" /\ Last(m.cs).t = "co" /\ m \in State /\ T \in Thread
      /\ FramesInv(T) /\ T.stk \in Seq(Value) /\ Len(T.stk) \in Nat /\ T = m.th["co"]
      /\ Low(Frame(T)) <= 2 /\ Len(T.ci) = 1
  BY SoundFacts DEF AboveAll
<1> HIDE DEF T
<1>2. f \in {"L", "V"} /\ f # Callable /\ f \notin CFunctions /\ IsFunction(f) /\ 2 \in Nat \ {0}
  BY DEF T, LuaFunctions, CFunctions, Callable, IsFunction
<1>3. 2 <= Len(T.stk)
  BY DEF T
<1>4. /\ \E s \in Seq(Value) : /\ A = [T EXCEPT !.stk = s] /\ A.stk = s
                               /\ Keeps(T.stk, s, 2) /\ 2 <= Len(s)
      /\ base \in Nat /\ 2 < base
  BY <1>1, <1>2, <1>3, ArrangedFacts
<1>5. PICK s \in Seq(Value) : /\ A = [T EXCEPT !.stk = s] /\ A.stk = s
                              /\ Keeps(T.stk, s, 2) /\ 2 <= Len(s)
  BY <1>4
<1> HIDE DEF A, base
<1>6. A.ci = T.ci /\ A.over = T.over
  BY <1>1, <1>5 DEF Thread
<1>7. Len(A.ci) < SizeCI(A) /\ Len(T.ci) < SizeCI(T)
  <2>1. MaxCalls \in Nat /\ ErrorCalls \in Nat /\ MaxCalls > 1 /\ ErrorCalls > 0
    BY LimitsOrdered
  <2>2. 1 < SizeCI(T) /\ SizeCI(A) = SizeCI(T)
    BY <1>6, <2>1 DEF SizeCI
  <2> QED
    BY <1>1, <1>6, <2>2
<1>8. r = CASE ~IsFunction(f) -> RunError(m, "co")
            [] IsFunction(f) /\ Len(A.ci) = SizeCI(A) /\ A.over ->
                 Throw(Update(m, "co", A), ErrErr)
            [] IsFunction(f) /\ Len(A.ci) = SizeCI(A) /\ ~A.over ->
                 RunError(Update(m, "co", [A EXCEPT !.over = TRUE]), "co")
            [] f \in LuaFunctions /\ Len(A.ci) < SizeCI(A) ->
                 [Update(m, "co", U) EXCEPT !.cs = execs]
            [] f \in CFunctions /\ Len(A.ci) < SizeCI(A) ->
                 Enter(Update(m, "co", CFrame(A, 2, MultRet)),
                       [k |-> "cfun", t |-> "co", f |-> f, pc |-> "run"])
  <2> HIDE DEF execs
  <2>1. T.stk[2] # Callable
    BY <1>2
  <2> QED
    BY <1>1, <2>1 DEF Precall, Arranged, BaseOf, A, base
<1>9. r = [Update(m, "co", U) EXCEPT !.cs = execs]
  <2>1. Len(A.ci) # SizeCI(A) /\ f \in LuaFunctions
    <3>1. Len(A.ci) = 1
      BY <1>1, <1>6
    <3>2. f \in LuaFunctions
      BY DEF T
    <3> QED
      BY <1>7, <3>1, <3>2
  <2> HIDE DEF U, execs, f, r
  <2> QED
    BY <1>2, <1>7, <1>8, <2>1
<1>10. Calls1(T, 2, MultRet, TRUE, U)
  <2>1. Keeps(T.stk, s, 2 - 1)
    <3>1. 2 \in Int /\ 2 - 1 \in Int /\ 2 - 1 <= 2 /\ Len(s) \in Nat
      OBVIOUS
    <3> QED
      BY <1>1, <1>5, <3>1, KeepsLess
  <2>2. MultRet \in Result
    BY DEF Result
  <2> QED
    BY <1>1, <1>2, <1>4, <1>5, <1>7, <2>1, <2>2, LuaFrameFacts
<1> HIDE DEF U, r
<1>11. Good([Update(m, "co", U) EXCEPT !.cs = Append(m.cs, [k |-> "exec", t |-> "co", n |-> 1])])
  <2>1. Calls1(Running(m), 2, MultRet, TRUE, U) /\ Last(m.cs).k \in {"call", "resume"}
        /\ "co" = Last(m.cs).t
    BY <1>1, <1>10 DEF T
  <2> QED
    BY <2>1, EnteredGood
<1> QED
  BY <1>9, <1>11 DEF r

(* A coroutine luaV_execute may go on with, all frames but the first being *)
(* its own.                                                                *)
GoesOn(S, k) ==
  /\ S \in Thread /\ FramesInv(S) /\ Len(S.ci) > 1 /\ S.status = "ok"
  /\ S.nC = k /\ S.baseC = k
  /\ \A j \in 1 .. Len(S.ci) : 1 < j => S.ci[j].lua

LEMMA FirstFrame ==
  ASSUME NEW S \in Thread, FramesInv(S)
  PROVE  LET K == [S EXCEPT !.ci = SubSeq(@, 1, 1), !.base = 2, !.open = {}]
         IN  /\ K \in Thread /\ FramesInv(K) /\ K.status = S.status /\ Len(K.ci) = 1
             /\ K.nC = S.nC /\ K.baseC = S.baseC /\ K.ci[1] = S.ci[1] /\ K.stk = S.stk
<1> DEFINE c == SubSeq(S.ci, 1, 1)
           K == [S EXCEPT !.ci = c, !.base = 2, !.open = {}]
<1>1. /\ S.stk \in Seq(Value) /\ Len(S.stk) \in Nat /\ S.ci \in Seq(CallInfo)
      /\ Len(S.ci) \in Nat \ {0} /\ Len(S.stk) >= Low(S.ci[Len(S.ci)]) - 1
      /\ 1 \in 1 .. Len(S.ci) /\ S.ci[1].base = 2 /\ ~S.ci[1].lua
  BY FramesFacts DEF FramesInv
<1>2. c \in Seq(CallInfo) /\ Len(c) = 1 /\ c[1] = S.ci[1]
  <2>1. 1 \in 0 .. Len(S.ci)
    BY <1>1
  <2> QED
    BY <1>1, <2>1, Prefix
<1> HIDE DEF c
<1>3. /\ K \in Thread /\ K.ci = c /\ K.base = 2 /\ K.open = {} /\ K.stk = S.stk /\ K.over = S.over
      /\ K.status = S.status /\ K.nC = S.nC /\ K.baseC = S.baseC
  <2>1. 2 \in Nat /\ {} \in SUBSET Nat
    OBVIOUS
  <2> QED
    BY <1>2, <2>1 DEF Thread
<1> HIDE DEF K
<1>4. Low(S.ci[1]) = 2 /\ Len(S.stk) >= 1
  <2>1. Low(S.ci[1]) = 2
    BY <1>1 DEF Low
  <2>2. CASE Len(S.ci) = 1
    BY <1>1, <2>1, <2>2
  <2>3. CASE Len(S.ci) # 1
    <3>1. Len(S.ci) \in 1 .. Len(S.ci) /\ 1 < Len(S.ci)
      <4>1. Len(S.ci) \in Nat \ {0}
        BY <1>1
      <4> DEFINE q == Len(S.ci)
      <4>2. q \in Nat \ {0} /\ q # 1
        BY <2>3, <4>1
      <4> HIDE DEF q
      <4>3. q \in 1 .. q /\ 1 < q
        BY <4>2
      <4> QED
        BY <4>3 DEF q
    <3>2. Low(S.ci[1]) < Low(S.ci[Len(S.ci)]) /\ Low(S.ci[Len(S.ci)]) \in Nat
      BY <1>1, <3>1, FramesFacts
    <3> QED
      BY <1>1, <2>1, <3>2
  <2> QED
    BY <2>1, <2>2, <2>3
<1>5. UNION {S.ci[i].captured : i \in 1 .. 1} = {}
  <2>1. \A i \in 1 .. 1 : S.ci[i].captured = {}
    <3>1. S.ci[1].captured = {}
      BY <1>1, FrameFacts
    <3> QED
      BY <3>1
  <2> QED
    BY <2>1
<1>6. FramesInv(K)
  <2>1. /\ 1 \in 1 .. Len(S.ci) /\ K.base = S.ci[1].base /\ 1 <= SizeCI(K)
        /\ K.open = UNION {S.ci[i].captured : i \in 1 .. 1}
        /\ 2 \in Nat /\ Low(S.ci[1]) <= 2
    BY <1>1, <1>3, <1>4, <1>5, LimitsOrdered DEF SizeCI
  <2>2. Keeps(S.stk, K.stk, 2 - 1)
    <3>1. 2 - 1 <= Len(S.stk)
      BY <1>1, <1>4
    <3> QED
      BY <1>3, <3>1 DEF Keeps
  <2>3. K.ci = SubSeq(S.ci, 1, 1)
    BY <1>3 DEF c
  <2> QED
    BY <1>3, <2>1, <2>2, <2>3, FramesCut
<1> QED
  BY <1>2, <1>3, <1>6 DEF K, c

LEMMA CoroutineGoesOn ==
  ASSUME NEW m, NEW d, NEW e, Inv(m, d, e), NEW a, a = Last(m.cs),
         a.k = "cfun", a.f = "wrapped", a.t = "main",
         NEW S, NEW k, GoesOn(S, k), k = Running(m).nC + 1, NEW n \in Nat \ {0}, Len(S.ci) = n + 1
  PROVE  LET b == [k |-> "exec", t |-> "co", n |-> n]
             r == Enter(Enter(Update(m, "co", S), [k |-> "resume", t |-> "co"]), b)
         IN  Sound(r) /\ Running(r) = S /\ Last(r.cs) = b
<1> DEFINE c == [k |-> "resume", t |-> "co"]
           b == [k |-> "exec", t |-> "co", n |-> n]
           K == [S EXCEPT !.ci = SubSeq(@, 1, 1), !.base = 2, !.open = {}]
           x == Update(m, "co", K)
           y == Enter(x, c)
           r == Enter(Update(y, "co", S), b)
<1>1. /\ S \in Thread /\ FramesInv(S) /\ Len(S.ci) > 1 /\ S.status = "ok"
      /\ S.nC = k /\ S.baseC = k /\ \A j \in 1 .. Len(S.ci) : 1 < j => S.ci[j].lua
  BY DEF GoesOn
<1>2. /\ K \in Thread /\ FramesInv(K) /\ K.status = S.status /\ Len(K.ci) = 1
      /\ K.nC = S.nC /\ K.baseC = S.baseC /\ K.ci[1] = S.ci[1] /\ K.stk = S.stk
  BY <1>1, FirstFrame
<1> HIDE DEF K
<1>3. m \in State /\ "co" \in Threads
  BY DEF Inv, Threads
<1>4. Sound(y) /\ Begun(y) /\ Running(y) = K /\ Last(y.cs) = c /\ AboveAll(y, 2)
  BY <1>1, <1>2, ResumeEntered
<1>5. Update(y, "co", S) = Enter(Update(m, "co", S), c)
  <2>1. x \in State
    BY <1>2, <1>3, Updated
  <2>2. Update(y, "co", S) = Enter(Update(x, "co", S), c)
    BY <1>3, <2>1, EnterUpdated
  <2>3. Update(x, "co", S) = Update(m, "co", S)
    BY <1>3, UpdateTwice
  <2> QED
    BY <2>2, <2>3
<1> HIDE DEF y
<1>6. n \in Nat \ {0} /\ Len(S.ci) = 1 + n /\ S.stk \in Seq(Value) /\ Len(S.stk) \in Nat
      /\ Len(S.ci) \in Nat
  <2>1. Len(S.ci) \in Nat /\ S.stk \in Seq(Value) /\ Len(S.stk) \in Nat
    BY <1>1, FramesFacts
  <2> QED
    BY <1>1, <2>1
<1>7. /\ b \in Activation /\ b.k = "exec" /\ b.t = "co" /\ FramesIn(b) = n /\ b.n > 0
      /\ c.k = "resume" /\ c.t = "co"
  <2>1. b \in Activation
    BY <1>3, <1>6 DEF Activation
  <2>2. b.k = "exec" /\ b.t = "co" /\ b.n = n /\ c.k = "resume" /\ c.t = "co"
    OBVIOUS
  <2> HIDE DEF b, c
  <2>3. FramesIn(b) = n
    BY <2>2 DEF FramesIn
  <2>4. b.n > 0
    <3>1. n > 0
      OBVIOUS
    <3> QED
      BY <2>2, <3>1
  <2> QED
    BY <2>1, <2>2, <2>3, <2>4
<1> HIDE DEF b, c
<1>8. Above(c, b)
  BY <1>7 DEF Above
<1>9. Keeps(K.stk, S.stk, 2 - 1)
  <2>1. 1 <= Len(K.stk)
    <3>1. Len(K.stk) >= Low(K.ci[1]) - 1 /\ K.ci[1].base <= Low(K.ci[1]) /\ Low(K.ci[1]) \in Nat
      BY <1>2, FramesFacts
    <3>2. K.ci[1].base = 2
      BY <1>2 DEF FramesInv
    <3> QED
      BY <1>2, <1>6, <3>1, <3>2
  <2> QED
    BY <1>2, <2>1 DEF Keeps
<1>10. ASSUME NEW j \in 1 .. Len(S.ci)
       PROVE  /\ j <= Len(K.ci) => S.ci[j] = K.ci[j]
              /\ Len(K.ci) < j => 2 <= S.ci[j].func /\ S.ci[j].lua = (b.k = "exec")
  <2>1. CASE j = 1
    BY <1>2, <2>1
  <2>2. CASE j # 1
    <3>1. 1 < j /\ 1 \in 1 .. Len(S.ci)
      BY <1>6, <2>2
    <3>2. Low(S.ci[1]) <= S.ci[j].func /\ Low(S.ci[1]) = 2 /\ S.ci[j].lua \in BOOLEAN
      BY <1>1, <3>1, FramesFacts DEF FramesInv, Low
    <3>3. S.ci[j].lua
      BY <1>1, <3>1
    <3> QED
      <4>1. (b.k = "exec") = TRUE /\ S.ci[j].lua = TRUE
        BY <1>7, <3>2, <3>3
      <4>2. 2 <= S.ci[j].func
        BY <3>2
      <4>3. ~(j <= Len(K.ci))
        BY <1>2, <3>1
      <4> QED
        BY <4>1, <4>2, <4>3
  <2> QED
    BY <2>1, <2>2
<1>11. EnterWith(y, r, 2, b, S)
  <2>1. Len(S.ci) = Len(K.ci) + FramesIn(b)
    BY <1>2, <1>6, <1>7
  <2>2. Last(y.cs).t = "co" /\ Above(Last(y.cs), b) /\ b.t = "co"
    BY <1>4, <1>7, <1>8
  <2>3. r = Enter(Update(y, Last(y.cs).t, S), b)
    BY <2>2
  <2> HIDE DEF r
  <2>4. S.nC = K.nC /\ S.status = K.status /\ S.baseC = K.baseC
    BY <1>2
  <2> QED
    BY <1>1, <1>4, <1>7, <1>9, <1>10, <2>1, <2>2, <2>3, <2>4 DEF EnterWith
<1>12. Sound(r) /\ Running(r) = S /\ Last(r.cs) = b
  <2> HIDE DEF r
  <2> QED
    BY <1>4, <1>11, SoundEnter
<1> QED
  BY <1>5, <1>12 DEF b, c

(* The call that yielded gets its results.                                 *)
LEMMA YieldReturned ==
  ASSUME NEW T \in Thread, FramesInv(T), NEW k, T.nC = k, T.baseC = k, T.status = "ok",
         Len(T.ci) > 2, ~Frame(T).lua,
         \A j \in DOMAIN T.ci : 1 < j /\ j < Len(T.ci) => T.ci[j].lua,
         NEW first \in Nat \ {0}, first <= Len(T.stk) + 1
  PROVE  LET S == Poscall(T, first)
         IN  GoesOn(S, k) /\ Frame(S).lua /\ Len(S.ci) = Len(T.ci) - 1
<1> DEFINE S == Poscall(T, first)
           q == Len(T.ci)
           p == Frame(T).func
           n == q - 1
<1>1. /\ S \in Thread /\ Keeps(T.stk, S.stk, p - 1)
      /\ S.ci = SubSeq(T.ci, 1, n) /\ S.base = T.ci[n].base
      /\ S.open = T.open /\ S.over = T.over /\ S.nC = T.nC
      /\ S.status = T.status /\ S.baseC = T.baseC
  <2>1. Len(T.ci) > 1
    <3>1. Len(T.ci) \in Nat
      BY FramesFacts
    <3> QED
      BY <3>1
  <2> QED
    BY <2>1, PoscallFacts
<1> HIDE DEF S
<1>2. /\ T.ci \in Seq(CallInfo) /\ q \in Nat /\ DOMAIN T.ci = 1 .. q /\ Frame(T) = T.ci[q]
      /\ n \in 1 .. q /\ n < q /\ 1 < n /\ q \in 1 .. q /\ n \in 0 .. q
  <2>1. T.ci \in Seq(CallInfo) /\ q \in Nat /\ DOMAIN T.ci = 1 .. q /\ Frame(T) = T.ci[q]
    BY FramesFacts
  <2> HIDE DEF q
  <2>2. q > 2
    BY DEF q
  <2> QED
    BY <2>1, <2>2
<1> HIDE DEF n, q
<1>3. /\ S.ci \in Seq(CallInfo) /\ Len(S.ci) = n /\ \A i \in 1 .. n : S.ci[i] = T.ci[i]
      /\ Len(S.ci) \in Nat
  <2>1. SubSeq(T.ci, 1, n) \in Seq(CallInfo) /\ Len(SubSeq(T.ci, 1, n)) = n
        /\ \A i \in 1 .. n : SubSeq(T.ci, 1, n)[i] = T.ci[i]
    BY <1>2, Prefix
  <2> QED
    BY <1>1, <1>2, <2>1
<1>4. \A j \in 1 .. Len(S.ci) : 1 < j => S.ci[j].lua
  <2>1. SUFFICES ASSUME NEW j \in 1 .. n, 1 < j PROVE S.ci[j].lua
    BY <1>3
  <2>2. j \in DOMAIN T.ci /\ j < Len(T.ci)
    BY <1>2 DEF q
  <2> QED
    BY <1>3, <2>1, <2>2
<1>5. S.open = UNION {T.ci[i].captured : i \in 1 .. n}
  <2>1. T.ci[q].captured = {}
    BY <1>2, FrameFacts DEF q
  <2>2. T.open = UNION {T.ci[i].captured : i \in 1 .. q}
    BY <1>2 DEF FramesInv
  <2>3. \A i \in 1 .. q : i \in 1 .. n \/ i = q
    BY <1>2 DEF n
  <2>4. \A i \in 1 .. n : i \in 1 .. q
    BY <1>2
  <2>5. ASSUME NEW z \in T.open PROVE z \in UNION {T.ci[i].captured : i \in 1 .. n}
    <3>1. PICK i \in 1 .. q : z \in T.ci[i].captured
      BY <2>2
    <3>2. i # q
      BY <2>1, <3>1
    <3> QED
      BY <2>3, <3>1, <3>2
  <2>6. ASSUME NEW z \in UNION {T.ci[i].captured : i \in 1 .. n} PROVE z \in T.open
    BY <2>2, <2>4
  <2> QED
    BY <1>1, <2>5, <2>6
<1>6. FramesInv(S)
  <2>1. p \in Nat /\ Low(T.ci[n]) <= p
    <3>1. Low(T.ci[n]) <= T.ci[q].func /\ T.ci[q].func \in Nat
      BY <1>2, FramesFacts DEF q
    <3> QED
      BY <1>2, <3>1
  <2>2. n <= SizeCI(S)
    <3>1. SizeCI(S) = SizeCI(T) /\ SizeCI(T) \in Nat
      BY <1>1, LimitsOrdered DEF SizeCI
    <3>2. q <= SizeCI(T)
      BY DEF FramesInv, q
    <3> QED
      BY <1>2, <3>1, <3>2
  <2>3. n \in 1 .. Len(T.ci)
    BY <1>2 DEF q
  <2> HIDE DEF p
  <2> QED
    BY <1>1, <1>5, <2>1, <2>2, <2>3, FramesCut
<1>7. Frame(S).lua
  <2>1. Frame(S) = S.ci[n]
    BY <1>1, <1>3, <1>6, FramesFacts
  <2> QED
    BY <1>2, <1>3, <1>4, <2>1
<1> QED
  BY <1>1, <1>2, <1>3, <1>4, <1>6, <1>7 DEF GoesOn, S, n, q

(* What a coroutine that is to be resumed is like.                         *)
Waits(C) ==
  /\ C \in Thread /\ FramesInv(C)
  /\ \/ /\ C.status = "yield" /\ Len(C.ci) > 2 /\ ~Frame(C).lua
        /\ \A j \in DOMAIN C.ci : 1 < j /\ j < Len(C.ci) => C.ci[j].lua
     \/ /\ C.status = "ok" /\ Len(C.ci) = 1 /\ Len(C.stk) = 2 /\ C.stk[2] \in LuaFunctions

LEMMA SuspendedWaits ==
  ASSUME IInv, Here.k = "cfun", Here.f = "wrapped", Here.pc = "run", Created,
         CoStatus("co") = "suspended"
  PROVE  Here.t = "main" /\ Waits(th["co"])
<1> DEFINE C == th["co"]
<1>1. /\ M \in State /\ M.cs = cs /\ M.th = th /\ Last(M.cs) = Here /\ Sound(M)
      /\ Here.t \in Threads
  BY CFacts
<1>2. PICK d, e \in [DOMAIN M.cs -> Nat] : Inv(M, d, e)
  BY <1>1 DEF Sound
<1>3. C \in Thread /\ FramesInv(C)
  BY <1>1, <1>2 DEF Inv, CoroutineInv, Created, State, Threads
<1>4. CASE Here.t = "co"
  <2>1. CoStatus("co") = "running"
    BY <1>4 DEF CoStatus
  <2> QED
    BY <2>1
<1>5. CASE Here.t # "co"
  <2>1. Here.t = "main"
    BY <1>1, <1>5 DEF Threads
  <2>2. ~Runs(M.cs)
    BY <1>1, <1>2, <2>1, RunningFacts
  <2>3. AtRest(C, NoOne)
    BY <1>1, <2>2 DEF Sound, Quiet, Created
  <2>4. C.status \in {"ok", "yield", "error"}
    BY <1>3 DEF Thread
  <2>5. CASE C.status = "error"
    <3>1. CoStatus("co") = "dead"
      BY <1>5, <2>5 DEF CoStatus
    <3> QED
      BY <3>1
  <2>6. CASE C.status = "yield"
    BY <1>3, <2>1, <2>3, <2>6 DEF AtRest, Waits
  <2>7. CASE C.status = "ok"
    <3>1. Len(C.ci) = 1 /\ (Len(C.stk) = 1 \/ (Len(C.stk) = 2 /\ C.stk[2] \in LuaFunctions))
      BY <2>3, <2>7 DEF AtRest, NoOne
    <3>2. CoStatus("co") = IF GetTop(C) = 0 THEN "dead" ELSE "suspended"
      BY <1>5, <2>7, <3>1 DEF CoStatus
    <3>3. GetTop(C) # 0
      BY <3>2
    <3>4. C.base = 2
      <4>1. C.base = C.ci[Len(C.ci)].base
        BY <1>3, FramesFacts
      <4> QED
        BY <1>3, <3>1, <4>1 DEF FramesInv
    <3>5. Len(C.stk) # 1
      BY <3>3, <3>4 DEF GetTop, Top
    <3> QED
      BY <1>3, <2>1, <2>7, <3>1, <3>5 DEF Waits
  <2> QED
    BY <2>4, <2>5, <2>6, <2>7
<1> QED
  BY <1>4, <1>5

(* lua_resume refuses: the arguments and the body are gone.                *)
LEMMA ResumeRefused ==
  ASSUME NEW C \in Thread, FramesInv(C), C.status = "yield" \/ (C.status = "ok" /\ Len(C.ci) = 1),
         C.status = "yield" => /\ Len(C.ci) > 2 /\ ~Frame(C).lua
                               /\ \A j \in DOMAIN C.ci : 1 < j /\ j < Len(C.ci) => C.ci[j].lua
  PROVE  LET K == [C EXCEPT !.stk = SubSeq(@, 1, Frame(C).base - 1)]
         IN  K \in Thread /\ FramesInv(K) /\ AtRest(K, NoOne)
<1> DEFINE K == [C EXCEPT !.stk = SubSeq(@, 1, Frame(C).base - 1)]
           n == GetTop(C)
           b == Frame(C).base
           a == [k |-> "cfun", f |-> "wrapped", pc |-> "ok"]
<1>1. /\ Len(C.stk) \in Nat /\ C.base = b /\ b \in Nat /\ Frame(C) = C.ci[Len(C.ci)]
      /\ Len(C.stk) >= Low(Frame(C)) - 1 /\ b <= Low(Frame(C)) /\ Low(Frame(C)) \in Nat
  <2>1. Len(C.ci) \in 1 .. Len(C.ci) /\ Len(C.stk) \in Nat /\ C.base = b /\ b \in Nat
        /\ Frame(C) = C.ci[Len(C.ci)] /\ Len(C.stk) >= Low(Frame(C)) - 1
    BY FramesFacts
  <2>2. Low(Frame(C)) \in Nat /\ b <= Low(Frame(C))
    BY <2>1, FramesFacts
  <2> QED
    BY <2>1, <2>2
<1>2. AtRest(C, a)
  BY DEF AtRest
<1>3. n \in Nat /\ Len(C.stk) - n = b - 1
  <2>1. n = (Len(C.stk) + 1) - b
    BY <1>1 DEF GetTop, Top
  <2> HIDE DEF n, b
  <2> QED
    BY <1>1, <2>1
<1>4. MovedFrom(C, n) = K
  <2> HIDE DEF n
  <2> QED
    BY <1>3 DEF MovedFrom
<1> HIDE DEF K, a
<1>5. MovedFrom(C, n) \in Thread /\ FramesInv(MovedFrom(C, n)) /\ AtRest(MovedFrom(C, n), NoOne)
  <2>1. C.status # "error" /\ n = GetTop(C)
    OBVIOUS
  <2> HIDE DEF n
  <2> QED
    BY <1>2, <1>3, <2>1, TakenFrom
<1> QED
  BY <1>4, <1>5 DEF K

LEMMA ResumeGood ==
  ASSUME NEW m, Sound(m), Begun(m), NEW a, a = Last(m.cs), a.k = "cfun", a.f = "wrapped",
         a.pc = "run", a.t = "main", NEW C, Waits(C), NEW x \in Seq(Value), NEW n \in Nat, n = Len(x),
         NEW k \in Nat, k = Running(m).nC + 1, Running(m).nC < MaxCCalls,
         NEW C1, Arrives(C, x, k, C.status, C1)
  PROVE  Good(Resume(Enter(Update(m, "co", C1), [k |-> "resume", t |-> "co"]), n))
<1> DEFINE c == [k |-> "resume", t |-> "co"]
           r == Enter(Update(m, "co", C1), c)
<1>1. PICK d, e \in [DOMAIN m.cs -> Nat] : Inv(m, d, e)
  BY DEF Sound
<1>2. m \in State /\ "co" \in Threads /\ Running(m).nC \in Nat /\ k \in Nat /\ k < ErrCCalls
  <2>1. m \in State /\ Running(m).nC \in Nat
    BY SoundFacts
  <2>2. MaxCCalls \in Nat /\ ErrCCalls \in Nat /\ MaxCCalls < ErrCCalls
    BY LimitsOrdered
  <2>3. k \in Nat /\ k < ErrCCalls
    BY <2>1, <2>2
  <2> QED
    BY <2>1, <2>3 DEF Threads
<1>3. C \in Thread /\ FramesInv(C) /\ C.stk \in Seq(Value) /\ Len(C.stk) \in Nat /\ n \in Nat
  BY FramesFacts DEF Waits
<1>5. /\ C1 \in Thread /\ FramesInv(C1) /\ C1.stk = C.stk \o x /\ C1.ci = C.ci
      /\ C1.nC = k /\ C1.baseC = k /\ C1.status = C.status /\ Frame(C1) = Frame(C)
  BY ArgumentsArrive
<1>6. /\ C1.stk \in Seq(Value) /\ Len(C1.stk) = Len(C.stk) + n /\ Keeps(C.stk, C1.stk, Len(C.stk))
      /\ Top(C1) - n = Len(C.stk) + 1
  <2>1. C1.stk \in Seq(Value) /\ Len(C1.stk) = Len(C.stk) + n /\ Keeps(C.stk, C1.stk, Len(C.stk))
    BY <1>3, <1>5, ConcatKeeps
  <2> QED
    BY <1>3, <2>1 DEF Top
<1>7. r.th["co"] = C1 /\ Update(m, "co", C1) \in State
  <2>1. Update(m, "co", C1) \in State /\ Update(m, "co", C1).th["co"] = C1
    BY <1>2, <1>5, Updated
  <2> QED
    BY <2>1 DEF Enter
<1>8. CASE C.status = "ok"
  <2>1. Len(C.ci) = 1 /\ Len(C.stk) = 2 /\ C.stk[2] \in LuaFunctions
    BY <1>8 DEF Waits
  <2>2. /\ Sound(r) /\ Begun(r) /\ Running(r) = C1 /\ Last(r.cs) = c /\ AboveAll(r, 2)
    <3>1. /\ C1 \in Thread /\ FramesInv(C1) /\ C1.status = "ok" /\ Len(C1.ci) = 1
          /\ C1.nC = Running(m).nC + 1 /\ C1.baseC = C1.nC
      BY <1>5, <1>8, <2>1
    <3> QED
      BY <1>1, <3>1, ResumeEntered
  <2>3. 2 <= Len(C1.stk) /\ C1.stk[2] \in LuaFunctions /\ (Top(C1) - n) - 1 = 2
    <3>1. C1.stk[2] = C.stk[2]
      BY <1>6, <2>1 DEF Keeps
    <3> QED
      BY <1>3, <1>6, <2>1, <3>1
  <2> HIDE DEF r
  <2>4. Good(Precall(r, "co", 2, MultRet, Append(r.cs, [k |-> "exec", t |-> "co", n |-> 1])))
    <3>1. Last(r.cs) = [k |-> "resume", t |-> "co"]
      BY <2>2
    <3> HIDE DEF c
    <3>2. Len(Running(r).ci) = 1 /\ Running(r).nC < ErrCCalls /\ 2 <= Len(Running(r).stk)
          /\ Running(r).stk[2] \in LuaFunctions
      BY <1>2, <1>5, <2>1, <2>2, <2>3
    <3> QED
      BY <2>2, <3>1, <3>2, BodyStarts
  <2>5. Resume(r, n) = Precall(r, "co", 2, MultRet, Append(r.cs, [k |-> "exec", t |-> "co", n |-> 1]))
    <3>1. r.th["co"].status = "ok"
      BY <1>5, <1>7, <1>8
    <3>2. Top(r.th["co"]) - n - 1 = 2
      BY <1>7, <2>3
    <3> QED
      BY <3>1, <3>2 DEF Resume
  <2> QED
    BY <2>4, <2>5 DEF r, c
<1>9. CASE C.status = "yield"
  <2> DEFINE T == [C1 EXCEPT !.status = "ok"]
             first == Top(C1) - n
             S == Poscall(T, first)
             b == [k |-> "exec", t |-> "co", n |-> Len(S.ci) - 1]
             y == Enter(Enter(Update(m, "co", S), c), b)
  <2>1. /\ Len(C.ci) > 2 /\ ~Frame(C).lua
        /\ \A j \in DOMAIN C.ci : 1 < j /\ j < Len(C.ci) => C.ci[j].lua
    BY <1>9 DEF Waits
  <2>2. /\ T \in Thread /\ FramesInv(T) /\ T.stk = C1.stk /\ T.ci = C.ci
        /\ T.nC = k /\ T.baseC = k /\ T.status = "ok" /\ Frame(T) = Frame(C)
    <3>1. Arrives(C, x, k, "ok", T)
      <4>1. T = [C EXCEPT !.stk = @ \o x, !.nC = k, !.baseC = k, !.status = "ok"]
        BY <1>3 DEF Arrives
      <4> QED
        BY <1>2, <1>3, <4>1 DEF Arrives
    <3> HIDE DEF T
    <3>2. /\ T \in Thread /\ FramesInv(T) /\ T.stk = C.stk \o x /\ T.ci = C.ci
          /\ T.nC = k /\ T.baseC = k /\ T.status = "ok" /\ Frame(T) = Frame(C)
      BY <3>1, ArgumentsArrive
    <3> QED
      BY <1>5, <3>2
  <2> HIDE DEF T
  <2>3. first \in Nat \ {0} /\ first <= Len(T.stk) + 1
    BY <1>3, <1>6, <2>2
  <2> HIDE DEF first
  <2>4. GoesOn(S, k) /\ Frame(S).lua /\ Len(S.ci) = Len(T.ci) - 1
    BY <2>1, <2>2, <2>3, YieldReturned
  <2> HIDE DEF S
  <2>5. Len(S.ci) - 1 \in Nat \ {0} /\ Len(S.ci) = (Len(S.ci) - 1) + 1
    <3>1. Len(S.ci) \in Nat /\ Len(S.ci) > 1
      BY <2>4, FramesFacts DEF GoesOn
    <3> DEFINE q == Len(S.ci)
    <3>2. q \in Nat /\ q > 1
      BY <3>1
    <3> HIDE DEF q
    <3>3. q - 1 \in Nat \ {0} /\ q = (q - 1) + 1
      BY <3>2
    <3> QED
      BY <3>3 DEF q
  <2>6. Sound(y) /\ Running(y) = S /\ Last(y.cs) = b
    BY <1>1, <2>4, <2>5, CoroutineGoesOn
  <2>7. b.k = "exec" /\ b.t = "co" /\ S.nC = k /\ S \in Thread
    BY <2>4 DEF GoesOn
  <2> HIDE DEF y
  <2>8. Good(y)
    BY <1>2, <2>6, <2>7, GoodTop
  <2>9. Good(Update(y, "co", ToFrameTop(S)))
    BY <1>2, <2>6, <2>7, ToFrameTopGood
  <2>10. ASSUME NEW U PROVE Enter(Update(r, "co", U), b) = Enter(Enter(Update(m, "co", U), c), b)
    <3>1. Update(r, "co", U) = Enter(Update(Update(m, "co", C1), "co", U), c)
      BY <1>2, <1>7, EnterUpdated
    <3>2. Update(Update(m, "co", C1), "co", U) = Update(m, "co", U)
      BY <1>2, UpdateTwice
    <3> QED
      BY <3>1, <3>2
  <2>11. Update(y, "co", ToFrameTop(S)) = Enter(Enter(Update(m, "co", ToFrameTop(S)), c), b)
    <3> DEFINE U == ToFrameTop(S)
               z == Enter(Update(m, "co", S), c)
    <3>1. Update(m, "co", S) \in State
      BY <1>2, <2>7, Updated
    <3>2. c \in Activation
      BY DEF Activation
    <3>3. z \in State
      BY <3>1, <3>2, Entered
    <3> HIDE DEF U, b, c
    <3>4. Update(Enter(z, b), "co", U) = Enter(Update(z, "co", U), b)
      BY <1>2, <3>3, EnterUpdated
    <3>5. Update(z, "co", U) = Enter(Update(Update(m, "co", S), "co", U), c)
      BY <1>2, <3>1, EnterUpdated
    <3>6. Update(Update(m, "co", S), "co", U) = Update(m, "co", U)
      BY <1>2, UpdateTwice
    <3> QED
      BY <3>4, <3>5, <3>6 DEF y, U
  <2>12. Resume(r, n) = Enter(Update(r, "co", IF Frame(C1).want = MultRet THEN S ELSE ToFrameTop(S)), b)
    <3>1. r.th["co"].status # "ok"
      BY <1>5, <1>7, <1>9
    <3> HIDE DEF r
    <3>2. Resume(r, n) = Enter(Update(r, "co", IF Frame(C1).want = MultRet THEN S ELSE ToFrameTop(S)),
                               [k |-> "exec", t |-> "co", n |-> FramesToRun(S)])
      BY <1>7, <3>1 DEF Resume, S, T, first
    <3> QED
      BY <3>2 DEF FramesToRun
  <2> HIDE DEF b, r, c
  <2>13. CASE Frame(C1).want = MultRet
    <3>1. Resume(r, n) = y
      BY <2>10, <2>12, <2>13 DEF y
    <3> QED
      BY <2>8, <3>1 DEF r, c
  <2>14. CASE Frame(C1).want # MultRet
    <3>1. Resume(r, n) = Update(y, "co", ToFrameTop(S))
      BY <2>10, <2>11, <2>12, <2>14
    <3> QED
      BY <2>9, <3>1 DEF r, c
  <2> QED
    BY <2>13, <2>14
<1> QED
  BY <1>8, <1>9 DEF Waits

(* A call of the function wrap returned resumes the coroutine, if it can.  *)
LEMMA AuxResumeStep ==
  ASSUME IInv, AuxResume
  PROVE  IInv'
<1> DEFINE t == Here.t
           n == GetTop(Now)
           C0 == th["co"]
           C == SetLevel(MovedTo(C0, n, Now), Now)
           T == MovedFrom(Now, n)
           m == Update(M, t, T)
           C1 == [C EXCEPT !.nC = @ + 1, !.baseC = C.nC + 1]
           x == SubSeq(Now.stk, Len(Now.stk) - n + 1, Len(Now.stk))
           s == SubSeq(Now.stk, 1, Now.base - 1)
           K == [C EXCEPT !.stk = SubSeq(@, 1, Frame(C).base - 1)]
           j == Now.nC
           k == Now.nC + 1
<1>1. /\ Here.k = "cfun" /\ Here.f = "wrapped" /\ Here.pc = "run" /\ Created
      /\ Become(
           CASE CoStatus("co") # "suspended" -> RunError(M, t)
             [] CoStatus("co") = "suspended" /\ C.nC >= MaxCCalls -> RunError(Update(m, "co", K), t)
             [] CoStatus("co") = "suspended" /\ C.nC < MaxCCalls ->
                  Resume(Enter(Update(m, "co", C1), [k |-> "resume", t |-> "co"]), n))
  BY DEF AuxResume, InC
<1>2. /\ Now.stk \in Seq(Value) /\ Len(Now.stk) \in Nat /\ Now.base \in Nat \ {0}
      /\ Len(Now.stk) >= Now.base - 1 /\ Now \in Thread
      /\ Sound(M) /\ Last(M.cs) = Here /\ Running(M) = Now /\ Now.nC < ErrCCalls /\ M.cs = cs
  BY <1>1, CFacts
<1>3. CASE CoStatus("co") # "suspended"
  <2>1. Good(RunError(M, t))
    BY <1>1, <1>2, RunErrorRests
  <2> QED
    BY <1>1, <1>3, <2>1, Becomes
<1>4. CASE CoStatus("co") = "suspended"
  <2>1. t = "main" /\ Waits(C0)
    BY <1>1, <1>4, SuspendedWaits
  <2>2. C0 \in Thread /\ j \in Nat /\ k \in Int
    <3>1. j \in Nat
      BY <1>2, SoundFacts
    <3> QED
      BY <2>1, <3>1 DEF Waits
  <2> HIDE DEF j, C0
  <2>3. n \in 0 .. Len(Now.stk) /\ Len(Now.stk) - n = Now.base - 1
    <3>1. n = (Len(Now.stk) + 1) - Now.base
      BY DEF GetTop, Top
    <3> HIDE DEF n
    <3> QED
      BY <1>2, <3>1
  <2> HIDE DEF n
  <2>4. x \in Seq(Value) /\ Len(x) = n
    BY <1>2, <2>3, UpperSlice
  <2>5. T = [Now EXCEPT !.stk = s]
    BY <2>3 DEF MovedFrom
  <2>6. C = [C0 EXCEPT !.stk = @ \o x, !.nC = j]
    BY DEF SetLevel, MovedTo, j
  <2> HIDE DEF x, C, T
  <2>7. C.nC = j
    BY <2>2, <2>6 DEF Thread
  <2>8. C1 = [C0 EXCEPT !.stk = @ \o x, !.nC = k, !.baseC = k]
    <3>1. C1 = [C EXCEPT !.nC = k, !.baseC = k]
      BY <2>7 DEF j
    <3> HIDE DEF k, C1
    <3> QED
      BY <2>2, <2>6, <3>1 DEF Thread
  <2> HIDE DEF K, C1
  <2>9. s \in Seq(Value) /\ Keeps(Now.stk, s, Now.base - 1)
    <3>1. Now.base - 1 \in 0 .. Len(Now.stk)
      BY <1>2
    <3> QED
      BY <1>2, <3>1, CutKeeps
  <2> HIDE DEF s
  <2>10. /\ Sound(m) /\ Begun(m) /\ Last(m.cs) = Here /\ m.cs = cs
         /\ Running(m) = [Now EXCEPT !.stk = s] /\ Running(m).nC < ErrCCalls
    BY <1>1, <2>5, <2>9, CWritten
  <2>11. Running(m).nC = j
    BY <1>2, <2>10 DEF Thread, j
  <2> HIDE DEF m
  <2>12. CASE C.nC >= MaxCCalls
    <3>1. K \in Thread /\ FramesInv(K) /\ AtRest(K, NoOne)
      <4> DEFINE h == C0.baseC
                 D == [C0 EXCEPT !.stk = @ \o x, !.nC = j, !.baseC = j]
      <4>1. Arrives(C0, x, j, C0.status, D)
        <5>1. D = [C0 EXCEPT !.stk = @ \o x, !.nC = j, !.baseC = j, !.status = C0.status]
          BY <2>2 DEF Thread
        <5>2. C0.status \in {"ok", "yield", "error"} /\ FramesInv(C0) /\ j \in Int
          BY <2>1, <2>2 DEF Waits, Thread
        <5> HIDE DEF D
        <5> QED
          BY <2>2, <2>4, <5>1, <5>2 DEF Arrives
      <4>2. C = [D EXCEPT !.baseC = h] /\ h \in Int
        BY <2>2, <2>6 DEF Thread
      <4> HIDE DEF D, h
      <4>3. /\ D \in Thread /\ FramesInv(D) /\ D.ci = C0.ci /\ D.status = C0.status
            /\ Frame(D) = Frame(C0)
        BY <4>1, ArgumentsArrive
      <4>4. /\ C \in Thread /\ C.ci = D.ci /\ C.stk = D.stk /\ C.base = D.base /\ C.open = D.open
            /\ C.over = D.over /\ C.status = D.status
        BY <4>2, <4>3 DEF Thread
      <4>5. FramesInv(C) /\ Frame(C) = Frame(C0)
        BY <4>3, <4>4 DEF FramesInv, FrameInv, SizeCI, Frame
      <4>6. /\ C.status = "yield" \/ (C.status = "ok" /\ Len(C.ci) = 1)
            /\ C.status = "yield" =>
                 /\ Len(C.ci) > 2 /\ ~Frame(C).lua
                 /\ \A i \in DOMAIN C.ci : 1 < i /\ i < Len(C.ci) => C.ci[i].lua
        BY <2>1, <4>3, <4>4, <4>5 DEF Waits
      <4> QED
        BY <4>4, <4>5, <4>6, ResumeRefused DEF K
    <3> DEFINE r == Update(m, "co", K)
    <3>2. PICK d, e \in [DOMAIN m.cs -> Nat] : Inv(m, d, e)
      BY <2>10 DEF Sound
    <3>3. Sound(r) /\ r.cs = m.cs /\ Running(r) = Running(m)
      BY <2>1, <2>10, <3>1, <3>2, CoWritten
    <3> HIDE DEF r
    <3>4. Good(RunError(r, t))
      <4>1. Last(r.cs) = Here /\ Running(r).nC < ErrCCalls
        BY <2>10, <3>3
      <4> QED
        BY <1>1, <3>3, <4>1, RunErrorRests
    <3>5. ~(C.nC < MaxCCalls)
      BY <2>2, <2>7, <2>12, LimitsOrdered
    <3> QED
      BY <1>1, <1>4, <2>12, <3>4, <3>5, Becomes DEF r
  <2>13. CASE ~(C.nC >= MaxCCalls)
    <3>1. C.nC < MaxCCalls
      BY <2>2, <2>7, <2>13, LimitsOrdered
    <3>2. Arrives(C0, x, k, C0.status, C1)
      <4>1. C1 = [C0 EXCEPT !.stk = @ \o x, !.nC = k, !.baseC = k, !.status = C0.status]
        <5> HIDE DEF k
        <5> QED
          BY <2>2, <2>8 DEF Thread
      <4>2. C0.status \in {"ok", "yield", "error"} /\ FramesInv(C0)
        BY <2>1, <2>2 DEF Waits, Thread
      <4> HIDE DEF k
      <4> QED
        BY <2>2, <2>4, <4>1, <4>2 DEF Arrives
    <3>3. k \in Nat /\ k = Running(m).nC + 1 /\ Running(m).nC < MaxCCalls
      BY <2>2, <2>7, <2>11, <3>1 DEF j
    <3> HIDE DEF k
    <3>4. n \in Nat /\ n = Len(x)
      BY <1>2, <2>3, <2>4
    <3>5. Good(Resume(Enter(Update(m, "co", C1), [k |-> "resume", t |-> "co"]), n))
      BY <1>1, <2>1, <2>4, <2>10, <3>2, <3>3, <3>4, ResumeGood
    <3> QED
      BY <1>1, <1>4, <2>13, <3>1, <3>5, Becomes
  <2> QED
    BY <2>12, <2>13
<1> QED
  BY <1>3, <1>4

(* A yield that is not refused comes from a Lua function that no call but  *)
(* lua_resume's own is under.                                              *)
LEMMA YieldsToResume ==
  ASSUME NEW m, NEW d, NEW e, Inv(m, d, e), Last(m.cs).k = "cfun",
         Running(m).nC <= Running(m).baseC
  PROVE  LET L == Len(m.cs)
         IN  /\ L - 1 \in 2 .. L /\ L - 2 \in 2 .. L /\ L \in Nat /\ Last(m.cs).t = "co"
             /\ m.cs[L - 2].k = "resume" /\ m.cs[L - 1].k = "exec" /\ m.cs[L - 1].t = "co"
             /\ m.cs[L - 1].n \in Nat \ {0} /\ d[L - 1] = 1 + m.cs[L - 1].n
             /\ Len(Running(m).ci) = 2 + m.cs[L - 1].n /\ e[L] = Running(m).nC
<1> DEFINE L == Len(m.cs)
           s == m.cs
<1>1. /\ s \in Seq(Activation) /\ L \in Nat \ {0} /\ Last(s) = s[L] /\ StackInv(s, d, e)
      /\ Len(Running(m).ci) = d[L] /\ Running(m).nC = e[L] /\ s[L].t \in Threads
  BY RunningFacts DEF Inv
<1>2. /\ s[1].k = "jni" /\ e[1] = 0
      /\ \A i \in 1 .. L : s[i] \in Activation /\ d[i] \in Nat /\ e[i] \in Nat
      /\ \A i, j \in 1 .. L : i < j => e[i] + Adds(s[j]) <= e[j]
      /\ s[L].t = "co" => \E j \in 1 .. L : j <= L /\ s[j].k = "resume"
  <2>1. L \in 1 .. L
    BY <1>1
  <2>2. /\ \A i \in 1 .. L : s[i] \in Activation /\ d[i] \in Nat /\ e[i] \in Nat
        /\ s[1].k = "jni" /\ e[1] = 0
    BY <1>1, StackFacts
  <2>3. \A i, j \in 1 .. L : i < j => e[i] + Adds(s[j]) <= e[j]
    BY <1>1, StackFacts
  <2>4. s[L].t = "co" => \E j \in 1 .. L : j <= L /\ s[j].k = "resume"
    BY <1>1, <2>1, StackFacts
  <2> QED
    BY <2>2, <2>3, <2>4
<1>3. s[L].k = "cfun" /\ L \in 2 .. L
  BY <1>1, <1>2
<1> HIDE DEF L
<1>4. /\ L - 1 \in 1 .. L /\ s[L - 1].t = s[L].t /\ d[L] = d[L - 1] + 1
      /\ s[L - 1].k \in {"call", "exec"}
      /\ s[L - 1].k = "call" => s[L - 1].pc = "in"
  <2>1. /\ L - 1 \in 1 .. L /\ Above(s[L - 1], s[L]) /\ s[L - 1].t = s[L].t
        /\ d[L] = d[L - 1] + FramesIn(s[L])
    BY <1>1, <1>3, StackStep DEF L
  <2> QED
    BY <1>3, <2>1 DEF Above, FramesIn
<1>5. L - 1 \in 2 .. L
  <2>1. L - 1 # 1
    BY <1>2, <1>4
  <2> QED
    BY <1>1, <1>3, <1>4, <2>1
<1>6. ASSUME s[L - 1].k = "exec"
      PROVE  /\ L - 2 \in 1 .. L /\ s[L - 2].t = s[L].t /\ d[L - 1] = d[L - 2] + s[L - 1].n
             /\ s[L - 2].k \in {"call", "resume"}
             /\ s[L - 2].k = "call" => s[L - 2].pc = "in"
             /\ s[L - 1].n \in Nat \ {0}
  <2>1. /\ (L - 1) - 1 \in 1 .. L /\ Above(s[(L - 1) - 1], s[L - 1])
        /\ s[(L - 1) - 1].t = s[L - 1].t /\ d[L - 1] = d[(L - 1) - 1] + FramesIn(s[L - 1])
    BY <1>1, <1>5, <1>6, StackStep DEF L
  <2>2. (L - 1) - 1 = L - 2
    BY <1>3
  <2>3. s[L - 1].n \in Nat
    BY <1>2, <1>4, <1>6, ActivationFacts
  <2> QED
    BY <1>4, <1>6, <2>1, <2>2, <2>3 DEF Above, FramesIn
<1>7. ASSUME s[L - 1].k = "exec"
      PROVE  L - 2 \in 2 .. L
  <2>1. L - 2 # 1
    BY <1>2, <1>6, <1>7
  <2> QED
    BY <1>1, <1>3, <1>6, <1>7, <2>1
(* a nested call above activation i makes the counter of the thread larger *)
<1>8. ASSUME NEW i \in 1 .. L, NEW j \in 2 .. L, i < j, s[j].k = "call", s[j].pc = "in"
      PROVE  e[i] < e[L]
  <2>1. Adds(s[j]) = 1 /\ e[i] + Adds(s[j]) <= e[j] /\ j \in 1 .. L /\ L \in 1 .. L
    BY <1>2, <1>3, <1>8 DEF Adds, Nested
  <2>2. e[j] <= e[L]
    <3>1. CASE j = L
      BY <1>2, <2>1, <3>1
    <3>2. CASE j < L
      <4>1. e[j] + Adds(s[L]) <= e[L] /\ Adds(s[L]) \in {0, 1}
        BY <1>2, <2>1, <3>2 DEF Adds
      <4> QED
        BY <1>2, <2>1, <4>1
    <3> QED
      BY <2>1, <3>1, <3>2
  <2> QED
    BY <1>2, <2>1, <2>2
<1>9. ASSUME NEW i \in 1 .. L, i < L - 1, e[L] <= e[i],
             s[L - 1].k = "exec" => i <= L - 2
      PROVE  s[L - 1].k = "exec" /\ (i = L - 2 \/ s[L - 2].k = "resume")
  <2>1. s[L - 1].k = "exec"
    <3>1. ~(e[i] < e[L])
      BY <1>2, <1>3, <1>9
    <3> QED
      BY <1>4, <1>5, <1>8, <1>9, <3>1
  <2>2. ASSUME i # L - 2, s[L - 2].k = "call"
        PROVE  FALSE
    <3>1. i < L - 2
      BY <1>3, <1>9, <2>1, <2>2
    <3>2. ~(e[i] < e[L])
      BY <1>2, <1>3, <1>9
    <3> QED
      BY <1>6, <1>7, <1>8, <2>1, <2>2, <3>1, <3>2
  <2> QED
    BY <1>6, <2>1, <2>2
<1>10. ASSUME s[L].t = "main"
       PROVE  FALSE
  <2>1. Running(m).baseC = 0
    BY <1>1, <1>10 DEF Inv, Running
  <2>2. e[L] <= e[1]
    BY <1>1, <1>2, <2>1
  <2>3. 1 \in 1 .. L /\ 1 < L - 1
    BY <1>3, <1>5
  <2>4. s[L - 1].k = "exec" => 1 <= L - 2
    BY <1>6
  <2>5. s[L - 1].k = "exec" /\ (1 = L - 2 \/ s[L - 2].k = "resume")
    BY <1>9, <2>2, <2>3, <2>4
  <2>6. s[L - 2].k = "resume"
    <3>1. L - 2 # 1
      BY <1>7, <2>5
    <3> QED
      BY <2>5, <3>1
  <2>7. s[L - 2].t = "co"
    BY <1>2, <1>6, <2>5, <2>6, ActivationFacts
  <2> QED
    BY <1>6, <1>10, <2>5, <2>7
<1>11. s[L].t = "co"
  BY <1>1, <1>10 DEF Threads
<1>12. PICK i \in 1 .. L : s[i].k = "resume"
  BY <1>2, <1>11
<1>13. e[L] <= e[i]
  <2>1. m.th["co"].baseC = e[i]
    <3>1. ActivationInv(m, d, e, i)
      BY <1>1, <1>12 DEF Inv, L
    <3> QED
      BY <1>12, <3>1 DEF ActivationInv
  <2>2. Running(m) = m.th["co"]
    BY <1>1, <1>11 DEF Running
  <2> QED
    BY <1>1, <2>1, <2>2
<1>14. i < L - 1 /\ (s[L - 1].k = "exec" => i <= L - 2)
  <2>1. i # L /\ i # L - 1
    BY <1>3, <1>4, <1>12
  <2> QED
    BY <1>3, <1>12, <2>1
<1>15. s[L - 1].k = "exec" /\ s[L - 2].k = "resume"
  BY <1>9, <1>12, <1>13, <1>14
<1>16. d[L - 2] = 1
  <2>1. L - 2 \in 2 .. Len(s)
    BY <1>7, <1>15 DEF L
  <2>2. d[L - 2] = FramesIn(s[L - 2])
    BY <1>1, <1>15, <2>1, StackStep
  <2> QED
    BY <1>15, <2>2 DEF FramesIn
<1>17. d[L - 1] = 1 + s[L - 1].n /\ d[L] = 2 + s[L - 1].n /\ s[L - 1].n \in Nat \ {0}
  BY <1>4, <1>6, <1>15, <1>16
<1> QED
  BY <1>1, <1>3, <1>4, <1>5, <1>7, <1>11, <1>15, <1>17 DEF L

LEMMA SubSubSeq ==
  ASSUME NEW S, NEW s \in Seq(S), NEW n \in 0 .. Len(s), NEW k \in 0 .. n
  PROVE  SubSeq(SubSeq(s, 1, n), 1, k) = SubSeq(s, 1, k)
<1>1. SubSeq(s, 1, n) \in Seq(S) /\ Len(SubSeq(s, 1, n)) = n /\ Keeps(SubSeq(s, 1, n), s, n)
  BY Prefix DEF Keeps
<1> QED
  BY <1>1, KeptBelow

(* The yield leaves luaV_execute and resume.                               *)
LEMMA YieldGood ==
  ASSUME NEW m, Sound(m), Last(m.cs).k = "cfun", Running(m).nC < ErrCCalls,
         Running(m).nC <= Running(m).baseC, NEW t, t = Last(m.cs).t
  PROVE  Good(FinishResume(Leave(Leave(
                Update(m, t, Yielded(Running(m), GetTop(Running(m))))))))
<1> DEFINE L == Len(m.cs)
           C == m.th["co"]
           m0 == Update(m, t, Yielded(Running(m), GetTop(Running(m))))
           K == [C EXCEPT !.status = "yield", !.nC = C.nC - 1]
           m2 == Leave(Leave(m0))
           m3 == [m2 EXCEPT !.th["co"].nC = @ - 1]
           m1 == Leave(m3)
<1>1. PICK d, e \in [DOMAIN m.cs -> Nat] : Inv(m, d, e)
  BY DEF Sound
<1>2. /\ m \in State /\ L \in Nat \ {0} /\ m.cs \in Seq(Activation) /\ m.cs # <<>>
      /\ DOMAIN m.cs = 1 .. L /\ ~Frame(Running(m)).lua
  BY SoundFacts
<1>3. /\ L - 1 \in 2 .. L /\ L - 2 \in 2 .. L /\ L \in Nat /\ t = "co"
      /\ m.cs[L - 2].k = "resume" /\ m.cs[L - 1].k = "exec" /\ m.cs[L - 1].t = "co"
      /\ m.cs[L - 1].n \in Nat \ {0} /\ d[L - 1] = 1 + m.cs[L - 1].n
      /\ Len(Running(m).ci) = 2 + m.cs[L - 1].n /\ e[L] = Running(m).nC
  BY <1>1, YieldsToResume
<1>4. C \in Thread /\ FramesInv(C) /\ C = Running(m) /\ C.nC \in Nat /\ C.stk \in Seq(Value)
  BY <1>3, SoundFacts
<1>5. /\ Len(C.ci) \in Nat /\ Len(C.ci) > 2 /\ ~Frame(C).lua
      /\ \A j \in DOMAIN C.ci : 1 < j /\ j < Len(C.ci) => C.ci[j].lua
  <2>1. ActivationInv(m, d, e, L - 1)
    BY <1>1, <1>2, <1>3 DEF Inv
  <2>2. \A j \in DOMAIN C.ci : d[L - 1] - m.cs[L - 1].n < j /\ j <= d[L - 1] => C.ci[j].lua
    BY <1>3, <2>1 DEF ActivationInv
  <2>3. DOMAIN C.ci = 1 .. Len(C.ci) /\ Len(C.ci) = 2 + m.cs[L - 1].n
    BY <1>3, <1>4, FramesFacts
  <2>4. ~Frame(C).lua
    BY <1>2, <1>4
  <2> DEFINE k == m.cs[L - 1].n
  <2>5. k \in Nat \ {0} /\ d[L - 1] = 1 + k /\ Len(C.ci) = 2 + k
    BY <1>3, <2>3
  <2>6. \A j \in 1 .. Len(C.ci) : 1 < j /\ j < Len(C.ci) => C.ci[j].lua
    <3> HIDE DEF k, C
    <3>1. \A j \in 1 .. Len(C.ci) : d[L - 1] - k < j /\ j <= d[L - 1] => C.ci[j].lua
      BY <2>2, <2>3 DEF k
    <3> QED
      BY <2>5, <3>1
  <2> HIDE DEF k, C
  <2> QED
    BY <2>3, <2>4, <2>5, <2>6
<1>6. m0 = [m EXCEPT !.th["co"] = [C EXCEPT !.status = "yield"]]
  <2>1. C.base \in Nat /\ Len(C.stk) \in Nat
    BY <1>4, FramesFacts
  <2>2. Top(C) - GetTop(C) = C.base
    BY <2>1 DEF Top, GetTop
  <2>3. [C EXCEPT !.base = C.base, !.status = "yield"] = [C EXCEPT !.status = "yield"]
    BY <1>4 DEF Thread
  <2>4. Yielded(C, GetTop(C)) = [C EXCEPT !.status = "yield"]
    BY <2>2, <2>3 DEF Yielded
  <2> QED
    BY <1>3, <1>4, <2>4 DEF Update
<1>7. /\ K \in Thread /\ K.ci = C.ci /\ K.base = C.base /\ K.over = C.over
      /\ K.open = C.open /\ K.stk = C.stk /\ K.status = "yield"
      /\ [C EXCEPT !.status = "yield"] \in Thread
      /\ K = [[C EXCEPT !.status = "yield"] EXCEPT !.nC = @ - 1]
  <2>1. C.nC - 1 \in Int
    BY <1>4
  <2> HIDE DEF C
  <2> QED
    BY <1>4, <2>1 DEF Thread
<1>8. FinishResume(m2) = Answer(m1, "ok")
  BY DEF FinishResume
<1> DEFINE Y == [C EXCEPT !.status = "yield"]
<1>9. Y \in Thread /\ K = [Y EXCEPT !.nC = @ - 1] /\ m0 = [m EXCEPT !.th["co"] = Y]
  BY <1>6, <1>7
<1> HIDE DEF K, C, Y, m0, L
<1>10. "co" \in Threads
  BY DEF Threads
<1>11. m0 \in State /\ m0.cs = m.cs /\ m0.th = [m.th EXCEPT !["co"] = Y]
  BY <1>2, <1>9, <1>10 DEF State
<1>12. m2 \in State /\ m2.th = m0.th /\ m2.cs = SubSeq(m.cs, 1, L - 2)
  <2> DEFINE r == Leave(m0)
  <2>1. r \in State /\ r.th = m0.th /\ r.cs = SubSeq(m.cs, 1, L - 1)
    BY <1>2, <1>11, LeaveFacts DEF L
  <2>2. L - 1 \in 0 .. Len(m.cs) /\ L - 2 \in 0 .. L - 1 /\ L - 1 \in Nat /\ L - 1 # 0
    BY <1>2, <1>3 DEF L
  <2>3. Len(r.cs) = L - 1 /\ r.cs # <<>>
    <3>1. Len(r.cs) = L - 1
      BY <1>2, <2>1, <2>2, Prefix
    <3> QED
      BY <2>2, <3>1
  <2> HIDE DEF r
  <2>4. Leave(r) \in State /\ Leave(r).th = r.th /\ Leave(r).cs = SubSeq(r.cs, 1, Len(r.cs) - 1)
    BY <2>1, <2>3, LeaveFacts
  <2>5. Len(r.cs) - 1 = L - 2
    BY <1>3, <2>3
  <2>6. SubSeq(r.cs, 1, L - 2) = SubSeq(m.cs, 1, L - 2)
    BY <1>2, <2>1, <2>2, SubSubSeq
  <2> QED
    BY <2>1, <2>4, <2>5, <2>6 DEF r
<1> HIDE DEF m2
<1>13. m3 \in State /\ m3.cs = m2.cs /\ m3.th = [m.th EXCEPT !["co"] = K]
  <2>1. m2.th["co"] = Y /\ m.th \in [Threads -> Thread]
    BY <1>2, <1>10, <1>11, <1>12 DEF State
  <2>2. m3 = [m2 EXCEPT !.th = [m2.th EXCEPT !["co"] = [Y EXCEPT !.nC = @ - 1]]]
    BY <1>10, <1>12, <2>1 DEF State
  <2>3. [m2.th EXCEPT !["co"] = K] = [m.th EXCEPT !["co"] = K]
    BY <1>10, <1>11, <1>12, <2>1
  <2>4. m3 = [m2 EXCEPT !.th = [m.th EXCEPT !["co"] = K]]
    BY <1>9, <2>2, <2>3
  <2> HIDE DEF m3
  <2> QED
    BY <1>7, <1>10, <1>12, <2>1, <2>4 DEF State
<1> HIDE DEF m3
<1>14. m1 \in State /\ m1.cs = SubSeq(m.cs, 1, (L - 2) - 1) /\ m1.th = m3.th
  <2>1. L - 2 \in 0 .. Len(m.cs) /\ (L - 2) - 1 \in 0 .. L - 2 /\ L - 2 # 0
    <3>1. L = Len(m.cs)
      BY DEF L
    <3>2. L - 2 \in 0 .. L /\ (L - 2) - 1 \in 0 .. L - 2 /\ L - 2 # 0
      BY <1>3
    <3> QED
      BY <3>1, <3>2
  <2>2. Len(m3.cs) = L - 2 /\ m3.cs # <<>>
    <3>1. Len(m3.cs) = L - 2
      BY <1>2, <1>12, <1>13, <2>1, Prefix
    <3> QED
      BY <2>1, <3>1
  <2>3. m1 \in State /\ m1.th = m3.th /\ m1.cs = SubSeq(m3.cs, 1, Len(m3.cs) - 1)
    BY <1>13, <2>2, LeaveFacts
  <2>4. SubSeq(m3.cs, 1, (L - 2) - 1) = SubSeq(m.cs, 1, (L - 2) - 1)
    BY <1>2, <1>12, <1>13, <2>1, SubSubSeq
  <2> QED
    BY <2>2, <2>3, <2>4
<1> HIDE DEF m1
<1>15. FramesInv(K)
  BY <1>4, <1>7 DEF FramesInv, FrameInv, SizeCI, Frame
<1>16. AtRest(K, NoOne)
  <2>1. Frame(K) = Frame(C)
    BY <1>7 DEF Frame
  <2> QED
    BY <1>5, <1>7, <2>1 DEF AtRest
<1>17. Resumed(m, e, L - 2, K, m1)
  <2>1. L - 2 \in 2 .. Len(m.cs) /\ e[Len(m.cs)] <= ErrCCalls /\ K.status # "error"
    <3>1. ErrCCalls \in Nat
      BY LimitsOrdered
    <3> QED
      BY <1>3, <1>4, <1>7, <3>1 DEF L
  <2>2. /\ m1.th = [m.th EXCEPT !["co"] = K] /\ m1 \in State
        /\ m1.cs = SubSeq(m.cs, 1, (L - 2) - 1) /\ m.cs[L - 2].k = "resume" /\ K \in Thread
    BY <1>3, <1>7, <1>13, <1>14
  <2> QED
    BY <1>15, <1>16, <2>1, <2>2 DEF Resumed
<1>18. Good(Answer(m1, "ok"))
  BY <1>1, <1>17, AnswersBack
<1> QED
  BY <1>8, <1>18 DEF m2, m0

LEMMA BaseYieldStep ==
  ASSUME IInv, BaseYield
  PROVE  IInv'
<1>1. /\ Here.k = "cfun" /\ Here.f = "yield"
      /\ Become(IF Now.nC > Now.baseC THEN RunError(M, Here.t)
                ELSE FinishResume(Leave(Leave(
                       Update(M, Here.t, Yielded(Now, GetTop(Now)))))))
  BY DEF BaseYield, InC
<1>2. /\ Sound(M) /\ Last(M.cs) = Here /\ Running(M) = Now /\ Now.nC < ErrCCalls
      /\ Now \in Thread
  BY <1>1, CFacts
<1>3. CASE Now.nC > Now.baseC
  <2>1. Good(RunError(M, Here.t))
    BY <1>1, <1>2, RunErrorRests
  <2> QED
    BY <1>1, <1>3, <2>1, Becomes
<1>4. CASE ~(Now.nC > Now.baseC)
  <2>1. Now.nC <= Now.baseC
    <3>1. Now.nC \in Int /\ Now.baseC \in Int
      BY <1>2 DEF Thread
    <3> QED
      BY <1>4, <3>1
  <2>2. Good(FinishResume(Leave(Leave(Update(M, Here.t, Yielded(Now, GetTop(Now)))))))
    BY <1>1, <1>2, <2>1, YieldGood
  <2> QED
    BY <1>1, <1>4, <2>2, Becomes
<1> QED
  BY <1>3, <1>4

-----------------------------------------------------------------------------
(* The first state.                                                        *)

LEMMA InitGood ==
  ASSUME Init
  PROVE  IInv
<1> DEFINE N == NewThread
           C == [N EXCEPT !.stk = <<>>, !.ci = <<>>]
           a == [k |-> "jni", t |-> "main", pc |-> "idle"]
           s == <<a>>
           d == [i \in 1 .. 1 |-> 1]
           e == [i \in 1 .. 1 |-> 0]
<1>1. M.cs = s /\ M.th = [t \in Threads |-> IF t = "main" THEN N ELSE C]
  BY DEF Init, M
<1>2. /\ N \in Thread /\ FramesInv(N) /\ N.status = "ok" /\ Len(N.ci) = 1
      /\ N.nC = 0 /\ N.baseC = 0
  <2> DEFINE z == <<NilValue>>
  <2>1. z \in Seq(Value) /\ Len(z) > 0 /\ z[1] = NilValue
    BY DEF Value
  <2>2. N = [N EXCEPT !.stk = z]
    <3> DEFINE c == [func |-> 1, base |-> 2, top |-> 2 + MinStack, want |-> 0,
                     lua |-> FALSE, captured |-> {}, under |-> <<NilValue>>]
               R == [stk |-> z, base |-> 2, ci |-> <<c>>, status |-> "ok", nC |-> 0,
                     baseC |-> 0, ef |-> 0, open |-> {}, over |-> FALSE]
    <3>1. N = R
      BY DEF NewThread
    <3> DEFINE K == [R EXCEPT !.stk = z]
    <3> HIDE DEF c, z, N, K
    <3>2. K = [R EXCEPT !.stk = z]
      BY DEF K
    <3>3. K = R
      BY <3>2
    <3> HIDE DEF R
    <3> QED
      BY <3>1, <3>2, <3>3
  <2> HIDE DEF z, N
  <2> QED
    BY <2>1, <2>2, NewFrames DEF N
<1> HIDE DEF N
<1>3. C \in Thread /\ C.ci = <<>>
  <2>1. <<>> \in Seq(Value) /\ <<>> \in Seq(CallInfo)
    BY EmptySeq
  <2> DEFINE z == <<>>
  <2>2. C = [N EXCEPT !.stk = z, !.ci = z] /\ z \in Seq(Value) /\ z \in Seq(CallInfo)
    BY <2>1
  <2> HIDE DEF z, C
  <2>3. C \in Thread /\ C.ci = z
    BY <1>2, <2>2 DEF Thread
  <2> QED
    BY <2>3 DEF z
<1>4. a \in Activation
  BY DEF Activation
<1>5. a.k = "jni" /\ a.t = "main"
  OBVIOUS
<1> HIDE DEF a
<1>6. s \in Seq(Activation) /\ Len(s) = 1 /\ DOMAIN s = 1 .. 1 /\ s[1] = a /\ s # <<>>
  BY <1>4
<1> HIDE DEF s
<1>7. /\ d \in [1 .. 1 -> Nat] /\ e \in [1 .. 1 -> Nat] /\ d[1] = 1 /\ e[1] = 0
  OBVIOUS
<1> HIDE DEF d, e
<1>8. StackInv(s, d, e)
  <2>1. \A i \in 1 .. 1 : s[i].t # "co"
    BY <1>5, <1>6
  <2>2. \A i, j \in 1 .. 1 : ~(i < j)
    OBVIOUS
  <2>3. \A i \in 2 .. 1 : FALSE
    OBVIOUS
  <2>4. s[1].k = "jni" /\ 1 \in Nat \ {0}
    BY <1>5, <1>6
  <2> QED
    BY <1>6, <1>7, <2>1, <2>2, <2>3, <2>4, StackFrom
<1>9. M.th["main"] = N /\ M.th["co"] = C /\ "main" \in Threads /\ "co" \in Threads
  BY <1>1 DEF Threads
<1>10. M \in State
  <2>1. \A t \in Threads : (IF t = "main" THEN N ELSE C) \in Thread
    BY <1>2, <1>3
  <2>2. M.th \in [Threads -> Thread] /\ M.cs \in Seq(Activation)
    BY <1>1, <1>6, <2>1
  <2>3. M = [th |-> M.th, cs |-> M.cs]
    BY DEF M
  <2> QED
    BY <2>2, <2>3 DEF State
<1>11. ~Runs(M.cs) /\ Last(M.cs) = a
  <2>1. ~Runs(s)
    BY <1>5, <1>6 DEF Runs
  <2>2. Last(s) = s[1]
    BY <1>4, <1>6, LastOf
  <2> QED
    BY <1>1, <1>6, <2>1, <2>2
<1>12. CoroutineInv(M)
  <2>1. M.th["co"] = [NewThread EXCEPT !.stk = <<>>, !.ci = <<>>]
    BY <1>9 DEF N
  <2> QED
    BY <1>3, <1>9, <1>11, <2>1 DEF CoroutineInv
<1>13. ASSUME NEW i \in 1 .. 1
       PROVE  ActivationInv(M, d, e, i)
  <2>1. i = 1 /\ M.cs[i] = a /\ M.th[a.t] = N /\ d[i] = 1 /\ e[i] = 0
    BY <1>1, <1>5, <1>6, <1>7, <1>9
  <2>2. 1 \in DOMAIN N.ci /\ Len(N.ci) = 1 /\ N.nC = 0
    BY <1>2, FramesFacts
  <2> QED
    BY <1>5, <2>1, <2>2 DEF ActivationInv, Owns
<1>14. Inv(M, d, e)
  BY <1>1, <1>2, <1>6, <1>8, <1>9, <1>10, <1>12, <1>13 DEF Inv
<1>15. Rests(M, e)
  <2>1. e[Len(M.cs)] < ErrCCalls
    <3>1. 0 < ErrCCalls
      BY LimitsOrdered
    <3> QED
      BY <1>1, <1>6, <1>7, <3>1
  <2> QED
    BY <1>5, <1>11, <2>1 DEF Rests
<1> QED
  BY <1>1, <1>6, <1>7, <1>14, <1>15 DEF IInv, Good

-----------------------------------------------------------------------------
(* Every step.                                                             *)

LEMMA LuaStepGood ==
  ASSUME IInv, LuaStep
  PROVE  IInv'
<1>1. ASSUME NEW c \in Callees, NEW want \in Wants, OpCall(c, want)
      PROVE  IInv'
  BY <1>1, OpCallStep
<1>2. ASSUME NEW c \in Callees, OpTailCall(c)
      PROVE  IInv'
  BY <1>2, OpTailCallStep
<1>3. ASSUME NEW c \in Callees \cap Iterators, OpTForLoop(c)
      PROVE  IInv'
  BY <1>3, OpTForLoopStep
<1>4. ASSUME NEW f \in Loadable(Metamethods), OpMetamethod(f)
      PROVE  IInv'
  BY <1>4, OpMetamethodStep
<1>5. ASSUME NEW n \in 0 .. 1, OpReturn(n)
      PROVE  IInv'
  BY <1>5, OpReturnStep
<1>6. CASE OpReturnAll
  BY <1>6, OpReturnAllStep
<1>7. CASE OpVararg
  BY <1>7, OpVarargStep
<1>8. CASE OpClosure(0)
  BY <1>8, OpClosureStep
<1>9. CASE OpClose(0)
  BY <1>9, OpCloseStep
<1> QED
  BY <1>1, <1>2, <1>3, <1>4, <1>5, <1>6, <1>7, <1>8, <1>9 DEF LuaStep

LEMMA CStepGood ==
  ASSUME IInv, CStep
  PROVE  IInv'
<1>1. ASSUME NEW n \in 0 .. 1, CReturn(n)
      PROVE  IInv'
  BY <1>1, CReturnStep
<1>2. CASE CError
  BY <1>2, CErrorStep
<1>3. ASSUME NEW c \in Callees, NEW want \in Wants, CCall(c, want)
      PROVE  IInv'
  BY <1>3, CCallStep
<1>4. CASE BasePcall \/ BasePcallDone
  BY <1>4, BasePcallStep, BasePcallDoneStep
<1>5. CASE BaseXPcall \/ BaseXPcallDone
  BY <1>5, BaseXPcallStep, BaseXPcallDoneStep
<1>6. CASE BaseCoWrap
  BY <1>6, BaseCoWrapStep
<1>7. CASE AuxResume \/ AuxWrapDone
  BY <1>7, AuxResumeStep, AuxWrapDoneStep
<1>8. CASE BaseYield
  BY <1>8, BaseYieldStep
<1> QED
  BY <1>1, <1>2, <1>3, <1>4, <1>5, <1>6, <1>7, <1>8 DEF CStep

LEMMA JavaStepGood ==
  ASSUME IInv, JavaStep
  PROVE  IInv'
<1>1. ASSUME NEW c \in Loadable(Entries), JavaPcall(c, 0, "L")
      PROVE  IInv'
  <2>1. 0 \in Result /\ "L" \in Value
    BY DEF Result, Value, LuaFunctions
  <2> QED
    BY <1>1, <2>1, JavaPcallStep
<1>2. ASSUME NEW c \in Loadable(Entries), JavaPcall(c, 1, NilValue)
      PROVE  IInv'
  <2>1. 1 \in Result /\ NilValue \in Value
    BY DEF Result, Value
  <2> QED
    BY <1>2, <2>1, JavaPcallStep
<1>3. CASE JavaSetTop
  BY <1>3, JavaSetTopStep
<1> QED
  BY <1>1, <1>2, <1>3 DEF JavaStep

LEMMA NextGood ==
  ASSUME IInv, [Next]_vars
  PROVE  IInv'
<1>1. CASE LuaDCall
  BY <1>1, LuaDCallStep
<1>2. CASE LuaStep
  BY <1>2, LuaStepGood
<1>3. CASE CStep
  BY <1>3, CStepGood
<1>4. CASE JavaStep
  BY <1>4, JavaStepGood
<1>5. CASE UNCHANGED vars
  <2>1. M' = M
    BY <1>5 DEF vars, M
  <2>2. Good(M)' <=> Good(M')
    BY DEF Good
  <2> QED
    BY <2>1 DEF IInv
<1> QED
  BY <1>1, <1>2, <1>3, <1>4, <1>5 DEF Next

(***************************************************************************)
(* In every state the interpreter reaches, whatever it calls, the C stack, *)
(* the call frames and the stacks of the two threads fit together as IInv  *)
(* says: luaD_precall, luaD_poscall, luaD_pcall, luaD_throw, lua_resume    *)
(* and lua_yield each leave them so.                                       *)
(***************************************************************************)
THEOREM CallsInvariant == Spec => []IInv
<1>1. Init => IInv
  BY InitGood
<1>2. IInv /\ [Next]_vars => IInv'
  BY NextGood
<1> QED
  BY <1>1, <1>2, PTL DEF Spec

-----------------------------------------------------------------------------
(* What the properties say follows from the invariant.                     *)

LEMMA Untouched ==
  ASSUME IInv
  PROVE  CallersUntouched
<1>1. PICK d, e \in [DOMAIN M.cs -> Nat] : Inv(M, d, e)
  BY DEF IInv, Good
<1>2. M.cs = cs /\ M.th = th
  BY DEF M
<1>3. ASSUME NEW t \in Threads, NEW i \in DOMAIN th[t].ci
      PROVE  SubSeq(th[t].stk, 1, th[t].ci[i].func) = th[t].ci[i].under
  <2>1. FramesInv(th[t])
    <3>1. CASE t = "main"
      BY <1>1, <1>2, <3>1 DEF Inv
    <3>2. CASE t = "co"
      <4>1. th["co"].ci # <<>>
        BY <1>3, <3>2
      <4> QED
        BY <1>1, <1>2, <3>2, <4>1 DEF Inv, CoroutineInv
    <3> QED
      BY <1>3, <3>1, <3>2 DEF Threads
  <2> QED
    BY <1>3, <2>1 DEF FramesInv, FrameInv
<1>4. ASSUME NEW i \in DOMAIN cs, cs[i].k = "pcall"
      PROVE  SubSeq(th[cs[i].t].stk, 1, cs[i].top - 1) = cs[i].under
  <2>1. ActivationInv(M, d, e, i)
    BY <1>1, <1>2, <1>4 DEF Inv
  <2> QED
    BY <1>2, <1>4, <2>1 DEF ActivationInv
<1> QED
  BY <1>3, <1>4 DEF CallersUntouched

LEMMA UpvalsShared ==
  ASSUME IInv
  PROVE  UpvalsLive
<1>1. PICK d, e \in [DOMAIN M.cs -> Nat] : Inv(M, d, e)
  BY DEF IInv, Good
<1>2. M.cs = cs /\ M.th = th
  BY DEF M
<1>3. ASSUME NEW t \in Threads, FramesInv(th[t])
      PROVE  th[t].open = UNION {th[t].ci[i].captured : i \in DOMAIN th[t].ci}
  BY <1>3 DEF FramesInv
<1>4. ASSUME th["co"].ci = <<>>
      PROVE  th["co"].open = UNION {th["co"].ci[i].captured : i \in DOMAIN th["co"].ci}
  <2>1. th["co"] = [NewThread EXCEPT !.stk = <<>>, !.ci = <<>>]
    BY <1>1, <1>2, <1>4 DEF Inv, CoroutineInv
  <2>2. th["co"].open = {}
    BY <2>1 DEF NewThread
  <2>3. DOMAIN th["co"].ci = {}
    BY <1>4
  <2> QED
    BY <2>2, <2>3
<1>5. FramesInv(th["main"]) /\ (th["co"].ci # <<>> => FramesInv(th["co"]))
  BY <1>1, <1>2 DEF Inv, CoroutineInv
<1> QED
  BY <1>3, <1>4, <1>5 DEF UpvalsLive, Threads

LEMMA SameSize ==
  ASSUME NEW S, NEW T, IsFiniteSet(T), NEW f \in [S -> T],
         \A x, y \in S : f[x] = f[y] => x = y, \A y \in T : \E x \in S : f[x] = y
  PROVE  Cardinality(S) = Cardinality(T)
<1>1. f \in Injection(S, T)
  BY DEF Injection, IsInjective
<1>2. f \in Surjection(S, T)
  BY DEF Surjection
<1> QED
  BY <1>1, <1>2, FS_Injection

LEMMA Least ==
  ASSUME NEW S \in SUBSET Nat, S # {}
  PROVE  \E n \in S : \A k \in S : n <= k
<1> DEFINE R == {ss \in Nat \X Nat : ss[1] < ss[2]}
<1>1. IsWellFoundedOn(R, Nat)
  BY NatLessThanWellFounded DEF OpToRel
<1>2. PICK n \in S : \A k \in S : <<k, n>> \notin R
  <2> HIDE DEF R
  <2> QED
    BY <1>1, WFMin
<1>3. ASSUME NEW k \in S
      PROVE  n <= k
  <2>1. <<k, n>> \notin R /\ k \in Nat /\ n \in Nat
    BY <1>2
  <2>2. ~(k < n)
    BY <2>1
  <2> QED
    BY <2>1, <2>2
<1> QED
  BY <1>3

(* e counts the nested calls.                                              *)
LEMMA NestedCounted ==
  ASSUME NEW s \in Seq(Activation), NEW d, NEW e, StackInv(s, d, e), NEW n \in 1 .. Len(s)
  PROVE  Cardinality({i \in 1 .. n : Nested(s[i])}) = e[n]
<1> DEFINE S == {i \in 1 .. n : Nested(s[i])}
           f == [i \in S |-> e[i]]
<1>1. /\ Len(s) \in Nat /\ s[1].k = "jni" /\ e[1] = 0
      /\ \A i \in 1 .. n : s[i] \in Activation /\ e[i] \in Nat
      /\ \A i \in 2 .. n : e[i] = e[i - 1] + Adds(s[i])
  BY StackFacts
<1>2. \A i, j \in 1 .. n : i < j => e[i] + Adds(s[j]) <= e[j]
  BY StackFacts
<1>3. \A i \in 1 .. n : Adds(s[i]) = IF Nested(s[i]) THEN 1 ELSE 0
  BY DEF Adds
<1>4. 1 \notin S /\ 1 \in 1 .. n /\ n \in 1 .. n
  BY <1>1 DEF Nested
<1>5. ASSUME NEW i \in S
      PROVE  e[i] \in 1 .. e[n]
  <2>1. i \in 1 .. n /\ Nested(s[i]) /\ 1 < i
    BY <1>4
  <2>2. 1 <= e[i]
    BY <1>1, <1>2, <1>3, <1>4, <2>1
  <2>3. e[i] <= e[n]
    <3>1. CASE i = n
      BY <1>1, <1>4, <3>1
    <3>2. CASE i < n
      <4>1. e[i] + Adds(s[n]) <= e[n] /\ Adds(s[n]) \in {0, 1}
        BY <1>2, <1>3, <1>4, <2>1, <3>2
      <4>2. e[i] \in Nat /\ e[n] \in Nat
        BY <1>1, <1>4, <2>1
      <4> QED
        BY <4>1, <4>2
    <3> QED
      BY <2>1, <3>1, <3>2
  <2> QED
    BY <1>1, <1>4, <2>1, <2>2, <2>3
<1>6. ASSUME NEW k \in 1 .. e[n]
      PROVE  \E i \in S : e[i] = k
  <2> DEFINE R == {i \in 1 .. n : k <= e[i]}
  <2>1. n \in R /\ R \in SUBSET Nat
    BY <1>1, <1>4
  <2>2. PICK i \in R : \A j \in R : i <= j
    BY <2>1, Least
  <2>3. i \in 1 .. n /\ k <= e[i] /\ i # 1
    BY <1>1, <2>2
  <2>4. i - 1 \in 1 .. n /\ i \in 2 .. n /\ ~(i <= i - 1)
    BY <2>3
  <2>5. e[i - 1] < k
    BY <1>1, <2>2, <2>4
  <2>6. e[i] = e[i - 1] + Adds(s[i]) /\ e[i] \in Nat /\ e[i - 1] \in Nat
    BY <1>1, <2>4
  <2>7. Nested(s[i]) /\ e[i] = k
    BY <1>3, <2>3, <2>5, <2>6
  <2> QED
    BY <2>3, <2>7
<1>7. \A i, j \in S : e[i] = e[j] => i = j
  <2>1. \A i, j \in S : i < j => e[i] < e[j]
    BY <1>1, <1>2, <1>3
  <2> QED
    BY <1>1, <2>1
<1>8. IsFiniteSet(1 .. e[n]) /\ Cardinality(1 .. e[n]) = e[n]
  <2>1. e[n] \in Nat /\ e[n] \in Int /\ 1 \in Int
    BY <1>1, <1>4
  <2>2. /\ IsFiniteSet(1 .. e[n])
        /\ Cardinality(1 .. e[n]) = IF 1 > e[n] THEN 0 ELSE e[n] - 1 + 1
    BY <2>1, FS_Interval
  <2> QED
    BY <2>1, <2>2
<1>9. Cardinality(S) = Cardinality(1 .. e[n])
  <2>1. f \in [S -> 1 .. e[n]]
    BY <1>5
  <2>2. \A i, j \in S : f[i] = f[j] => i = j
    BY <1>7
  <2>3. \A k \in 1 .. e[n] : \E i \in S : f[i] = k
    BY <1>6
  <2> HIDE DEF f, S
  <2> QED
    BY <1>8, <2>1, <2>2, <2>3, SameSize
<1> QED
  BY <1>8, <1>9

(* The coroutine's activations are those from its resume on.               *)
LEMMA FromResume ==
  ASSUME NEW s \in Seq(Activation), NEW d, NEW e, StackInv(s, d, e),
         NEW r \in 1 .. Len(s), s[r].k = "resume"
  PROVE  /\ r \in 2 .. Len(s) /\ s[r].t = "co"
         /\ \A i \in 1 .. Len(s) : s[i].t = "co" <=> r <= i
         /\ \A i \in 1 .. Len(s) : s[i].k = "resume" => i = r
<1>1. /\ Len(s) \in Nat /\ s[1].k = "jni"
      /\ \A i \in 1 .. Len(s) : s[i] \in Activation
  BY StackFacts
<1>2. \A i \in 1 .. Len(s) : s[i].t = "co" =>
        /\ \E j \in 1 .. Len(s) : j <= i /\ s[j].k = "resume"
        /\ \A j \in 1 .. Len(s) : i < j => s[j].t = "co" /\ s[j].k # "resume"
  BY StackFacts
<1>3. \A i \in 1 .. Len(s) : s[i].k = "resume" => s[i].t = "co"
  BY <1>1, ActivationFacts
<1>4. ASSUME NEW i \in 1 .. Len(s), s[i].k = "resume"
      PROVE  i = r
  <2>1. ~(i < r) /\ ~(r < i)
    BY <1>2, <1>3, <1>4
  <2> QED
    BY <2>1
<1>5. ASSUME NEW i \in 1 .. Len(s), s[i].t = "co"
      PROVE  r <= i
  <2>1. PICK j \in 1 .. Len(s) : j <= i /\ s[j].k = "resume"
    BY <1>2, <1>5
  <2> QED
    BY <1>4, <2>1
<1>6. ASSUME NEW i \in 1 .. Len(s), r <= i
      PROVE  s[i].t = "co"
  <2>1. r = i \/ r < i
    BY <1>6
  <2> QED
    BY <1>2, <1>3, <1>6, <2>1
<1>7. r # 1
  BY <1>1
<1> QED
  BY <1>1, <1>3, <1>4, <1>5, <1>6, <1>7

(* The activations of thread t are those from a to p.                      *)
Stretch(m, d, e, t, a, p) ==
  /\ a \in 1 .. Len(m.cs) /\ p \in 1 .. Len(m.cs) /\ a <= p
  /\ \A i \in 1 .. Len(m.cs) : m.cs[i].t = t <=> a <= i /\ i <= p
  /\ d[a] = 1 /\ m.cs[a].k \in {"jni", "resume"}
  /\ \A i \in a + 1 .. p : m.cs[i].k \notin {"jni", "resume"}
                           /\ d[i] = d[i - 1] + FramesIn(m.cs[i])
  /\ Len(m.th[t].ci) = d[p] /\ m.th[t].nC = e[p]

LEMMA Stretches ==
  ASSUME NEW m, NEW d, NEW e, Inv(m, d, e), NEW t \in Threads,
         \E i \in 1 .. Len(m.cs) : m.cs[i].t = t
  PROVE  \E a, p : Stretch(m, d, e, t, a, p) /\ (t = "main" => a = 1)
                   /\ (t = "co" => p = Len(m.cs))
<1> DEFINE s == m.cs
           L == Len(s)
<1>1. /\ s \in Seq(Activation) /\ L \in Nat \ {0} /\ StackInv(s, d, e)
      /\ Last(s) = s[L] /\ DOMAIN s = 1 .. L
  BY RunningFacts DEF Inv
<1>2. /\ s[1].k = "jni" /\ d[1] = 1
      /\ \A i \in 1 .. L : s[i] \in Activation /\ s[i].t \in Threads
  BY <1>1, StackFacts
<1>3. \A i \in 1 .. L : s[i].k = "jni" => s[i].t = "main"
  BY <1>2, ActivationFacts
<1>4. ASSUME NEW i \in 2 .. L
      PROVE  /\ s[i].k # "jni"
             /\ s[i].k = "resume" => d[i] = FramesIn(s[i])
             /\ s[i].k # "resume" => d[i] = d[i - 1] + FramesIn(s[i])
  <2>1. Above(s[i - 1], s[i])
    BY <1>1, StackStep
  <2>2. /\ s[i].k = "resume" => d[i] = FramesIn(s[i])
        /\ s[i].k # "resume" => d[i] = d[i - 1] + FramesIn(s[i])
    BY <1>1, StackStep
  <2> QED
    BY <2>1, <2>2 DEF Above
<1>5. ASSUME NEW i \in 1 .. L, IsLast(s, i)
      PROVE  Len(m.th[s[i].t].ci) = d[i] /\ m.th[s[i].t].nC = e[i]
  <2>1. ActivationInv(m, d, e, i)
    BY <1>1 DEF Inv
  <2> QED
    BY <1>5, <2>1 DEF ActivationInv
<1> HIDE DEF L
<1>6. CASE \A i \in 1 .. L : s[i].k # "resume"
  <2>1. \A i \in 1 .. L : s[i].t = "main"
    <3>1. \A i \in 1 .. L : s[i].t = "co" => \E j \in 1 .. L : s[j].k = "resume"
      <4>1. \A i \in 1 .. Len(s) : s[i].t = "co" =>
              /\ \E j \in 1 .. Len(s) : j <= i /\ s[j].k = "resume"
              /\ \A j \in 1 .. Len(s) : i < j => s[j].t = "co" /\ s[j].k # "resume"
        BY <1>1, StackFacts
      <4> QED
        BY <4>1 DEF L
    <3> QED
      BY <1>2, <1>6, <3>1 DEF Threads
  <2>2. t = "main"
    BY <2>1 DEF L
  <2>3. IsLast(s, L) /\ L \in 1 .. L /\ 1 \in 1 .. L
    BY <1>1 DEF IsLast, L
  <2>4. \A i \in 1 + 1 .. L : s[i].k \notin {"jni", "resume"}
                              /\ d[i] = d[i - 1] + FramesIn(s[i])
    <3>1. \A i \in 1 + 1 .. L : i \in 2 .. L /\ i \in 1 .. L
      BY <1>1
    <3> QED
      BY <1>4, <1>6, <3>1
  <2>5. \A i \in 1 .. L : s[i].t = t <=> 1 <= i /\ i <= L
    BY <1>1, <2>1, <2>2
  <2>6. Len(m.th[t].ci) = d[L] /\ m.th[t].nC = e[L] /\ 1 <= L
    BY <1>1, <1>5, <2>1, <2>2, <2>3
  <2>7. Stretch(m, d, e, t, 1, L)
    BY <1>2, <2>3, <2>4, <2>5, <2>6 DEF Stretch, L
  <2> QED
    BY <2>2, <2>7
<1>7. ASSUME NEW r \in 1 .. L, s[r].k = "resume"
      PROVE  \E a, p : Stretch(m, d, e, t, a, p) /\ (t = "main" => a = 1)
                       /\ (t = "co" => p = Len(m.cs))
  <2>1. /\ r \in 2 .. L /\ s[r].t = "co"
        /\ \A i \in 1 .. L : s[i].t = "co" <=> r <= i
        /\ \A i \in 1 .. L : s[i].k = "resume" => i = r
    BY <1>1, <1>7, FromResume DEF L
  <2>2. \A i \in 1 .. L : s[i].t = "main" <=> i <= r - 1
    <3>1. \A i \in 1 .. L : s[i].t = "main" <=> ~(r <= i)
      BY <1>2, <2>1 DEF Threads
    <3> QED
      BY <1>1, <2>1, <3>1
  <2>3. L \in 1 .. L /\ r - 1 \in 1 .. L /\ 1 \in 1 .. L /\ (r - 1) + 1 = r
        /\ 1 <= r - 1 /\ r <= L
    BY <1>1, <2>1
  <2>4. ASSUME t = "main"
        PROVE  Stretch(m, d, e, t, 1, r - 1)
    <3>1. \A i \in 1 + 1 .. r - 1 : s[i].k \notin {"jni", "resume"}
                                    /\ d[i] = d[i - 1] + FramesIn(s[i])
      <4>1. \A i \in 1 + 1 .. r - 1 : i \in 2 .. L /\ i \in 1 .. L /\ i # r
        BY <1>1, <2>1
      <4> QED
        BY <1>4, <2>1, <4>1
    <3>2. Len(m.th[t].ci) = d[r - 1] /\ m.th[t].nC = e[r - 1]
      <4>1. IsLast(s, r - 1)
        BY <1>7, <2>3 DEF IsLast
      <4>2. s[r - 1].t = "main"
        BY <2>2, <2>3
      <4> QED
        BY <1>5, <2>3, <2>4, <4>1, <4>2
    <3>3. \A i \in 1 .. L : s[i].t = t <=> 1 <= i /\ i <= r - 1
      BY <1>1, <2>2, <2>4
    <3> QED
      BY <1>2, <2>3, <3>1, <3>2, <3>3 DEF Stretch, L
  <2>5. ASSUME t = "co"
        PROVE  Stretch(m, d, e, t, r, L)
    <3>1. \A i \in r + 1 .. L : s[i].k \notin {"jni", "resume"}
                                /\ d[i] = d[i - 1] + FramesIn(s[i])
      <4>1. \A i \in r + 1 .. L : i \in 2 .. L /\ i \in 1 .. L /\ i # r
        BY <1>1, <2>1
      <4> QED
        BY <1>4, <2>1, <4>1
    <3>2. Len(m.th[t].ci) = d[L] /\ m.th[t].nC = e[L]
      <4>1. IsLast(s, L) /\ s[L].t = "co"
        BY <2>1, <2>3 DEF IsLast, L
      <4> QED
        BY <1>5, <2>3, <2>5, <4>1
    <3>3. \A i \in 1 .. L : s[i].t = t <=> r <= i /\ i <= L
      BY <1>1, <2>1, <2>5
    <3>4. d[r] = 1
      BY <1>4, <1>7, <2>1 DEF FramesIn
    <3> QED
      BY <1>7, <2>3, <3>1, <3>2, <3>3, <3>4 DEF Stretch, L
  <2>6. "main" # "co"
    OBVIOUS
  <2> QED
    BY <2>4, <2>5, <2>6 DEF Threads, L
<1> QED
  BY <1>6, <1>7

LEMMA CountsCalls ==
  ASSUME IInv
  PROVE  CallsCounted
<1>1. PICK d, e \in [DOMAIN M.cs -> Nat] : Inv(M, d, e) /\ Rests(M, e)
  BY DEF IInv, Good
<1>2. M.cs = cs /\ M.th = th
  BY DEF M
<1> DEFINE L == Len(cs)
<1>3. /\ cs \in Seq(Activation) /\ L \in Nat \ {0} /\ StackInv(cs, d, e) /\ DOMAIN cs = 1 .. L
      /\ Last(cs) = cs[L] /\ e[L] < ErrCCalls /\ L \in 1 .. L
  <2>1. /\ M.cs \in Seq(Activation) /\ Len(M.cs) \in Nat \ {0} /\ DOMAIN M.cs = 1 .. Len(M.cs)
        /\ Last(M.cs) = M.cs[Len(M.cs)]
    BY <1>1, RunningFacts
  <2>2. StackInv(M.cs, d, e) /\ e[Len(M.cs)] < ErrCCalls
    BY <1>1 DEF Inv, Rests
  <2>3. Len(M.cs) \in 1 .. Len(M.cs)
    BY <2>1
  <2> QED
    BY <1>2, <2>1, <2>2, <2>3
<1>4. /\ cs[1].k = "jni" /\ \A i \in 1 .. L : cs[i] \in Activation
  BY <1>3, StackFacts
<1>5. cs[1].t = "main" /\ 1 \in 1 .. L /\ "main" # "co"
  BY <1>3, <1>4, ActivationFacts
<1> HIDE DEF L
<1>6. Cardinality({i \in 1 .. L : Nested(cs[i])}) = e[L]
  BY <1>3, NestedCounted DEF L
<1>7. Count(Nested) = e[L]
  BY <1>3, <1>6 DEF Count
<1>8. th["main"].nC = Count(LAMBDA a : Nested(a) /\ a.t = "main")
  <2>1. "main" \in Threads /\ \E i \in 1 .. Len(M.cs) : M.cs[i].t = "main"
    BY <1>2, <1>5 DEF Threads, L
  <2>2. PICK a, p : Stretch(M, d, e, "main", a, p) /\ a = 1
    BY <1>1, <2>1, Stretches
  <2>3. /\ p \in 1 .. L /\ th["main"].nC = e[p]
        /\ \A i \in 1 .. L : cs[i].t = "main" <=> 1 <= i /\ i <= p
    BY <1>2, <2>2 DEF Stretch, L
  <2>4. Cardinality({i \in 1 .. p : Nested(cs[i])}) = e[p]
    <3>1. p \in 1 .. Len(cs)
      BY <2>3 DEF L
    <3> QED
      BY <1>3, <3>1, NestedCounted
  <2>5. {i \in 1 .. p : Nested(cs[i])} = {i \in 1 .. L : Nested(cs[i]) /\ cs[i].t = "main"}
    BY <1>3, <2>3
  <2> QED
    BY <1>3, <2>3, <2>4, <2>5 DEF Count
<1>9. Active("co") => th["co"].nC = Count(Nested)
  <2>1. SUFFICES ASSUME Active("co")
                 PROVE  th["co"].nC = e[L]
    BY <1>7
  <2>2. "co" \in Threads /\ \E i \in 1 .. Len(M.cs) : M.cs[i].t = "co"
    BY <1>2, <1>3, <2>1 DEF Threads, L, Active
  <2>3. PICK a, p : Stretch(M, d, e, "co", a, p) /\ p = Len(M.cs)
    BY <1>1, <2>2, Stretches
  <2> QED
    BY <1>2, <2>3 DEF Stretch, L
<1> QED
  BY <1>3, <1>7, <1>8, <1>9 DEF CallsCounted

(* Each frame of a thread but the first belongs to an activation of        *)
(* luaV_execute, if it is Lua's, or of a C function, if it is not.         *)
OwnFrames(m, d, i) == d[i] - FramesIn(m.cs[i]) + 1 .. d[i]

LEMMA FrameOwners ==
  ASSUME NEW m, NEW d, NEW e, Inv(m, d, e), NEW t \in Threads, NEW a, NEW p,
         Stretch(m, d, e, t, a, p)
  PROVE  LET T == m.th[t]
             R == {i \in 1 .. Len(m.cs) : m.cs[i].t = t /\ m.cs[i].k \in {"exec", "cfun"}}
         IN  /\ \A i \in R : /\ d[i] \in Nat /\ FramesIn(m.cs[i]) \in Nat
                             /\ m.cs[i].k = "cfun" => FramesIn(m.cs[i]) = 1
                             /\ m.cs[i].k = "exec" => FramesIn(m.cs[i]) = m.cs[i].n
                             /\ 1 <= d[i] - FramesIn(m.cs[i]) /\ d[i] <= Len(T.ci)
                             /\ \A j \in OwnFrames(m, d, i) :
                                  T.ci[j].lua = (m.cs[i].k = "exec")
             /\ \A i, j \in R : i < j => d[i] <= d[j] - FramesIn(m.cs[j])
             /\ \A j \in 2 .. Len(T.ci) : \E i \in R : j \in OwnFrames(m, d, i)
<1> DEFINE s == m.cs
           L == Len(s)
           T == m.th[t]
           R == {i \in 1 .. L : s[i].t = t /\ s[i].k \in {"exec", "cfun"}}
<1>1. /\ s \in Seq(Activation) /\ L \in Nat \ {0} /\ StackInv(s, d, e) /\ DOMAIN s = 1 .. L
  BY RunningFacts DEF Inv
<1>2. \A i \in 1 .. L : s[i] \in Activation /\ d[i] \in Nat /\ FramesIn(s[i]) \in Nat
  BY <1>1, StackFacts
<1>3. \A i, j \in 1 .. L : i < j /\ s[i].t = s[j].t => d[i] + FramesIn(s[j]) <= d[j]
  BY <1>1, StackFacts
<1> HIDE DEF L
<1>4. /\ a \in 1 .. L /\ p \in 1 .. L /\ a <= p /\ d[a] = 1 /\ s[a].k \in {"jni", "resume"}
      /\ \A i \in 1 .. L : s[i].t = t <=> a <= i /\ i <= p
      /\ Len(T.ci) = d[p]
  BY DEF Stretch, L
<1>5. \A i \in a + 1 .. p : s[i].k \notin {"jni", "resume"} /\ d[i] = d[i - 1] + FramesIn(s[i])
  BY DEF Stretch
<1>6. ASSUME NEW i \in 1 .. L
      PROVE  /\ s[i].k \in {"jni", "pcall", "call", "errormsg", "exec", "cfun", "resume"}
             /\ FramesIn(s[i]) = IF s[i].k = "exec" THEN s[i].n
                                 ELSE IF s[i].k \in {"jni", "cfun", "resume"} THEN 1 ELSE 0
  BY <1>2, ActivationFacts DEF FramesIn
<1>7. ASSUME NEW i \in R
      PROVE  /\ i \in a + 1 .. p /\ i \in 1 .. L /\ i - 1 \in 1 .. L
             /\ a <= i - 1 /\ i - 1 <= p /\ s[i].t = t
             /\ d[i] = d[i - 1] + FramesIn(s[i])
  <2>1. i \in 1 .. L /\ a <= i /\ i <= p /\ s[i].t = t /\ i # a
    BY <1>4
  <2>2. i \in a + 1 .. p /\ i - 1 \in 1 .. L /\ a <= i - 1 /\ i - 1 <= p
    BY <1>1, <1>4, <2>1
  <2> QED
    BY <1>5, <2>1, <2>2
<1>8. ASSUME NEW i \in 1 .. L, NEW j \in 1 .. L, a <= i, i <= j, j <= p
      PROVE  d[i] <= d[j]
  <2>1. s[i].t = t /\ s[j].t = t
    BY <1>1, <1>4, <1>8
  <2>2. CASE i = j
    BY <1>2, <2>2
  <2>3. CASE i < j
    <3>1. d[i] + FramesIn(s[j]) <= d[j]
      BY <1>3, <2>1, <2>3
    <3> QED
      BY <1>2, <3>1
  <2> QED
    BY <1>8, <2>2, <2>3
<1>9. ASSUME NEW i \in R
      PROVE  /\ d[i] \in Nat /\ FramesIn(s[i]) \in Nat
             /\ s[i].k = "cfun" => FramesIn(s[i]) = 1
             /\ s[i].k = "exec" => FramesIn(s[i]) = s[i].n
             /\ 1 <= d[i] - FramesIn(s[i]) /\ d[i] <= Len(T.ci)
  <2>1. d[i] \in Nat /\ d[i - 1] \in Nat /\ FramesIn(s[i]) \in Nat
    BY <1>2, <1>7
  <2>2. 1 <= d[i - 1]
    BY <1>1, <1>4, <1>7, <1>8
  <2>3. d[i] <= d[p]
    BY <1>1, <1>4, <1>7, <1>8
  <2>4. 1 <= d[i] - FramesIn(s[i])
    BY <1>7, <2>1, <2>2
  <2> QED
    BY <1>4, <1>6, <1>7, <2>1, <2>3, <2>4
<1>10. ASSUME NEW i \in R, NEW j \in OwnFrames(m, d, i)
       PROVE  T.ci[j].lua = (s[i].k = "exec")
  <2>1. i \in 1 .. L /\ s[i].t = t /\ ActivationInv(m, d, e, i)
    BY <1>1, <1>7 DEF Inv
  <2>2. /\ d[i] \in DOMAIN T.ci
        /\ s[i].k = "exec" => \A h \in DOMAIN T.ci : d[i] - s[i].n < h /\ h <= d[i] => T.ci[h].lua
        /\ s[i].k = "cfun" => ~T.ci[d[i]].lua
    BY <2>1 DEF ActivationInv
  <2>3. /\ j \in d[i] - FramesIn(s[i]) + 1 .. d[i] /\ d[i] \in Nat /\ FramesIn(s[i]) \in Nat
        /\ 1 <= d[i] - FramesIn(s[i]) /\ d[i] <= Len(T.ci)
    BY <1>9 DEF OwnFrames
  <2>4. DOMAIN T.ci = 1 .. Len(T.ci) /\ Len(T.ci) \in Nat /\ T.ci \in Seq(CallInfo)
    BY ThreadFacts DEF Inv
  <2>5. j \in Int /\ d[i] - FramesIn(s[i]) < j /\ j <= d[i] /\ j \in DOMAIN T.ci
    BY <2>3, <2>4
  <2>6. T.ci[j].lua \in BOOLEAN
    <3>1. T.ci[j] \in CallInfo
      BY <2>4, <2>5
    <3> QED
      BY <3>1 DEF CallInfo
  <2>7. CASE s[i].k = "exec"
    <3>1. T.ci[j].lua
      BY <1>9, <2>2, <2>5, <2>7
    <3> QED
      BY <2>6, <2>7, <3>1
  <2>8. CASE s[i].k = "cfun"
    <3>1. j = d[i]
      BY <1>9, <2>3, <2>5, <2>8
    <3>2. ~T.ci[j].lua
      BY <2>2, <2>8, <3>1
    <3> QED
      BY <2>6, <2>8, <3>2
  <2> QED
    BY <2>7, <2>8
<1>11. ASSUME NEW i \in R, NEW j \in R, i < j
       PROVE  d[i] <= d[j] - FramesIn(s[j])
  <2>1. d[i] <= d[j - 1]
    <3>1. i \in 1 .. L /\ j - 1 \in 1 .. L /\ a <= i /\ i <= j - 1 /\ j - 1 <= p
      <4>1. /\ i \in 1 .. L /\ i \in a + 1 .. p
            /\ j - 1 \in 1 .. L /\ a <= j - 1 /\ j - 1 <= p
        BY <1>7
      <4> QED
        BY <1>1, <1>4, <1>11, <4>1
    <3> QED
      BY <1>8, <3>1
  <2>2. d[j] = d[j - 1] + FramesIn(s[j]) /\ d[j - 1] \in Nat /\ FramesIn(s[j]) \in Nat
    BY <1>2, <1>7
  <2> QED
    BY <2>1, <2>2
<1>12. ASSUME NEW j \in 2 .. Len(T.ci)
       PROVE  \E i \in R : j \in OwnFrames(m, d, i)
  <2> DEFINE S == {i \in a .. p : j <= d[i]}
  <2>1. \A i \in a .. p : i \in 1 .. L
    BY <1>1, <1>4
  <2>2. S \in SUBSET Nat
    BY <1>1, <2>1
  <2>3. p \in S
    BY <1>1, <1>4
  <2>4. PICK i \in S : \A h \in S : i <= h
    BY <2>2, <2>3, Least
  <2>5. i \in a .. p /\ j <= d[i] /\ i # a
    BY <1>4, <2>4
  <2>6. i - 1 \in a .. p /\ i \in a + 1 .. p /\ ~(i <= i - 1) /\ i \in 1 .. L /\ i - 1 \in 1 .. L
    BY <1>1, <1>4, <2>1, <2>5
  <2>7. ~(j <= d[i - 1])
    BY <2>4, <2>6
  <2>8. d[i] = d[i - 1] + FramesIn(s[i]) /\ s[i].k \notin {"jni", "resume"}
    BY <1>5, <2>6
  <2>9. d[i] \in Nat /\ d[i - 1] \in Nat /\ FramesIn(s[i]) \in Nat /\ FramesIn(s[i]) # 0
    BY <1>2, <2>5, <2>6, <2>7, <2>8
  <2>10. s[i].k \in {"exec", "cfun"}
    BY <1>6, <2>6, <2>8, <2>9
  <2>11. s[i].t = t
    BY <1>4, <2>5, <2>6
  <2>12. j \in d[i] - FramesIn(s[i]) + 1 .. d[i]
    BY <2>5, <2>7, <2>8, <2>9
  <2> QED
    BY <2>6, <2>10, <2>11, <2>12 DEF OwnFrames
<1> QED
  BY <1>9, <1>10, <1>11, <1>12 DEF L

LEMMA FramesFinite ==
  ASSUME NEW T \in Thread, NEW lua
  PROVE  IsFiniteSet({j \in 2 .. Len(T.ci) : T.ci[j].lua = lua})
<1>1. Len(T.ci) \in Int
  BY DEF Thread
<1>2. IsFiniteSet(2 .. Len(T.ci))
  BY <1>1, FS_Interval
<1> QED
  BY <1>2, FS_Subset

LEMMA LuaFramesRun ==
  ASSUME NEW d, NEW e, Inv(M, d, e), NEW t \in Threads, NEW a, NEW p,
         Stretch(M, d, e, t, a, p)
  PROVE  Executed(t) = FramesOf(t, TRUE)
<1> DEFINE T == th[t]
           R == {i \in 1 .. Len(cs) : cs[i].t = t /\ cs[i].k \in {"exec", "cfun"}}
           X == UNION {{i} \X (1 .. cs[i].n) : i \in Executions(t)}
           F == {j \in 2 .. Len(T.ci) : T.ci[j].lua = TRUE}
           f == [x \in X |-> d[x[1]] - cs[x[1]].n + x[2]]
<1>1. M.cs = cs /\ M.th = th
  BY DEF M
<1>2. /\ \A i \in R : /\ d[i] \in Nat /\ FramesIn(cs[i]) \in Nat
                      /\ cs[i].k = "exec" => FramesIn(cs[i]) = cs[i].n
                      /\ 1 <= d[i] - FramesIn(cs[i]) /\ d[i] <= Len(T.ci)
                      /\ \A j \in OwnFrames(M, d, i) : T.ci[j].lua = (cs[i].k = "exec")
      /\ \A i, j \in R : i < j => d[i] <= d[j] - FramesIn(cs[j])
      /\ \A j \in 2 .. Len(T.ci) : \E i \in R : j \in OwnFrames(M, d, i)
  BY <1>1, FrameOwners
<1>3. T \in Thread /\ Len(T.ci) \in Nat /\ DOMAIN cs = 1 .. Len(cs) /\ Len(cs) \in Nat
  BY <1>1, RunningFacts, ThreadFacts DEF Inv
<1> HIDE DEF T
<1>4. Executions(t) = {i \in R : cs[i].k = "exec"}
  BY <1>3 DEF Executions
<1>5. \A x : x \in X <=> \E i \in R, k \in Nat :
        cs[i].k = "exec" /\ k \in 1 .. cs[i].n /\ x = <<i, k>>
  <2>1. ASSUME NEW i \in R, cs[i].k = "exec"
        PROVE  cs[i].n \in Nat
    BY <1>2, <2>1
  <2> HIDE DEF R
  <2>2. ASSUME NEW x \in X
        PROVE  \E i \in R, k \in Nat : cs[i].k = "exec" /\ k \in 1 .. cs[i].n /\ x = <<i, k>>
    <3>1. PICK i \in Executions(t) : x \in {i} \X (1 .. cs[i].n)
      OBVIOUS
    <3>2. x[2] \in 1 .. cs[i].n /\ x = <<i, x[2]>> /\ i \in R /\ cs[i].k = "exec"
      BY <1>4, <3>1
    <3>3. x[2] \in Nat
      BY <2>1, <3>2
    <3> QED
      BY <3>2, <3>3
  <2>3. ASSUME NEW i \in R, NEW k \in Nat, cs[i].k = "exec", k \in 1 .. cs[i].n
        PROVE  <<i, k>> \in X
    BY <1>4, <2>3
  <2> QED
    BY <2>2, <2>3
<1> HIDE DEF X
(* where frame k of activation i is *)
<1>6. ASSUME NEW i \in R, NEW k \in Nat, cs[i].k = "exec", k \in 1 .. cs[i].n
      PROVE  /\ d[i] - cs[i].n + k \in OwnFrames(M, d, i) /\ d[i] - cs[i].n + k \in F
             /\ d[i] - cs[i].n < d[i] - cs[i].n + k /\ d[i] - cs[i].n + k <= d[i]
  <2> DEFINE j == d[i] - cs[i].n + k
  <2>1. /\ d[i] \in Nat /\ cs[i].n \in Nat /\ FramesIn(cs[i]) = cs[i].n
        /\ 1 <= d[i] - cs[i].n /\ d[i] <= Len(T.ci)
    BY <1>2, <1>6
  <2>2. /\ j \in d[i] - cs[i].n + 1 .. d[i] /\ j \in 2 .. Len(T.ci)
        /\ d[i] - cs[i].n < j /\ j <= d[i]
    BY <1>3, <1>6, <2>1
  <2>3. j \in OwnFrames(M, d, i)
    BY <1>1, <2>1, <2>2 DEF OwnFrames
  <2>4. T.ci[j].lua = TRUE
    BY <1>2, <1>6, <2>3
  <2> QED
    BY <2>2, <2>3, <2>4
<1>7. \A i \in R, k \in Nat : <<i, k>> \in X => f[<<i, k>>] = d[i] - cs[i].n + k
  OBVIOUS
<1>8. f \in [X -> F]
  <2>1. ASSUME NEW x \in X
        PROVE  d[x[1]] - cs[x[1]].n + x[2] \in F
    <3>1. PICK i \in R, k \in Nat : cs[i].k = "exec" /\ k \in 1 .. cs[i].n /\ x = <<i, k>>
      BY <1>5
    <3>2. x[1] = i /\ x[2] = k
      BY <3>1
    <3> QED
      BY <1>6, <3>1, <3>2
  <2> QED
    BY <2>1
<1> HIDE DEF f
<1>9. ASSUME NEW x \in X, NEW y \in X, f[x] = f[y]
      PROVE  x = y
  <2>1. PICK i \in R, k \in Nat : cs[i].k = "exec" /\ k \in 1 .. cs[i].n /\ x = <<i, k>>
    BY <1>5
  <2>2. PICK j \in R, h \in Nat : cs[j].k = "exec" /\ h \in 1 .. cs[j].n /\ y = <<j, h>>
    BY <1>5
  <2>3. f[x] = d[i] - cs[i].n + k /\ f[y] = d[j] - cs[j].n + h
    BY <1>7, <2>1, <2>2
  <2>4. /\ d[i] - cs[i].n < f[x] /\ f[x] <= d[i] /\ d[j] - cs[j].n < f[y] /\ f[y] <= d[j]
    BY <1>6, <2>1, <2>2, <2>3
  <2>5. /\ d[i] \in Nat /\ d[j] \in Nat /\ cs[i].n \in Nat /\ cs[j].n \in Nat
        /\ i < j => d[i] <= d[j] - cs[j].n
        /\ j < i => d[j] <= d[i] - cs[i].n
    BY <1>2, <2>1, <2>2
  <2>6. ~(i < j) /\ ~(j < i)
    BY <1>9, <2>3, <2>4, <2>5
  <2>7. i = j
    BY <1>3, <2>6
  <2>8. k = h
    <3> DEFINE w == d[i] - cs[i].n
    <3>1. w \in Int
      BY <2>5
    <3>2. d[j] - cs[j].n = w
      BY <2>7
    <3> HIDE DEF w
    <3>3. f[x] = w + k /\ f[y] = w + h
      BY <2>3, <3>2 DEF w
    <3> QED
      BY <1>9, <2>1, <2>2, <3>1, <3>3
  <2> QED
    BY <2>1, <2>2, <2>7, <2>8
<1>10. ASSUME NEW j \in F
       PROVE  \E x \in X : f[x] = j
  <2>1. j \in 2 .. Len(T.ci) /\ T.ci[j].lua = TRUE
    OBVIOUS
  <2>2. PICK i \in R : j \in OwnFrames(M, d, i)
    BY <1>2, <2>1
  <2>3. cs[i].k = "exec"
    BY <1>2, <2>1, <2>2
  <2>4. /\ d[i] \in Nat /\ cs[i].n \in Nat /\ FramesIn(cs[i]) = cs[i].n
    BY <1>2, <2>3
  <2> DEFINE k == j - (d[i] - cs[i].n)
  <2>5. j \in d[i] - cs[i].n + 1 .. d[i]
    BY <1>1, <2>2, <2>4 DEF OwnFrames
  <2>6. k \in Nat /\ k \in 1 .. cs[i].n /\ d[i] - cs[i].n + k = j
    BY <2>4, <2>5
  <2> HIDE DEF k
  <2>7. <<i, k>> \in X
    BY <1>5, <2>3, <2>6
  <2> QED
    BY <1>7, <2>6, <2>7
<1>11. IsFiniteSet(F)
  BY <1>3, FramesFinite
<1> HIDE DEF F
<1>12. Cardinality(X) = Cardinality(F)
  BY <1>8, <1>9, <1>10, <1>11, SameSize
<1> QED
  BY <1>12 DEF Executed, FramesOf, X, F, T

LEMMA CFramesRun ==
  ASSUME NEW d, NEW e, Inv(M, d, e), NEW t \in Threads, NEW a, NEW p,
         Stretch(M, d, e, t, a, p)
  PROVE  Count(LAMBDA x : x.k = "cfun" /\ x.t = t) = FramesOf(t, FALSE)
<1> DEFINE T == th[t]
           R == {i \in 1 .. Len(cs) : cs[i].t = t /\ cs[i].k \in {"exec", "cfun"}}
           X == {i \in DOMAIN cs : cs[i].k = "cfun" /\ cs[i].t = t}
           F == {j \in 2 .. Len(T.ci) : T.ci[j].lua = FALSE}
           f == [i \in X |-> d[i]]
<1>1. M.cs = cs /\ M.th = th
  BY DEF M
<1>2. /\ \A i \in R : /\ d[i] \in Nat /\ FramesIn(cs[i]) \in Nat
                      /\ cs[i].k = "cfun" => FramesIn(cs[i]) = 1
                      /\ 1 <= d[i] - FramesIn(cs[i]) /\ d[i] <= Len(T.ci)
      /\ \A i \in R : \A j \in OwnFrames(M, d, i) : T.ci[j].lua = (cs[i].k = "exec")
      /\ \A i, j \in R : i < j => d[i] <= d[j] - FramesIn(cs[j])
      /\ \A j \in 2 .. Len(T.ci) : \E i \in R : j \in OwnFrames(M, d, i)
  <2> DEFINE U == M.th[t]
             Q == {i \in 1 .. Len(M.cs) : M.cs[i].t = t /\ M.cs[i].k \in {"exec", "cfun"}}
  <2>1. \A i \in Q : /\ d[i] \in Nat /\ FramesIn(M.cs[i]) \in Nat
                     /\ M.cs[i].k = "cfun" => FramesIn(M.cs[i]) = 1
                     /\ 1 <= d[i] - FramesIn(M.cs[i]) /\ d[i] <= Len(U.ci)
    BY FrameOwners
  <2>2. \A i \in Q : \A j \in OwnFrames(M, d, i) : U.ci[j].lua = (M.cs[i].k = "exec")
    BY FrameOwners
  <2>3. \A i, j \in Q : i < j => d[i] <= d[j] - FramesIn(M.cs[j])
    BY FrameOwners
  <2>4. \A j \in 2 .. Len(U.ci) : \E i \in Q : j \in OwnFrames(M, d, i)
    BY FrameOwners
  <2>5. Q = R /\ U = T
    BY <1>1
  <2> HIDE DEF Q, R, U, T
  <2>6. \A i \in R : /\ d[i] \in Nat /\ FramesIn(cs[i]) \in Nat
                     /\ cs[i].k = "cfun" => FramesIn(cs[i]) = 1
                     /\ 1 <= d[i] - FramesIn(cs[i]) /\ d[i] <= Len(T.ci)
    BY <1>1, <2>1, <2>5
  <2>7. \A i \in R : \A j \in OwnFrames(M, d, i) : T.ci[j].lua = (cs[i].k = "exec")
    BY <1>1, <2>2, <2>5
  <2>8. \A i, j \in R : i < j => d[i] <= d[j] - FramesIn(cs[j])
    BY <1>1, <2>3, <2>5
  <2>9. \A j \in 2 .. Len(T.ci) : \E i \in R : j \in OwnFrames(M, d, i)
    BY <2>4, <2>5
  <2> QED
    BY <2>6, <2>7, <2>8, <2>9
<1>3. T \in Thread /\ Len(T.ci) \in Nat /\ DOMAIN cs = 1 .. Len(cs) /\ Len(cs) \in Nat
  BY <1>1, RunningFacts, ThreadFacts DEF Inv
<1> HIDE DEF T
<1>4. X \subseteq R /\ \A i \in X : cs[i].k = "cfun"
  BY <1>3
<1>5. \A i \in X : d[i] \in Nat /\ FramesIn(cs[i]) = 1 /\ 1 <= d[i] - 1 /\ d[i] <= Len(T.ci)
  <2>1. ASSUME NEW i \in X
        PROVE  d[i] \in Nat /\ FramesIn(cs[i]) = 1 /\ 1 <= d[i] - 1 /\ d[i] <= Len(T.ci)
    <3>1. i \in R /\ cs[i].k = "cfun"
      BY <1>4
    <3> HIDE DEF R, X
    <3> QED
      BY <1>2, <3>1
  <2> QED
    BY <2>1
<1>6. \A i \in X : OwnFrames(M, d, i) = {d[i]}
  <2>1. ASSUME NEW i \in X
        PROVE  OwnFrames(M, d, i) = {d[i]}
    <3>1. d[i] \in Nat /\ FramesIn(cs[i]) = 1
      BY <1>5
    <3>2. d[i] - 1 + 1 .. d[i] = {d[i]}
      BY <3>1
    <3> QED
      BY <1>1, <3>1, <3>2 DEF OwnFrames
  <2> QED
    BY <2>1
<1>7. f \in [X -> F]
  <2>1. ASSUME NEW i \in X
        PROVE  d[i] \in F
    <3>1. i \in R /\ cs[i].k = "cfun" /\ d[i] \in OwnFrames(M, d, i)
      BY <1>4, <1>6
    <3>2. T.ci[d[i]].lua = FALSE
      BY <1>2, <3>1
    <3>3. d[i] \in 2 .. Len(T.ci)
      BY <1>3, <1>5
    <3> QED
      BY <3>2, <3>3
  <2> QED
    BY <2>1
<1>8. ASSUME NEW i \in X, NEW j \in X, f[i] = f[j]
      PROVE  i = j
  <2>1. d[i] = d[j] /\ i \in R /\ j \in R
    BY <1>4, <1>8
  <2>2. d[i] \in Nat /\ FramesIn(cs[i]) = 1 /\ d[j] \in Nat /\ FramesIn(cs[j]) = 1
    BY <1>5
  <2>3. (i < j => d[i] <= d[j] - 1) /\ (j < i => d[j] <= d[i] - 1)
    BY <1>2, <2>1, <2>2
  <2>4. ~(i < j) /\ ~(j < i)
    BY <2>1, <2>2, <2>3
  <2> QED
    BY <1>3, <2>1, <2>4
<1>9. ASSUME NEW j \in F
      PROVE  \E i \in X : f[i] = j
  <2>1. j \in 2 .. Len(T.ci) /\ T.ci[j].lua = FALSE
    OBVIOUS
  <2>2. PICK i \in R : j \in OwnFrames(M, d, i)
    BY <1>2, <2>1
  <2>3. cs[i].k = "cfun"
    BY <1>2, <2>1, <2>2
  <2>4. i \in X
    BY <1>3, <2>3
  <2> QED
    BY <1>6, <2>2, <2>4
<1>10. IsFiniteSet(F)
  BY <1>3, FramesFinite
<1> HIDE DEF f, F, X
<1>11. Cardinality(X) = Cardinality(F)
  BY <1>7, <1>8, <1>9, <1>10, SameSize
<1> QED
  BY <1>11 DEF Count, FramesOf, X, F, T

LEMMA RunsFrames ==
  ASSUME IInv
  PROVE  FramesRun
<1>1. PICK d, e \in [DOMAIN M.cs -> Nat] : Inv(M, d, e)
  BY DEF IInv, Good
<1>2. M.cs = cs /\ M.th = th
  BY DEF M
<1>3. DOMAIN cs = 1 .. Len(cs) /\ Len(cs) \in Nat \ {0} /\ cs[1].t = "main" /\ M \in State
  <2>1. /\ M.cs \in Seq(Activation) /\ DOMAIN M.cs = 1 .. Len(M.cs)
        /\ Len(M.cs) \in Nat \ {0} /\ StackInv(M.cs, d, e) /\ M \in State
    BY <1>1, RunningFacts DEF Inv
  <2>2. M.cs[1] \in Activation /\ M.cs[1].k = "jni"
    BY <2>1, StackFacts
  <2> QED
    BY <1>2, <2>1, <2>2, ActivationFacts
<1>4. ASSUME NEW t \in Threads, Active(t)
      PROVE  /\ Executed(t) = FramesOf(t, TRUE)
             /\ Count(LAMBDA a : a.k = "cfun" /\ a.t = t) = FramesOf(t, FALSE)
  <2>1. \E i \in 1 .. Len(M.cs) : M.cs[i].t = t
    BY <1>2, <1>3, <1>4 DEF Active
  <2>2. PICK a, p : Stretch(M, d, e, t, a, p)
    BY <1>1, <2>1, Stretches
  <2> QED
    BY <1>1, <2>2, LuaFramesRun, CFramesRun
<1>5. ASSUME NEW t \in Threads, ~Active(t), th[t].status = "yield"
      PROVE  FramesOf(t, FALSE) = 1 /\ ~Frame(th[t]).lua
  <2> DEFINE C == th["co"]
             n == Len(C.ci)
  <2>1. t = "co"
    BY <1>3, <1>5 DEF Active, Threads
  <2>2. C.ci # <<>>
    <3>1. ASSUME C.ci = <<>>
          PROVE  FALSE
      <4>1. C = [NewThread EXCEPT !.stk = <<>>, !.ci = <<>>]
        BY <1>1, <1>2, <3>1 DEF Inv, CoroutineInv
      <4>2. C.status = "ok"
        BY <4>1 DEF NewThread
      <4> QED
        BY <1>5, <2>1, <4>2
    <3> QED
      BY <3>1
  <2>3. ~Runs(M.cs)
    <3>1. Active("co") \/ ~Runs(M.cs)
      <4>1. \A i \in DOMAIN M.cs : M.cs[i].k = "resume" => M.cs[i].t = "co"
        BY <1>3, ActivationFacts DEF State
      <4> QED
        BY <1>2, <4>1 DEF Runs, Active
    <3> QED
      BY <1>5, <2>1, <3>1
  <2>4. AtRest(C, Last(M.cs)) /\ FramesInv(C) /\ C \in Thread
    BY <1>1, <1>2, <1>3, <2>2, <2>3, ThreadFacts DEF Inv, CoroutineInv, Threads
  <2>5. /\ n \in Nat /\ n > 2 /\ ~Frame(C).lua /\ Frame(C) = C.ci[n] /\ DOMAIN C.ci = 1 .. n
        /\ \A j \in DOMAIN C.ci : 1 < j /\ j < n => C.ci[j].lua
    <3>1. C.status = "yield"
      BY <1>5, <2>1
    <3> QED
      BY <2>4, <3>1, FramesFacts DEF AtRest
  <2>6. \A j \in 1 .. n : C.ci[j].lua \in BOOLEAN
    BY <2>4, FramesFacts
  <2> HIDE DEF C
  <2>7. {j \in 2 .. n : C.ci[j].lua = FALSE} = {n}
    <3>1. n \in 2 .. n /\ C.ci[n].lua = FALSE
      <4>1. n \in 2 .. n /\ n \in 1 .. n
        BY <2>5
      <4> QED
        BY <2>5, <2>6, <4>1
    <3>2. \A j \in 2 .. n : C.ci[j].lua = FALSE => j = n
      <4>1. \A j \in 2 .. n : j # n => j \in 1 .. n /\ 1 < j /\ j < n
        BY <2>5
      <4> QED
        BY <2>5, <4>1
    <3> HIDE DEF n
    <3> QED
      BY <3>1, <3>2
  <2>8. FramesOf(t, FALSE) = 1
    <3>1. Cardinality({n}) = 1
      BY FS_Singleton
    <3> QED
      BY <2>1, <2>7, <3>1 DEF FramesOf, C
  <2> QED
    BY <2>1, <2>5, <2>8 DEF C
<1> QED
  BY <1>4, <1>5 DEF FramesRun

(***************************************************************************)
(* nCcalls is the number of luaD_call and lua_resume activations on the C  *)
(* stack, the resumer's included for a coroutine (lua_resume and           *)
(* auxresume), and stays below the limit luaD_call gives up at.            *)
(***************************************************************************)
THEOREM CallsCountedAlways == Spec => []CallsCounted
<1>1. IInv => CallsCounted
  BY CountsCalls
<1> QED
  BY <1>1, CallsInvariant, PTL

(***************************************************************************)
(* What a frame's caller and a protected call left on the stack below it   *)
(* stays: no luaD_precall, luaD_poscall, luaD_pcall, lua_resume, lua_yield *)
(* or tail call of the callee writes there.                                *)
(***************************************************************************)
THEOREM CallersUntouchedAlways == Spec => []CallersUntouched
<1>1. IInv => CallersUntouched
  BY Untouched
<1> QED
  BY <1>1, CallsInvariant, PTL

(***************************************************************************)
(* The open upvalues of a thread are those its live frames shared with     *)
(* closures: OP_RETURN, OP_TAILCALL and luaD_pcall close the others.       *)
(***************************************************************************)
THEOREM UpvalsLiveAlways == Spec => []UpvalsLive
<1>1. IInv => UpvalsLive
  BY UpvalsShared
<1> QED
  BY <1>1, CallsInvariant, PTL

(***************************************************************************)
(* The frame counters of luaV_execute on the C stack add up to the Lua     *)
(* frames of the thread, each C frame has its activation, and a coroutine  *)
(* that waits holds no C frame but the one of yield: luaD_throw and        *)
(* lua_resume never leave a frame nobody runs.                             *)
(***************************************************************************)
THEOREM FramesRunAlways == Spec => []FramesRun
<1>1. IInv => FramesRun
  BY RunsFrames
<1> QED
  BY <1>1, CallsInvariant, PTL

=============================================================================
