----------------------------- MODULE LuaCallsLemmas -----------------------------
(***************************************************************************)
(* Lemmas about the state of LuaCalls and about the parts of its steps.    *)
(***************************************************************************)
EXTENDS LuaCallsInvariant, SequenceTheorems, FiniteSetTheorems, WellFoundedInduction, TLAPS

-----------------------------------------------------------------------------
(* Records and sequences                                                   *)

(* What an activation carries, by its kind.                                *)
LEMMA ActivationFacts ==
  ASSUME NEW a \in Activation
  PROVE  /\ a.k \in {"jni", "pcall", "call", "errormsg", "exec", "cfun", "resume"}
         /\ a.t \in Threads
         /\ a.k = "jni" => a.t = "main"
         /\ a.k = "resume" => a.t = "co"
         /\ a.k = "pcall" => /\ a.top \in Nat /\ a.ci \in Nat /\ a.nC \in Int /\ a.ef \in Nat
                             /\ a.under \in Seq(Value)
         /\ a.k = "call" => a.func \in Nat /\ a.want \in Result /\ a.pc \in {"enter", "in"}
         /\ a.k = "exec" => a.n \in Nat
         /\ a.k = "cfun" => a.f \in CFunctions /\ a.pc \in {"run", "ok", "failed"}
         /\ Owns(a) => Floor(a) \in Nat
         /\ FramesIn(a) \in Nat /\ Adds(a) \in {0, 1}
  BY DEF Activation, Threads, Owns, Floor, FramesIn, Adds, Nested

LEMMA Prefix ==
  ASSUME NEW S, NEW s \in Seq(S), NEW n \in 0 .. Len(s)
  PROVE  /\ SubSeq(s, 1, n) \in Seq(S) /\ Len(SubSeq(s, 1, n)) = n
         /\ DOMAIN SubSeq(s, 1, n) = 1 .. n
         /\ \A i \in 1 .. n : SubSeq(s, 1, n)[i] = s[i]
<1>1. Len(s) \in Nat /\ n \in Nat /\ \A i \in 1 .. n : s[i] \in S
  BY LenProperties
<1>2. /\ SubSeq(s, 1, n) \in Seq(S) /\ Len(SubSeq(s, 1, n)) = n
      /\ \A i \in 1 .. n : SubSeq(s, 1, n)[i] = s[i]
  BY <1>1, SubSeqProperties
<1> QED
  BY <1>2, LenProperties

LEMMA LastOf ==
  ASSUME NEW S, NEW s \in Seq(S), s # <<>>
  PROVE  /\ Len(s) \in Nat \ {0} /\ Len(s) \in DOMAIN s /\ DOMAIN s = 1 .. Len(s)
         /\ Last(s) = s[Len(s)] /\ Last(s) \in S
         /\ Front(s) = SubSeq(s, 1, Len(s) - 1)
<1>1. Len(s) \in Nat /\ DOMAIN s = 1 .. Len(s) /\ Len(s) # 0
  BY LenProperties, EmptySeq
<1> QED
  BY <1>1, ElementOfSeq DEF Last, Front

LEMMA Appended ==
  ASSUME NEW S, NEW s \in Seq(S), NEW b \in S
  PROVE  /\ Append(s, b) \in Seq(S) /\ Append(s, b) # <<>>
         /\ Len(Append(s, b)) = Len(s) + 1 /\ DOMAIN Append(s, b) = 1 .. Len(s) + 1
         /\ \A i \in 1 .. Len(s) : Append(s, b)[i] = s[i]
         /\ Append(s, b)[Len(s) + 1] = b
         /\ Last(Append(s, b)) = b
<1>1. Len(s) \in Nat
  BY LenProperties
<1> QED
  BY <1>1, AppendProperties, LenProperties DEF Last

(* The first n slots of two stacks are the same.                           *)
Keeps(s, r, n) == n <= Len(s) /\ n <= Len(r) /\ \A i \in 1 .. n : r[i] = s[i]

LEMMA KeepsLess ==
  ASSUME NEW s, NEW r, NEW n, n \in Int, NEW k \in Int, k <= n, Keeps(s, r, n),
         Len(s) \in Nat, Len(r) \in Nat
  PROVE  Keeps(s, r, k)
  BY DEF Keeps

LEMMA KeepsKeeps ==
  ASSUME NEW s, NEW r, NEW u, NEW n, Keeps(s, r, n), Keeps(r, u, n)
  PROVE  Keeps(s, u, n)
  BY DEF Keeps

LEMMA CutKeeps ==
  ASSUME NEW S, NEW s \in Seq(S), NEW n \in 0 .. Len(s)
  PROVE  /\ SubSeq(s, 1, n) \in Seq(S) /\ Len(SubSeq(s, 1, n)) = n
         /\ Keeps(s, SubSeq(s, 1, n), n)
<1>1. Len(s) \in Nat
  BY LenProperties
<1>2. /\ SubSeq(s, 1, n) \in Seq(S) /\ Len(SubSeq(s, 1, n)) = n
      /\ \A i \in 1 .. n : SubSeq(s, 1, n)[i] = s[i]
  BY Prefix
<1> QED
  BY <1>1, <1>2 DEF Keeps

LEMMA AppendKeeps ==
  ASSUME NEW S, NEW s \in Seq(S), NEW v \in S
  PROVE  /\ Append(s, v) \in Seq(S) /\ Len(Append(s, v)) = Len(s) + 1
         /\ Keeps(s, Append(s, v), Len(s)) /\ Len(s) \in Nat
<1>1. Len(s) \in Nat
  BY LenProperties
<1>2. /\ Append(s, v) \in Seq(S) /\ Len(Append(s, v)) = Len(s) + 1
      /\ \A i \in 1 .. Len(s) : Append(s, v)[i] = s[i]
  BY Appended
<1> QED
  BY <1>1, <1>2 DEF Keeps

LEMMA ConcatKeeps ==
  ASSUME NEW S, NEW s \in Seq(S), NEW x \in Seq(S)
  PROVE  /\ s \o x \in Seq(S) /\ Len(s \o x) = Len(s) + Len(x)
         /\ Keeps(s, s \o x, Len(s)) /\ Len(s) \in Nat /\ Len(x) \in Nat
<1>1. Len(s) \in Nat /\ Len(x) \in Nat
  BY LenProperties
<1>2. /\ s \o x \in Seq(S) /\ Len(s \o x) = Len(s) + Len(x)
      /\ \A i \in 1 .. Len(s) : (s \o x)[i] = s[i]
  BY ConcatProperties
<1> QED
  BY <1>1, <1>2 DEF Keeps

(* The slots up to n stay, others come above them.                         *)
LEMMA Upper ==
  ASSUME NEW S, NEW s \in Seq(S), NEW n \in 0 .. Len(s), NEW x \in Seq(S)
  PROVE  LET r == SubSeq(s, 1, n) \o x
         IN  r \in Seq(S) /\ Len(r) = n + Len(x) /\ Keeps(s, r, n) /\ Len(x) \in Nat
<1> DEFINE c == SubSeq(s, 1, n)
           r == c \o x
<1>1. c \in Seq(S) /\ Len(c) = n /\ Keeps(s, c, n)
  BY CutKeeps
<1> HIDE DEF c
<1>2. r \in Seq(S) /\ Len(r) = Len(c) + Len(x) /\ Keeps(c, r, Len(c)) /\ Len(x) \in Nat
  BY <1>1, ConcatKeeps
<1> HIDE DEF r
<1>3. Keeps(s, r, n)
  BY <1>1, <1>2, KeepsKeeps
<1> QED
  BY <1>1, <1>2, <1>3 DEF r, c

LEMMA FrontConcat ==
  ASSUME NEW S, NEW s \in Seq(S), s # <<>>, NEW x \in Seq(S)
  PROVE  /\ Front(s) \o x \in Seq(S) /\ Len(Front(s) \o x) = Len(s) - 1 + Len(x)
         /\ Keeps(s, Front(s) \o x, Len(s) - 1)
<1>1. Len(s) \in Nat \ {0} /\ Front(s) = SubSeq(s, 1, Len(s) - 1)
  BY LastOf
<1>2. Len(s) - 1 \in 0 .. Len(s)
  BY <1>1
<1> QED
  BY <1>1, <1>2, Upper

LEMMA Slice ==
  ASSUME NEW S, NEW s \in Seq(S), NEW a \in Nat \ {0}, NEW b \in Int, b <= Len(s)
  PROVE  SubSeq(s, a, b) \in Seq(S)
<1>1. Len(s) \in Nat
  BY LenProperties
<1>2. \A i \in a .. b : s[i] \in S
  <2> SUFFICES ASSUME NEW i \in a .. b PROVE s[i] \in S
    OBVIOUS
  <2>1. i \in 1 .. Len(s)
    BY <1>1
  <2> QED
    BY <2>1, ElementOfSeq
<1> QED
  BY <1>2, SubSeqProperties

LEMMA NilsAre ==
  ASSUME NEW n \in Int
  PROVE  Nils(n) \in Seq(Value) /\ (n >= 0 => Len(Nils(n)) = n)
<1>1. NilValue \in Value
  BY DEF Value
<1>2. CASE n > 0
  <2>1. Nils(n) = [i \in 1 .. n |-> NilValue]
    BY <1>2 DEF Nils
  <2> HIDE DEF NilValue
  <2>2. [i \in 1 .. n |-> NilValue] \in Seq(Value)
    BY <1>1, <1>2
  <2>3. Len([i \in 1 .. n |-> NilValue]) = n
    BY <1>2
  <2> QED
    BY <2>1, <2>2, <2>3
<1>3. CASE ~(n > 0)
  <2>1. Nils(n) = << >>
    BY <1>3 DEF Nils
  <2>2. n >= 0 => n = 0
    BY <1>3
  <2> QED
    BY <2>1, <2>2, EmptySeq
<1> QED
  BY <1>2, <1>3

(* CutTo, on the stack alone.                                              *)
Cut(s, top) ==
  IF top > Len(s) THEN s \o Nils(top - 1 - Len(s)) ELSE SubSeq(s, 1, top - 1)

LEMMA CutIs ==
  ASSUME NEW T
  PROVE  \A top : CutTo(T, top) = [T EXCEPT !.stk = Cut(T.stk, top)]
  BY DEF CutTo, Cut

LEMMA CutFacts ==
  ASSUME NEW s \in Seq(Value), NEW top \in Nat \ {0}
  PROVE  /\ Cut(s, top) \in Seq(Value) /\ Len(Cut(s, top)) = top - 1
         /\ \A k \in Int : k <= Len(s) /\ k < top => Keeps(s, Cut(s, top), k)
<1>1. Len(s) \in Nat
  BY LenProperties
<1>2. CASE top > Len(s)
  <2> DEFINE x == Nils(top - 1 - Len(s))
  <2>1. x \in Seq(Value) /\ Len(x) = top - 1 - Len(s)
    <3>1. top - 1 - Len(s) \in Int /\ top - 1 - Len(s) >= 0
      BY <1>1, <1>2
    <3> QED
      BY <3>1, NilsAre
  <2>2. Cut(s, top) = s \o x
    BY <1>2 DEF Cut
  <2> HIDE DEF x
  <2>3. s \o x \in Seq(Value) /\ Len(s \o x) = Len(s) + Len(x) /\ Keeps(s, s \o x, Len(s))
    BY <2>1, ConcatKeeps
  <2>4. Len(s \o x) = top - 1
    BY <1>1, <2>1, <2>3
  <2>5. \A k \in Int : k <= Len(s) => Keeps(s, s \o x, k)
    BY <1>1, <2>3, <2>4, KeepsLess
  <2> QED
    BY <2>2, <2>3, <2>4, <2>5
<1>3. CASE ~(top > Len(s))
  <2>1. top - 1 \in 0 .. Len(s)
    BY <1>1, <1>3
  <2>2. Cut(s, top) = SubSeq(s, 1, top - 1)
    BY <1>3 DEF Cut
  <2>3. /\ SubSeq(s, 1, top - 1) \in Seq(Value) /\ Len(SubSeq(s, 1, top - 1)) = top - 1
        /\ Keeps(s, SubSeq(s, 1, top - 1), top - 1)
    BY <2>1, CutKeeps
  <2>4. \A k \in Int : k < top => Keeps(s, SubSeq(s, 1, top - 1), k)
    BY <1>1, <2>1, <2>3, KeepsLess
  <2> QED
    BY <2>2, <2>3, <2>4
<1> QED
  BY <1>2, <1>3

LEMMA KeptBelow ==
  ASSUME NEW S, NEW s \in Seq(S), NEW r \in Seq(S), NEW n \in Nat, Keeps(s, r, n),
         NEW j \in Int, j <= n
  PROVE  SubSeq(s, 1, j) = SubSeq(r, 1, j)
<1>1. CASE j <= 0
  BY <1>1, SubSeqEmpty
<1>2. CASE j > 0
  <2>1. j \in 0 .. Len(s) /\ j \in 0 .. Len(r)
    BY <1>2, LenProperties DEF Keeps
  <2> QED
    BY <2>1, Prefix, SeqEqual DEF Keeps
<1> QED
  BY <1>1, <1>2

-----------------------------------------------------------------------------
(* The C stack                                                             *)

(* Its counts, with one more and up to the n-th.                           *)
More(d, n, v) == [i \in 1 .. n + 1 |-> IF i <= n THEN d[i] ELSE v]
Upto(d, n) == [i \in 1 .. n |-> d[i]]

LEMMA StackFacts ==
  ASSUME NEW s \in Seq(Activation), NEW d, NEW e, StackInv(s, d, e)
  PROVE  /\ Len(s) \in Nat \ {0} /\ DOMAIN s = 1 .. Len(s) /\ Last(s) = s[Len(s)]
         /\ \A i \in 1 .. Len(s) : s[i] \in Activation /\ d[i] \in Nat /\ e[i] \in Nat
                                   /\ FramesIn(s[i]) \in Nat /\ Adds(s[i]) \in {0, 1}
                                   /\ s[i].t \in Threads
         /\ d \in [1 .. Len(s) -> Nat] /\ e \in [1 .. Len(s) -> Nat]
         /\ s[1].k = "jni" /\ d[1] = 1 /\ e[1] = 0
         /\ \A i \in 2 .. Len(s) :
              /\ Above(s[i - 1], s[i])
              /\ d[i] = (IF s[i].k = "resume" THEN 0 ELSE d[i - 1]) + FramesIn(s[i])
              /\ e[i] = e[i - 1] + Adds(s[i])
         /\ \A i, j \in 1 .. Len(s) : i < j =>
              /\ s[i].t = s[j].t => d[i] + FramesIn(s[j]) <= d[j]
              /\ e[i] + Adds(s[j]) <= e[j]
         /\ \A i \in 1 .. Len(s) : s[i].t = "co" =>
              /\ \E j \in 1 .. Len(s) : j <= i /\ s[j].k = "resume"
              /\ \A j \in 1 .. Len(s) : i < j => s[j].t = "co" /\ s[j].k # "resume"
<1>1. /\ Len(s) \in Nat \ {0} /\ DOMAIN s = 1 .. Len(s) /\ Last(s) = s[Len(s)]
      /\ \A i \in 1 .. Len(s) : s[i] \in Activation
  BY LastOf, ElementOfSeq DEF StackInv
<1>2. d \in [1 .. Len(s) -> Nat] /\ e \in [1 .. Len(s) -> Nat]
  BY <1>1 DEF StackInv, Counts
<1>3. \A i \in 1 .. Len(s) : d[i] \in Nat /\ e[i] \in Nat /\ s[i].t \in Threads
                             /\ FramesIn(s[i]) \in Nat /\ Adds(s[i]) \in {0, 1}
  BY <1>1, <1>2, ActivationFacts
<1>4. \A i \in 2 .. Len(s) : i \in DOMAIN s /\ i > 1
  BY <1>1
<1>5. \A i \in 2 .. Len(s) :
        /\ Above(s[i - 1], s[i])
        /\ d[i] = (IF s[i].k = "resume" THEN 0 ELSE d[i - 1]) + FramesIn(s[i])
        /\ e[i] = e[i - 1] + Adds(s[i])
  BY <1>4 DEF StackInv, Counts
<1> QED
  BY <1>1, <1>2, <1>3, <1>5 DEF StackInv, Counts

LEMMA StackFrom ==
  ASSUME NEW s \in Seq(Activation), NEW d, NEW e, NEW n \in Nat \ {0}, Len(s) = n,
         d \in [1 .. n -> Nat], e \in [1 .. n -> Nat], s[1].k = "jni", d[1] = 1, e[1] = 0,
         \A i \in 2 .. n :
           /\ Above(s[i - 1], s[i])
           /\ d[i] = (IF s[i].k = "resume" THEN 0 ELSE d[i - 1]) + FramesIn(s[i])
           /\ e[i] = e[i - 1] + Adds(s[i]),
         \A i, j \in 1 .. n : i < j =>
           /\ s[i].t = s[j].t => d[i] + FramesIn(s[j]) <= d[j]
           /\ e[i] + Adds(s[j]) <= e[j],
         \A i \in 1 .. n : s[i].t = "co" =>
           /\ \E j \in 1 .. n : j <= i /\ s[j].k = "resume"
           /\ \A j \in 1 .. n : i < j => s[j].t = "co" /\ s[j].k # "resume"
  PROVE  StackInv(s, d, e)
<1>1. DOMAIN s = 1 .. n /\ s # <<>>
  BY LenProperties, EmptySeq
<1>2. \A i \in DOMAIN s : i > 1 => i \in 2 .. n
  BY <1>1
<1>3. \A i \in DOMAIN s : i > 1 =>
        /\ Above(s[i - 1], s[i])
        /\ d[i] = (IF s[i].k = "resume" THEN 0 ELSE d[i - 1]) + FramesIn(s[i])
        /\ e[i] = e[i - 1] + Adds(s[i])
  BY <1>2
<1> QED
  BY <1>1, <1>3 DEF StackInv, Counts

LEMMA StackPush ==
  ASSUME NEW s \in Seq(Activation), NEW d, NEW e, StackInv(s, d, e),
         NEW b \in Activation, Above(Last(s), b), Last(s).t = "co" => b.k # "resume",
         NEW n, n = Len(s)
  PROVE  StackInv(Append(s, b),
                  More(d, n, (IF b.k = "resume" THEN 0 ELSE d[n]) + FramesIn(b)),
                  More(e, n, e[n] + Adds(b)))
<1> DEFINE r == Append(s, b)
           d1 == More(d, n, (IF b.k = "resume" THEN 0 ELSE d[n]) + FramesIn(b))
           e1 == More(e, n, e[n] + Adds(b))
<1>1. /\ n \in Nat \ {0} /\ DOMAIN s = 1 .. n /\ Last(s) = s[n]
      /\ d \in [1 .. n -> Nat] /\ e \in [1 .. n -> Nat]
      /\ \A i \in 1 .. n : d[i] \in Nat /\ e[i] \in Nat /\ s[i].t \in Threads
      /\ s[1].k = "jni" /\ d[1] = 1 /\ e[1] = 0
  BY StackFacts
<1>a. \A i, j \in 1 .. n : i < j =>
        /\ s[i].t = s[j].t => d[i] + FramesIn(s[j]) <= d[j]
        /\ e[i] + Adds(s[j]) <= e[j]
  BY StackFacts
<1>b. \A i \in 1 .. n : s[i].t = "co" =>
        /\ \E j \in 1 .. n : j <= i /\ s[j].k = "resume"
        /\ \A j \in 1 .. n : i < j => s[j].t = "co" /\ s[j].k # "resume"
  BY StackFacts
<1>c. \A i \in 1 .. n : s[i] \in Activation /\ FramesIn(s[i]) \in Nat /\ Adds(s[i]) \in {0, 1}
                       /\ s[i].t \in Threads /\ d[i] \in Nat /\ e[i] \in Nat
  BY StackFacts
<1>2. /\ r \in Seq(Activation) /\ Len(r) = n + 1
      /\ \A i \in 1 .. n : r[i] = s[i]
      /\ r[n + 1] = b
  BY Appended
<1>3. /\ FramesIn(b) \in Nat /\ Adds(b) \in {0, 1} /\ b.t \in Threads
      /\ (b.k = "resume" => b.t = "co")
  BY ActivationFacts
<1>4. /\ d1 \in [1 .. n + 1 -> Nat] /\ e1 \in [1 .. n + 1 -> Nat]
      /\ \A i \in 1 .. n : d1[i] = d[i] /\ e1[i] = e[i]
      /\ d1[n + 1] = (IF b.k = "resume" THEN 0 ELSE d[n]) + FramesIn(b)
      /\ e1[n + 1] = e[n] + Adds(b)
  BY <1>1, <1>3 DEF More
<1> HIDE DEF r, d1, e1
<1>5. r[1].k = "jni" /\ d1[1] = 1 /\ e1[1] = 0
  BY <1>1, <1>2, <1>4
<1>6. ASSUME NEW i \in 2 .. n + 1
      PROVE  /\ Above(r[i - 1], r[i])
             /\ d1[i] = (IF r[i].k = "resume" THEN 0 ELSE d1[i - 1]) + FramesIn(r[i])
             /\ e1[i] = e1[i - 1] + Adds(r[i])
  <2>1. CASE i \in 2 .. n
    <3>1. i - 1 \in 1 .. n /\ i \in 1 .. n
      BY <1>1, <2>1
    <3>2. r[i] = s[i] /\ r[i - 1] = s[i - 1] /\ d1[i] = d[i] /\ d1[i - 1] = d[i - 1]
          /\ e1[i] = e[i] /\ e1[i - 1] = e[i - 1]
      BY <1>2, <1>4, <3>1
    <3>3. /\ Above(s[i - 1], s[i])
          /\ d[i] = (IF s[i].k = "resume" THEN 0 ELSE d[i - 1]) + FramesIn(s[i])
          /\ e[i] = e[i - 1] + Adds(s[i])
      BY <2>1, StackFacts
    <3> QED
      BY <3>2, <3>3
  <2>2. CASE i = n + 1
    <3>1. i - 1 = n /\ n \in 1 .. n
      BY <1>1, <2>2
    <3> QED
      BY <1>1, <1>2, <1>4, <2>2, <3>1
  <2> QED
    BY <1>1, <2>1, <2>2
<1>7. ASSUME NEW i \in 1 .. n + 1, r[i].t = "co"
      PROVE  /\ \E j \in 1 .. n + 1 : j <= i /\ r[j].k = "resume"
             /\ \A j \in 1 .. n + 1 : i < j => r[j].t = "co" /\ r[j].k # "resume"
  <2>1. CASE i \in 1 .. n
    <3>0. s[i].t = "co"
      BY <1>2, <1>7, <2>1
    <3>1. /\ \E j \in 1 .. n : j <= i /\ s[j].k = "resume"
          /\ \A j \in 1 .. n : i < j => s[j].t = "co" /\ s[j].k # "resume"
      BY <1>b, <2>1, <3>0
    <3>2. s[n].t = "co"
      BY <1>1, <2>1, <3>0, <3>1
    <3>3. b.k # "resume" /\ b.t = "co"
      BY <1>1, <1>3, <3>2 DEF Above, Threads
    <3>4. PICK j \in 1 .. n : j <= i /\ s[j].k = "resume"
      BY <3>1
    <3>5. j \in 1 .. n + 1 /\ r[j].k = "resume"
      BY <1>1, <1>2, <3>4
    <3>6. ASSUME NEW m \in 1 .. n + 1, i < m PROVE r[m].t = "co" /\ r[m].k # "resume"
      <4>1. CASE m \in 1 .. n
        <5>1. r[m] = s[m] /\ s[m].t = "co" /\ s[m].k # "resume"
          BY <1>2, <3>1, <3>6, <4>1
        <5> QED
          BY <5>1
      <4>2. CASE m = n + 1
        BY <1>2, <3>3, <4>2
      <4>3. m \in 1 .. n \/ m = n + 1
        BY <1>1
      <4> QED
        BY ONLY <4>1, <4>2, <4>3
    <3> QED
      BY <3>4, <3>5, <3>6
  <2>2. CASE i = n + 1
    <3>1. CASE b.k = "resume"
      BY <1>1, <1>2, <2>2, <3>1
    <3>2. CASE b.k # "resume"
      <4>1. s[n].t = "co"
        BY <1>1, <1>2, <1>7, <2>2, <3>2 DEF Above
      <4>2. PICK j \in 1 .. n : s[j].k = "resume"
        BY <1>1, <1>b, <4>1
      <4> QED
        BY <1>1, <1>2, <2>2, <4>2
    <3> QED
      BY <3>1, <3>2
  <2> QED
    BY <1>1, <2>1, <2>2
<1>8. ASSUME NEW i \in 1 .. n + 1, NEW j \in 1 .. n + 1, i < j
      PROVE  /\ r[i].t = r[j].t => d1[i] + FramesIn(r[j]) <= d1[j]
             /\ e1[i] + Adds(r[j]) <= e1[j]
  <2>1. i \in 1 .. n /\ r[i] = s[i] /\ d1[i] = d[i] /\ e1[i] = e[i]
    BY <1>1, <1>2, <1>4, <1>8
  <2>2. CASE j \in 1 .. n
    <3>1. r[j] = s[j] /\ d1[j] = d[j] /\ e1[j] = e[j]
      BY <1>2, <1>4, <2>2
    <3> QED
      BY <1>a, <1>8, <2>1, <2>2, <3>1
  <2>3. CASE j = n + 1
    <3>1. e[i] <= e[n]
      <4>1. CASE i = n
        BY <1>1, <4>1
      <4>2. CASE i < n
        BY <1>1, <1>a, <1>c, <2>1, <4>2
      <4> QED
        BY <1>1, <2>1, <4>1, <4>2
    <3>2. ASSUME s[i].t = b.t PROVE b.k # "resume" /\ d[i] <= d[n]
      <4>1. b.k # "resume"
        <5>1. SUFFICES ASSUME b.k = "resume" PROVE FALSE
          OBVIOUS
        <5>2. s[i].t = "co" /\ s[n].t # "co"
          BY <1>1, <1>3, <3>2, <5>1
        <5> QED
          BY <1>1, <1>b, <2>1, <5>2
      <4>2. s[n].t = b.t
        BY <1>1, <4>1 DEF Above
      <4>3. CASE i = n
        BY <1>1, <4>1, <4>3
      <4>4. CASE i < n
        BY <1>1, <1>a, <1>c, <1>3, <2>1, <3>2, <4>2, <4>4
      <4> QED
        BY <1>1, <2>1, <4>3, <4>4
    <3>3. r[j] = b /\ d1[j] = (IF b.k = "resume" THEN 0 ELSE d[n]) + FramesIn(b)
          /\ e1[j] = e[n] + Adds(b)
      BY <1>2, <1>4, <2>3
    <3>4. e1[i] + Adds(r[j]) <= e1[j]
      BY <1>1, <1>3, <2>1, <3>1, <3>3
    <3>5. ASSUME r[i].t = r[j].t PROVE d1[i] + FramesIn(r[j]) <= d1[j]
      <4>1. b.k # "resume" /\ d[i] <= d[n]
        BY <2>1, <3>2, <3>3, <3>5
      <4>2. d[i] \in Nat /\ d[n] \in Nat /\ d1[j] = d[n] + FramesIn(b)
        BY <1>1, <2>1, <3>3, <4>1
      <4> QED
        BY <1>3, <2>1, <3>3, <4>1, <4>2
    <3> QED
      BY <3>4, <3>5
  <2> QED
    BY <1>1, <2>2, <2>3
<1>9. StackInv(r, d1, e1)
  <2>1. n + 1 \in Nat \ {0}
    BY <1>1
  <2> QED
    BY <2>1, <1>2, <1>4, <1>5, <1>6, <1>7, <1>8, StackFrom
<1> QED
  BY <1>9 DEF r, d1, e1

LEMMA StackCut ==
  ASSUME NEW s \in Seq(Activation), NEW d, NEW e, StackInv(s, d, e), NEW n \in 1 .. Len(s)
  PROVE  StackInv(SubSeq(s, 1, n), Upto(d, n), Upto(e, n))
<1> DEFINE r == SubSeq(s, 1, n)
           d1 == Upto(d, n)
           e1 == Upto(e, n)
<1>1. /\ n \in Nat \ {0} /\ Len(s) \in Nat /\ n <= Len(s)
      /\ \A i \in 1 .. n : i \in 1 .. Len(s)
      /\ \A i \in 2 .. n : i \in 2 .. Len(s) /\ i - 1 \in 1 .. n /\ i \in 1 .. n
  BY StackFacts
<1>a. \A i, j \in 1 .. Len(s) : i < j =>
        /\ s[i].t = s[j].t => d[i] + FramesIn(s[j]) <= d[j]
        /\ e[i] + Adds(s[j]) <= e[j]
  BY StackFacts
<1>b. \A i \in 1 .. Len(s) : s[i].t = "co" =>
        /\ \E j \in 1 .. Len(s) : j <= i /\ s[j].k = "resume"
        /\ \A j \in 1 .. Len(s) : i < j => s[j].t = "co" /\ s[j].k # "resume"
  BY StackFacts
<1>c. \A i \in 1 .. Len(s) : s[i] \in Activation /\ FramesIn(s[i]) \in Nat /\ Adds(s[i]) \in {0, 1}
                       /\ s[i].t \in Threads /\ d[i] \in Nat /\ e[i] \in Nat
  BY StackFacts
<1>2. /\ r \in Seq(Activation) /\ Len(r) = n
      /\ \A i \in 1 .. n : r[i] = s[i]
  BY <1>1, Prefix
<1>3. /\ d1 \in [1 .. n -> Nat] /\ e1 \in [1 .. n -> Nat]
      /\ \A i \in 1 .. n : d1[i] = d[i] /\ e1[i] = e[i]
  BY <1>1, StackFacts DEF Upto
<1> HIDE DEF r, d1, e1
<1>4. \A i \in 2 .. n :
        /\ Above(r[i - 1], r[i])
        /\ d1[i] = (IF r[i].k = "resume" THEN 0 ELSE d1[i - 1]) + FramesIn(r[i])
        /\ e1[i] = e1[i - 1] + Adds(r[i])
  <2> TAKE i \in 2 .. n
  <2>1. r[i] = s[i] /\ r[i - 1] = s[i - 1] /\ d1[i] = d[i] /\ d1[i - 1] = d[i - 1]
        /\ e1[i] = e[i] /\ e1[i - 1] = e[i - 1] /\ i \in 2 .. Len(s)
    BY <1>1, <1>2, <1>3
  <2> QED
    BY <2>1, StackFacts
<1>5. \A i, j \in 1 .. n : i < j =>
        /\ r[i].t = r[j].t => d1[i] + FramesIn(r[j]) <= d1[j]
        /\ e1[i] + Adds(r[j]) <= e1[j]
  <2> TAKE i, j \in 1 .. n
  <2>1. r[i] = s[i] /\ r[j] = s[j] /\ d1[i] = d[i] /\ d1[j] = d[j]
        /\ e1[i] = e[i] /\ e1[j] = e[j] /\ i \in 1 .. Len(s) /\ j \in 1 .. Len(s)
    BY <1>1, <1>2, <1>3
  <2> QED
    BY <1>a, <2>1
<1>6. ASSUME NEW i \in 1 .. n, r[i].t = "co"
      PROVE  /\ \E j \in 1 .. n : j <= i /\ r[j].k = "resume"
             /\ \A j \in 1 .. n : i < j => r[j].t = "co" /\ r[j].k # "resume"
  <2>1. i \in 1 .. Len(s) /\ s[i].t = "co"
    BY <1>1, <1>2, <1>6
  <2>2. PICK j \in 1 .. Len(s) : j <= i /\ s[j].k = "resume"
    BY <1>b, <2>1
  <2>3. j \in 1 .. n /\ r[j].k = "resume"
    BY <1>1, <1>2, <2>2
  <2>4. \A m \in 1 .. n : i < m => s[m].t = "co" /\ s[m].k # "resume"
    BY <1>1, <1>b, <2>1
  <2> QED
    BY <1>2, <2>2, <2>3, <2>4
<1>7. r[1].k = "jni" /\ d1[1] = 1 /\ e1[1] = 0
  <2>1. 1 \in 1 .. n
    BY <1>1
  <2> QED
    BY <1>2, <1>3, <2>1, StackFacts
<1>8. StackInv(r, d1, e1)
  BY <1>1, <1>2, <1>3, <1>4, <1>5, <1>6, <1>7, StackFrom
<1> QED
  BY <1>8 DEF r, d1, e1

(* The top may change where it is, and with it what it has.                *)
LEMMA StackTop ==
  ASSUME NEW s \in Seq(Activation), NEW d, NEW e, StackInv(s, d, e),
         NEW n, n = Len(s), n > 1, NEW b \in Activation,
         b.k = s[n].k, b.t = s[n].t, b.k = "exec" => b.n > 0
  PROVE  StackInv([s EXCEPT ![n] = b],
                  [d EXCEPT ![n] = d[n] - FramesIn(s[n]) + FramesIn(b)],
                  [e EXCEPT ![n] = e[n] - Adds(s[n]) + Adds(b)])
<1> DEFINE r == [s EXCEPT ![n] = b]
           d1 == [d EXCEPT ![n] = d[n] - FramesIn(s[n]) + FramesIn(b)]
           e1 == [e EXCEPT ![n] = e[n] - Adds(s[n]) + Adds(b)]
<1>1. /\ n \in Nat \ {0} /\ DOMAIN s = 1 .. n /\ n \in 1 .. n /\ n \in 2 .. n /\ n - 1 \in 1 .. n
      /\ d \in [1 .. n -> Nat] /\ e \in [1 .. n -> Nat] /\ s[1].k = "jni"
      /\ d[1] = 1 /\ e[1] = 0
  BY StackFacts
<1>a. \A i, j \in 1 .. n : i < j =>
        /\ s[i].t = s[j].t => d[i] + FramesIn(s[j]) <= d[j]
        /\ e[i] + Adds(s[j]) <= e[j]
  BY StackFacts
<1>b. \A i \in 1 .. n : s[i].t = "co" =>
        /\ \E j \in 1 .. n : j <= i /\ s[j].k = "resume"
        /\ \A j \in 1 .. n : i < j => s[j].t = "co" /\ s[j].k # "resume"
  BY StackFacts
<1>c. \A i \in 1 .. n : s[i] \in Activation /\ FramesIn(s[i]) \in Nat /\ Adds(s[i]) \in {0, 1}
                       /\ s[i].t \in Threads /\ d[i] \in Nat /\ e[i] \in Nat
  BY StackFacts
<1>d. \A i \in 2 .. n :
        /\ Above(s[i - 1], s[i])
        /\ d[i] = (IF s[i].k = "resume" THEN 0 ELSE d[i - 1]) + FramesIn(s[i])
        /\ e[i] = e[i - 1] + Adds(s[i])
  BY StackFacts
<1>2. FramesIn(b) \in Nat /\ Adds(b) \in {0, 1}
  BY ActivationFacts
<1>3. /\ r \in Seq(Activation) /\ Len(r) = n
      /\ \A i \in 1 .. n : r[i] = IF i = n THEN b ELSE s[i]
  BY <1>1, ExceptSeq
<1>e. n \in 1 .. n /\ n \in 2 .. n /\ n - 1 \in 1 .. n
  BY <1>1
<1>f. /\ d[n] \in Nat /\ e[n] \in Nat /\ d[n - 1] \in Nat /\ e[n - 1] \in Nat
      /\ FramesIn(s[n]) \in Nat /\ Adds(s[n]) \in {0, 1}
  BY ONLY <1>e, <1>c
<1>4. /\ d[n] - FramesIn(s[n]) = (IF s[n].k = "resume" THEN 0 ELSE d[n - 1])
      /\ e[n] - Adds(s[n]) = e[n - 1]
  <2>1. /\ d[n] = (IF s[n].k = "resume" THEN 0 ELSE d[n - 1]) + FramesIn(s[n])
        /\ e[n] = e[n - 1] + Adds(s[n])
    BY ONLY <1>e, <1>d
  <2> QED
    BY ONLY <1>f, <2>1
<1>5. /\ d1 \in [1 .. n -> Nat] /\ e1 \in [1 .. n -> Nat]
      /\ \A i \in 1 .. n : i # n => d1[i] = d[i] /\ e1[i] = e[i]
      /\ d1[n] = (IF b.k = "resume" THEN 0 ELSE d[n - 1]) + FramesIn(b)
      /\ e1[n] = e[n - 1] + Adds(b)
  <2>1. /\ (IF b.k = "resume" THEN 0 ELSE d[n - 1]) + FramesIn(b) \in Nat
        /\ e[n - 1] + Adds(b) \in Nat
    BY ONLY <1>f, <1>2
  <2> QED
    BY <1>1, <1>4, <2>1
<1> HIDE DEF r, d1, e1
<1>6. \A i \in 2 .. n :
        /\ Above(r[i - 1], r[i])
        /\ d1[i] = (IF r[i].k = "resume" THEN 0 ELSE d1[i - 1]) + FramesIn(r[i])
        /\ e1[i] = e1[i - 1] + Adds(r[i])
  <2> TAKE i \in 2 .. n
  <2>1. i \in 1 .. n /\ i - 1 \in 1 .. n /\ i - 1 # n
    BY <1>1
  <2>2. r[i - 1] = s[i - 1] /\ d1[i - 1] = d[i - 1] /\ e1[i - 1] = e[i - 1]
    BY <1>3, <1>5, <2>1
  <2>3. CASE i = n
    <3>1. Above(s[i - 1], s[i])
      BY <1>d
    <3> QED
      BY <1>3, <1>5, <2>1, <2>2, <2>3, <3>1 DEF Above
  <2>4. CASE i # n
    BY <1>3, <1>5, <1>d, <2>1, <2>2, <2>4
  <2> QED
    BY <2>3, <2>4
<1>7. ASSUME NEW i \in 1 .. n, NEW j \in 1 .. n, i < j
      PROVE  /\ r[i].t = r[j].t => d1[i] + FramesIn(r[j]) <= d1[j]
             /\ e1[i] + Adds(r[j]) <= e1[j]
  <2>1. r[i] = s[i] /\ d1[i] = d[i] /\ e1[i] = e[i]
    BY <1>1, <1>3, <1>5, <1>7
  <2>2. CASE j # n
    BY <1>3, <1>5, <1>7, <1>a, <2>1, <2>2
  <2>3. CASE j = n
    <3>1. /\ s[i].t = s[n].t => d[i] + FramesIn(s[n]) <= d[n]
          /\ e[i] + Adds(s[n]) <= e[n]
      BY <1>1, <1>7, <1>a, <2>3
    <3>2. d[i] \in Nat /\ e[i] \in Nat /\ d[n] \in Nat /\ e[n] \in Nat
          /\ FramesIn(s[n]) \in Nat /\ Adds(s[n]) \in Nat
      BY ONLY <1>f, <1>c
    <3>3. d1[n] = d[n] - FramesIn(s[n]) + FramesIn(b) /\ e1[n] = e[n] - Adds(s[n]) + Adds(b)
      BY <1>4, <1>5
    <3> QED
      BY <1>1, <1>2, <1>3, <2>1, <2>3, <3>1, <3>2, <3>3
  <2> QED
    BY <2>2, <2>3
<1>8. ASSUME NEW i \in 1 .. n, r[i].t = "co"
      PROVE  /\ \E j \in 1 .. n : j <= i /\ r[j].k = "resume"
             /\ \A j \in 1 .. n : i < j => r[j].t = "co" /\ r[j].k # "resume"
  <2>1. \A j \in 1 .. n : r[j].t = s[j].t /\ r[j].k = s[j].k
    BY <1>3
  <2> QED
    BY <1>8, <1>b, <2>1
<1>9. r[1].k = "jni" /\ d1[1] = 1 /\ e1[1] = 0
  BY <1>1, <1>3, <1>5
<1>10. StackInv(r, d1, e1)
  BY <1>1, <1>3, <1>5, <1>6, <1>7, <1>8, <1>9, StackFrom
<1> QED
  BY <1>10 DEF r, d1, e1

-----------------------------------------------------------------------------
(* The state                                                               *)

LEMMA Updated ==
  ASSUME NEW m \in State, NEW t \in Threads, NEW U \in Thread
  PROVE  LET m1 == Update(m, t, U)
         IN  /\ m1 \in State /\ m1.cs = m.cs /\ m1.th[t] = U
             /\ \A u \in Threads : u # t => m1.th[u] = m.th[u]
  BY DEF State, Update

LEMMA Entered ==
  ASSUME NEW m \in State, NEW a \in Activation
  PROVE  LET m1 == Enter(m, a)
         IN  /\ m1 \in State /\ m1.th = m.th /\ m1.cs = Append(m.cs, a)
             /\ Len(m1.cs) = Len(m.cs) + 1 /\ DOMAIN m1.cs = 1 .. Len(m.cs) + 1
             /\ \A i \in 1 .. Len(m.cs) : m1.cs[i] = m.cs[i]
             /\ m1.cs[Len(m.cs) + 1] = a /\ Last(m1.cs) = a
<1>1. m.cs \in Seq(Activation)
  BY DEF State
<1>2. Enter(m, a).th = m.th /\ Enter(m, a).cs = Append(m.cs, a)
  BY DEF State, Enter
<1>3. Append(m.cs, a) \in Seq(Activation)
  BY <1>1, Appended
<1>4. Enter(m, a) \in State
  BY <1>3 DEF State, Enter
<1> QED
  BY <1>1, <1>2, <1>4, Appended

LEMMA ThreadFacts ==
  ASSUME NEW m \in State, NEW t \in Threads
  PROVE  /\ m.th[t] \in Thread /\ m.th[t].stk \in Seq(Value) /\ m.th[t].ci \in Seq(CallInfo)
         /\ Len(m.th[t].stk) \in Nat /\ DOMAIN m.th[t].stk = 1 .. Len(m.th[t].stk)
         /\ Len(m.th[t].ci) \in Nat /\ DOMAIN m.th[t].ci = 1 .. Len(m.th[t].ci)
         /\ m.cs \in Seq(Activation)
<1>1. /\ m.th[t] \in Thread /\ m.th[t].stk \in Seq(Value) /\ m.th[t].ci \in Seq(CallInfo)
      /\ m.cs \in Seq(Activation)
  BY DEF State, Thread
<1> QED
  BY <1>1, LenProperties

LEMMA FramesFacts ==
  ASSUME NEW T \in Thread, FramesInv(T)
  PROVE  /\ T.stk \in Seq(Value) /\ Len(T.stk) \in Nat /\ T.ci \in Seq(CallInfo)
         /\ Len(T.ci) \in Nat \ {0} /\ DOMAIN T.ci = 1 .. Len(T.ci)
         /\ Frame(T) = T.ci[Len(T.ci)]
         /\ \A i \in 1 .. Len(T.ci) :
              /\ T.ci[i] \in CallInfo /\ T.ci[i].func \in Nat /\ T.ci[i].base \in Nat
              /\ T.ci[i].top \in Nat /\ T.ci[i].lua \in BOOLEAN /\ T.ci[i].want \in Result
              /\ T.ci[i].captured \in SUBSET Nat /\ T.ci[i].under \in Seq(Value)
              /\ Low(T.ci[i]) \in Nat /\ T.ci[i].base <= Low(T.ci[i])
              /\ T.ci[i].func < Low(T.ci[i])
         /\ \A i, j \in 1 .. Len(T.ci) : i < j =>
              Low(T.ci[i]) <= T.ci[j].func /\ Low(T.ci[i]) < Low(T.ci[j])
         /\ T.base = T.ci[Len(T.ci)].base /\ T.base \in Nat
         /\ Len(T.stk) >= Low(T.ci[Len(T.ci)]) - 1
<1>1. /\ T.stk \in Seq(Value) /\ T.ci \in Seq(CallInfo) /\ T.ci # <<>> /\ T.base \in Nat
  BY DEF Thread, FramesInv
<1>2. /\ Len(T.stk) \in Nat /\ Len(T.ci) \in Nat \ {0} /\ DOMAIN T.ci = 1 .. Len(T.ci)
      /\ Frame(T) = T.ci[Len(T.ci)]
      /\ \A i \in 1 .. Len(T.ci) : T.ci[i] \in CallInfo
  BY <1>1, LenProperties, LastOf, ElementOfSeq DEF Frame
<1>3. ASSUME NEW c \in CallInfo
      PROVE  /\ c.func \in Nat /\ c.base \in Nat /\ c.top \in Nat /\ c.lua \in BOOLEAN
             /\ c.want \in Result /\ c.captured \in SUBSET Nat /\ c.under \in Seq(Value)
             /\ Low(c) \in Nat /\ c.base <= Low(c)
  BY DEF CallInfo, Low
<1>4. \A i \in 1 .. Len(T.ci) : T.ci[i].func < T.ci[i].base
  BY <1>2 DEF FramesInv, FrameInv
<1>5. \A i, j \in 1 .. Len(T.ci) : i < j => Low(T.ci[i]) <= T.ci[j].func
  BY <1>2 DEF FramesInv, FrameInv
<1>6. \A i \in 1 .. Len(T.ci) :
        /\ T.ci[i].func \in Nat /\ T.ci[i].base \in Nat /\ T.ci[i].top \in Nat
        /\ T.ci[i].lua \in BOOLEAN /\ T.ci[i].want \in Result
        /\ T.ci[i].captured \in SUBSET Nat /\ T.ci[i].under \in Seq(Value)
        /\ Low(T.ci[i]) \in Nat /\ T.ci[i].base <= Low(T.ci[i])
  BY <1>2, <1>3
<1>7. \A i \in 1 .. Len(T.ci) : T.ci[i].func < Low(T.ci[i])
  BY <1>4, <1>6
<1>8. \A i, j \in 1 .. Len(T.ci) : i < j => Low(T.ci[i]) < Low(T.ci[j])
  <2> TAKE i, j \in 1 .. Len(T.ci)
  <2>1. i < j => Low(T.ci[i]) <= T.ci[j].func
    BY <1>5
  <2>2. T.ci[j].func < Low(T.ci[j]) /\ T.ci[j].func \in Nat
        /\ Low(T.ci[i]) \in Nat /\ Low(T.ci[j]) \in Nat
    BY <1>6, <1>7
  <2> QED
    BY <2>1, <2>2
<1>9. T.base = T.ci[Len(T.ci)].base /\ Len(T.stk) >= Low(T.ci[Len(T.ci)]) - 1
  BY <1>2 DEF FramesInv
<1> QED
  BY <1>1, <1>2, <1>5, <1>6, <1>7, <1>8, <1>9

(* The thread that runs.                                                   *)
Running(m) == m.th[Last(m.cs).t]

LEMMA RunningFacts ==
  ASSUME NEW m, NEW d, NEW e, Inv(m, d, e)
  PROVE  /\ m \in State /\ m.cs \in Seq(Activation) /\ m.cs # <<>>
         /\ Len(m.cs) \in Nat \ {0} /\ DOMAIN m.cs = 1 .. Len(m.cs)
         /\ Last(m.cs) = m.cs[Len(m.cs)] /\ Last(m.cs) \in Activation
         /\ Last(m.cs).t \in Threads
         /\ Running(m) \in Thread /\ FramesInv(Running(m))
         /\ Len(Running(m).ci) = d[Len(m.cs)] /\ Running(m).nC = e[Len(m.cs)]
         /\ Running(m).stk \in Seq(Value)
         /\ Last(m.cs).t = "main" <=> ~Runs(m.cs)
         /\ Last(m.cs).t = "co" => m.th["co"].ci # <<>>
         /\ d \in [1 .. Len(m.cs) -> Nat] /\ e \in [1 .. Len(m.cs) -> Nat]
<1> DEFINE L == Len(m.cs)
<1>1. m \in State /\ m.cs \in Seq(Activation) /\ StackInv(m.cs, d, e)
  BY DEF Inv, State
<1>2. /\ L \in Nat \ {0} /\ DOMAIN m.cs = 1 .. L /\ m.cs # <<>>
      /\ Last(m.cs) = m.cs[L] /\ m.cs[L] \in Activation /\ L \in 1 .. L
      /\ d \in [1 .. L -> Nat] /\ e \in [1 .. L -> Nat]
      /\ \A i \in 1 .. L : m.cs[i] \in Activation
  BY <1>1, StackFacts DEF StackInv
<1>3. Last(m.cs).t \in Threads /\ Running(m) \in Thread
  BY <1>1, <1>2, ActivationFacts, ThreadFacts DEF Running
<1>4. Last(m.cs).t = "main" <=> ~Runs(m.cs)
  <2>1. ASSUME Last(m.cs).t = "co" PROVE Runs(m.cs)
    BY <1>1, <1>2, <2>1 DEF StackInv, Runs
  <2>2. ASSUME Runs(m.cs) PROVE Last(m.cs).t # "main"
    <3>1. PICK i \in 1 .. L : m.cs[i].k = "resume"
      BY <1>2, <2>2 DEF Runs
    <3>2. m.cs[i].t = "co"
      BY <1>2, <3>1, ActivationFacts
    <3>3. \A j \in 1 .. L : i < j => m.cs[j].t = "co"
      BY <1>1, <1>2, <3>2 DEF StackInv
    <3>4. i = L \/ i < L
      BY <1>2
    <3> QED
      BY <1>2, <3>2, <3>3, <3>4
  <2> QED
    BY <1>3, <2>1, <2>2 DEF Threads
<1>5. Last(m.cs).t = "co" => m.th["co"].ci # <<>>
  BY <1>4 DEF Inv, CoroutineInv
<1>6. FramesInv(Running(m))
  BY <1>3, <1>5 DEF Inv, CoroutineInv, Running, Threads
<1>7. Len(Running(m).ci) = d[L] /\ Running(m).nC = e[L]
  <2>1. ActivationInv(m, d, e, L) /\ IsLast(m.cs, L)
    BY <1>2 DEF Inv, IsLast
  <2> QED
    BY <1>2, <2>1 DEF ActivationInv, Running
<1>8. Running(m).stk \in Seq(Value)
  BY <1>3 DEF Thread
<1> QED
  BY <1>1, <1>2, <1>3, <1>4, <1>5, <1>6, <1>7, <1>8

-----------------------------------------------------------------------------
(* What a step may write                                                   *)

(* Slot p and those above it are no caller's.                              *)
AboveAll(m, p) ==
  /\ p \in Nat /\ Low(Frame(Running(m))) <= p
  /\ \A j \in DOMAIN m.cs :
       Owns(m.cs[j]) /\ m.cs[j].t = Last(m.cs).t => Floor(m.cs[j]) <= p

LEMMA LowAboveAll ==
  ASSUME NEW m, NEW d, NEW e, Inv(m, d, e), Last(m.cs).k \in {"jni", "exec", "cfun"}
  PROVE  AboveAll(m, Low(Frame(Running(m))))
<1> DEFINE L == Len(m.cs)
           T == Running(m)
<1>1. /\ m \in State /\ m.cs \in Seq(Activation) /\ L \in Nat \ {0} /\ DOMAIN m.cs = 1 .. L
      /\ Last(m.cs) = m.cs[L] /\ T \in Thread /\ FramesInv(T) /\ Len(T.ci) = d[L]
      /\ StackInv(m.cs, d, e) /\ Last(m.cs).t \in Threads
  BY RunningFacts DEF Inv
<1>2. /\ Len(T.ci) \in Nat \ {0} /\ DOMAIN T.ci = 1 .. Len(T.ci)
      /\ Frame(T) = T.ci[Len(T.ci)] /\ Low(Frame(T)) \in Nat
      /\ T.ci[Len(T.ci)].func < Low(Frame(T)) /\ T.ci[Len(T.ci)].func \in Nat
  BY <1>1, FramesFacts
<1>3. ASSUME NEW j \in 1 .. L, Owns(m.cs[j]), m.cs[j].t = Last(m.cs).t
      PROVE  Floor(m.cs[j]) <= Low(Frame(T))
  <2>1. m.cs[j] \in Activation /\ Floor(m.cs[j]) \in Nat
    BY <1>1, <1>3, ElementOfSeq, ActivationFacts
  <2>2. j < L /\ L > 1
    BY <1>1, <1>3 DEF Owns
  <2>3. Above(m.cs[L - 1], m.cs[L])
    <3>1. L \in 2 .. Len(m.cs)
      BY <1>1, <2>2
    <3> QED
      BY <1>1, <3>1, StackFacts
  <2>4. FramesIn(m.cs[L]) > 0
    <3>1. m.cs[L].k # "jni" /\ (m.cs[L].k = "exec" => m.cs[L].n > 0)
      BY <2>3 DEF Above
    <3> QED
      BY <1>1, <3>1 DEF FramesIn
  <2>5. d[j] + FramesIn(m.cs[L]) <= d[L] /\ d[j] \in Nat /\ FramesIn(m.cs[L]) \in Nat
    <3>1. L \in 1 .. L /\ j \in 1 .. L /\ m.cs[j].t = m.cs[L].t
      BY <1>1, <1>3
    <3>2. /\ \A i \in 1 .. L : d[i] \in Nat /\ FramesIn(m.cs[i]) \in Nat
          /\ \A i, k \in 1 .. L : i < k => (m.cs[i].t = m.cs[k].t => d[i] + FramesIn(m.cs[k]) <= d[k])
      BY <1>1, StackFacts
    <3> QED
      BY <2>2, <3>1, <3>2
  <2>6. d[j] < Len(T.ci) /\ Len(T.ci) \in DOMAIN T.ci
    BY <1>1, <1>2, <2>4, <2>5
  <2>7. T = m.th[m.cs[j].t] /\ ActivationInv(m, d, e, j)
    BY <1>1, <1>3 DEF Running, Inv
  <2>8. Floor(m.cs[j]) <= T.ci[Len(T.ci)].func
    BY <1>3, <2>6, <2>7 DEF ActivationInv
  <2> QED
    BY <1>2, <2>1, <2>8
<1> QED
  BY <1>1, <1>2, <1>3 DEF AboveAll

LEMMA CallAboveAll ==
  ASSUME NEW m, NEW d, NEW e, Inv(m, d, e), Last(m.cs).k = "call"
  PROVE  AboveAll(m, Last(m.cs).func)
<1> DEFINE L == Len(m.cs)
           T == Running(m)
<1>1. /\ m \in State /\ m.cs \in Seq(Activation) /\ L \in Nat \ {0} /\ DOMAIN m.cs = 1 .. L
      /\ Last(m.cs) = m.cs[L] /\ T \in Thread /\ FramesInv(T) /\ Len(T.ci) = d[L]
      /\ Last(m.cs) \in Activation
  BY RunningFacts DEF Inv
<1>2. Frame(T) = T.ci[d[L]] /\ Owns(m.cs[L]) /\ Floor(m.cs[L]) = m.cs[L].func
      /\ m.cs[L].func \in Nat
  BY <1>1, FramesFacts, ActivationFacts DEF Owns, Floor
<1>3. L \in DOMAIN m.cs /\ ActivationInv(m, d, e, L)
  BY <1>1 DEF Inv
<1>4. Low(Frame(T)) <= m.cs[L].func
  BY <1>1, <1>2, <1>3 DEF ActivationInv, Running
<1>5. ASSUME NEW j \in 1 .. L, Owns(m.cs[j]), m.cs[j].t = Last(m.cs).t
      PROVE  Floor(m.cs[j]) <= m.cs[L].func
  <2>1. CASE j = L
    BY <1>2, <2>1
  <2>2. CASE j < L
    <3>1. ActivationInv(m, d, e, j)
      BY <1>1 DEF Inv
    <3> QED
      BY <1>1, <1>2, <1>3, <1>5, <2>2, <3>1 DEF ActivationInv
  <2> QED
    BY <1>1, <2>1, <2>2
<1> QED
  BY <1>1, <1>2, <1>4, <1>5 DEF AboveAll

(* Activation i of m is one of r, too, and what it knows is as it was.     *)
Finds(m, d, r, d1, i) ==
  LET a == m.cs[i]
      T == m.th[a.t]
      U == r.th[a.t]
  IN  /\ d1[i] \in DOMAIN U.ci /\ d1[i] = d[i] /\ r.cs[i] = a
      /\ \A j \in DOMAIN T.ci : j <= d[i] => U.ci[j].lua = T.ci[j].lua
      /\ a.k = "resume" => r.th["co"].baseC = m.th["co"].baseC
      /\ a.k = "call" => a.pc = "in"
      /\ Owns(a) => /\ Keeps(T.stk, U.stk, Floor(a) - 1)
                    /\ U.ci[d[i]].base = T.ci[d[i]].base
                    /\ \A j \in DOMAIN U.ci : d[i] < j => Floor(a) <= U.ci[j].func
                    /\ \A j \in DOMAIN r.cs : i < j /\ Owns(r.cs[j]) /\ r.cs[j].t = a.t =>
                         Floor(a) <= Floor(r.cs[j])

LEMMA ActivationKept ==
  ASSUME NEW m \in State, NEW d, NEW e, NEW i \in DOMAIN m.cs,
         ActivationInv(m, d, e, i), NEW r \in State, NEW d1, NEW e1, e1[i] = e[i],
         Finds(m, d, r, d1, i),
         IsLast(r.cs, i) => LET U == r.th[m.cs[i].t] IN Len(U.ci) = d[i] /\ U.nC = e[i]
  PROVE  ActivationInv(r, d1, e1, i)
<1> DEFINE a == m.cs[i]
           T == m.th[a.t]
           U == r.th[a.t]
<1>1. a \in Activation /\ a.t \in Threads
  <2>1. m.cs \in Seq(Activation)
    BY DEF State
  <2> QED
    BY <2>1, ElementOfSeq, LenProperties, ActivationFacts
<1>2. /\ T.stk \in Seq(Value) /\ U.stk \in Seq(Value) /\ Len(T.stk) \in Nat
      /\ Len(U.stk) \in Nat /\ DOMAIN T.ci = 1 .. Len(T.ci) /\ DOMAIN U.ci = 1 .. Len(U.ci)
      /\ Len(T.ci) \in Nat /\ Len(U.ci) \in Nat
  BY <1>1, ThreadFacts
<1>3. /\ r.cs[i] = a /\ d1[i] = d[i] /\ e1[i] = e[i] /\ d[i] \in DOMAIN U.ci
      /\ \A j \in DOMAIN T.ci : j <= d[i] => U.ci[j].lua = T.ci[j].lua
  BY DEF Finds
<1>4. d[i] \in DOMAIN T.ci /\ d[i] \in Nat /\ U.ci[d[i]].lua = T.ci[d[i]].lua
  <2>1. d[i] \in 1 .. Len(T.ci)
    BY <1>2 DEF ActivationInv
  <2>2. d[i] \in Nat /\ d[i] <= d[i]
    BY <2>1
  <2>3. d[i] \in DOMAIN T.ci
    BY <1>2, <2>1
  <2> QED
    BY <1>3, <2>2, <2>3
<1>5. ASSUME a.k = "exec", NEW j \in DOMAIN U.ci, d[i] - a.n < j, j <= d[i]
      PROVE  U.ci[j].lua
  <2>1. j \in DOMAIN T.ci
    <3>1. d[i] \in 1 .. Len(T.ci) /\ j \in 1 .. Len(U.ci)
      BY <1>2, <1>4
    <3> QED
      BY ONLY <1>2, <1>5, <3>1
  <2>2. T.ci[j].lua
    BY <1>5, <2>1 DEF ActivationInv
  <2> QED
    BY <1>3, <1>5, <2>1, <2>2
<1>6. a.k = "cfun" => /\ ~U.ci[d[i]].lua
                      /\ a.f = "wrapped" /\ a.pc # "run" => a.t = "main"
  BY <1>4 DEF ActivationInv
<1>7. ASSUME Owns(a)
      PROVE  /\ Low(U.ci[d[i]]) <= Floor(a) /\ Floor(a) <= Len(U.stk) + 1
             /\ \A j \in DOMAIN U.ci : d[i] < j => Floor(a) <= U.ci[j].func
             /\ \A j \in DOMAIN r.cs : i < j /\ Owns(r.cs[j]) /\ r.cs[j].t = a.t =>
                  Floor(a) <= Floor(r.cs[j])
             /\ a.k = "pcall" => SubSeq(U.stk, 1, a.top - 1) = a.under
  <2>1. Keeps(T.stk, U.stk, Floor(a) - 1) /\ U.ci[d[i]].base = T.ci[d[i]].base
    BY <1>7 DEF Finds
  <2>2. Low(U.ci[d[i]]) = Low(T.ci[d[i]])
    BY <1>4, <2>1 DEF Low
  <2>3. Low(T.ci[d[i]]) <= Floor(a)
    BY <1>7 DEF ActivationInv
  <2>4. Floor(a) \in Nat
    BY <1>1, <1>7, ActivationFacts
  <2>5. Floor(a) - 1 <= Len(U.stk)
    BY <2>1 DEF Keeps
  <2>6. a.k = "pcall" => SubSeq(U.stk, 1, a.top - 1) = a.under
    <3> SUFFICES ASSUME a.k = "pcall" PROVE SubSeq(U.stk, 1, a.top - 1) = a.under
      OBVIOUS
    <3>1. Floor(a) = a.top /\ SubSeq(T.stk, 1, a.top - 1) = a.under
      BY DEF Floor, ActivationInv
    <3>2. SubSeq(T.stk, 1, a.top - 1) = SubSeq(U.stk, 1, a.top - 1)
      <4>1. CASE a.top = 0
        BY <4>1, SubSeqEmpty
      <4>2. CASE a.top # 0
        <5> DEFINE n == a.top - 1
        <5>1. n \in Nat /\ n \in Int /\ n <= n
          BY <2>4, <3>1, <4>2
        <5>2. Keeps(T.stk, U.stk, n)
          BY <2>1, <3>1
        <5> HIDE DEF n
        <5>3. SubSeq(T.stk, 1, n) = SubSeq(U.stk, 1, n)
          BY ONLY <1>2, <5>1, <5>2, KeptBelow
        <5> QED
          BY <5>3 DEF n
      <4> QED
        BY <4>1, <4>2
    <3> QED
      BY <3>1, <3>2
  <2>7. Floor(a) <= Len(U.stk) + 1
    BY <1>2, <2>4, <2>5
  <2>8. Low(U.ci[d[i]]) <= Floor(a)
    BY <2>2, <2>3
  <2>9. /\ \A j \in DOMAIN U.ci : d[i] < j => Floor(a) <= U.ci[j].func
        /\ \A j \in DOMAIN r.cs : i < j /\ Owns(r.cs[j]) /\ r.cs[j].t = a.t =>
             Floor(a) <= Floor(r.cs[j])
    BY <1>7 DEF Finds
  <2> QED
    BY <2>6, <2>7, <2>8, <2>9
<1>8. a.k = "pcall" => Owns(a) /\ a.ci = d[i] /\ a.nC = e[i]
  BY DEF Owns, ActivationInv
<1>9. a.k = "call" => a.pc # "enter"
  BY DEF Finds
<1>10. a.k = "resume" => r.th["co"].baseC = e[i]
  BY DEF Finds, ActivationInv
<1>11. IsLast(r.cs, i) => Len(U.ci) = d[i] /\ U.nC = e[i]
  OBVIOUS
<1> QED
  BY <1>3, <1>5, <1>6, <1>7, <1>8, <1>9, <1>10, <1>11 DEF ActivationInv

-----------------------------------------------------------------------------
(* A step of the thread that runs                                          *)

(* The coroutine rests, whoever runs next.                                 *)
NoOne == [k |-> "none"]
Quiet(m) == ~Runs(m.cs) /\ m.th["co"].ci # <<>> => AtRest(m.th["co"], NoOne)

(* Thread t, running in m and in r, keeps the first n activations, the     *)
(* slots below p and q frames; what is new is above.                       *)
Moves(m, d, e, r, d1, e1, n, p, q) ==
  LET t == Last(m.cs).t
      T == m.th[t]
      U == r.th[t]
  IN  /\ r \in State /\ StackInv(r.cs, d1, e1) /\ Last(r.cs).t = t
      /\ \A u \in Threads : u # t => r.th[u] = m.th[u]
      /\ n <= Len(m.cs) /\ n <= Len(r.cs)
      /\ \A i \in 1 .. n : /\ r.cs[i] = m.cs[i] /\ d1[i] = d[i] /\ e1[i] = e[i]
                           /\ m.cs[i].k = "call" => m.cs[i].pc = "in"
                           /\ m.cs[i].t = t => d[i] <= Len(U.ci)
                           /\ m.cs[i].t = t /\ Owns(m.cs[i]) =>
                                d[i] <= q /\ Floor(m.cs[i]) <= p
      /\ \A i \in n + 1 .. Len(r.cs) : r.cs[i].t = t /\ r.cs[i].k # "resume"
                                       /\ (Owns(r.cs[i]) => p <= Floor(r.cs[i]))
      /\ n = Len(r.cs) => Len(U.ci) = d[n] /\ U.nC = e[n]
      /\ FramesInv(U) /\ U.status = T.status /\ U.baseC = T.baseC
      /\ Keeps(T.stk, U.stk, p - 1)
      /\ q <= Len(U.ci) /\ q <= Len(T.ci)
      /\ \A j \in 1 .. q : U.ci[j].base = T.ci[j].base /\ U.ci[j].func = T.ci[j].func
      /\ \A j \in 1 .. Len(U.ci) : /\ j <= Len(T.ci) => U.ci[j].lua = T.ci[j].lua
                                   /\ q < j => p <= U.ci[j].func

LEMMA MovesKeeps ==
  ASSUME NEW m, NEW d, NEW e, Inv(m, d, e), NEW r, NEW d1, NEW e1,
         NEW n \in Nat, NEW p \in Nat, NEW q \in Nat, Moves(m, d, e, r, d1, e1, n, p, q),
         NEW i \in 1 .. n
  PROVE  ActivationInv(r, d1, e1, i)
<1> DEFINE L == Len(m.cs)
           R == Len(r.cs)
           a == m.cs[i]
           t == Last(m.cs).t
           T == m.th[a.t]
           U == r.th[a.t]
<1>1. /\ m \in State /\ r \in State /\ StackInv(m.cs, d, e) /\ StackInv(r.cs, d1, e1)
      /\ m.cs \in Seq(Activation) /\ r.cs \in Seq(Activation)
      /\ L \in Nat \ {0} /\ R \in Nat \ {0} /\ n <= L /\ n <= R
      /\ DOMAIN m.cs = 1 .. L /\ DOMAIN r.cs = 1 .. R
      /\ Last(m.cs) = m.cs[L] /\ Last(r.cs) = r.cs[R] /\ Last(r.cs).t = t /\ t \in Threads
  BY RunningFacts, StackFacts DEF Inv, Moves, State
<1>a. \A j \in 1 .. n : /\ r.cs[j] = m.cs[j] /\ d1[j] = d[j] /\ e1[j] = e[j]
                        /\ m.cs[j].k = "call" => m.cs[j].pc = "in"
                        /\ m.cs[j].t = t => d[j] <= Len(r.th[t].ci)
                        /\ m.cs[j].t = t /\ Owns(m.cs[j]) => d[j] <= q /\ Floor(m.cs[j]) <= p
  BY DEF Moves
<1>b. \A j \in n + 1 .. R : r.cs[j].t = t /\ r.cs[j].k # "resume"
                            /\ (Owns(r.cs[j]) => p <= Floor(r.cs[j]))
  BY DEF Moves
<1>c. \A u \in Threads : u # t => r.th[u] = m.th[u]
  BY DEF Moves
<1>d. n = R => Len(r.th[t].ci) = d[n] /\ r.th[t].nC = e[n]
  BY DEF Moves
<1>e. /\ FramesInv(r.th[t]) /\ r.th[t].baseC = m.th[t].baseC
      /\ Keeps(m.th[t].stk, r.th[t].stk, p - 1)
      /\ q <= Len(r.th[t].ci) /\ q <= Len(m.th[t].ci)
  BY DEF Moves
<1>f. \A j \in 1 .. q : r.th[t].ci[j].base = m.th[t].ci[j].base
                        /\ r.th[t].ci[j].func = m.th[t].ci[j].func
  BY DEF Moves
<1>g. \A j \in 1 .. Len(r.th[t].ci) :
        /\ j <= Len(m.th[t].ci) => r.th[t].ci[j].lua = m.th[t].ci[j].lua
        /\ q < j => p <= r.th[t].ci[j].func
  BY DEF Moves
<1>2. i \in 1 .. L /\ i \in 1 .. R /\ i \in DOMAIN m.cs /\ i \in DOMAIN r.cs
  BY <1>1
<1>h. \A j \in 1 .. R : j \in 1 .. n \/ j \in n + 1 .. R
  BY <1>1
<1>i. \A j \in 1 .. n : j \in 1 .. L /\ j \in 1 .. R
  BY <1>1
<1>3. /\ a \in Activation /\ a.t \in Threads /\ ActivationInv(m, d, e, i)
      /\ d[i] \in Nat /\ e[i] \in Nat
  <2>1. ActivationInv(m, d, e, i)
    BY <1>2 DEF Inv
  <2> QED
    BY <1>1, <1>2, <2>1, StackFacts
<1>j. /\ a.k = "resume" => a.t = "co"
      /\ Owns(a) => Floor(a) \in Nat
  BY <1>3, ActivationFacts
<1>4. r.cs[i] = a /\ d1[i] = d[i] /\ e1[i] = e[i] /\ (a.k = "call" => a.pc = "in")
  BY <1>a
<1>5. /\ DOMAIN T.ci = 1 .. Len(T.ci) /\ Len(T.ci) \in Nat
      /\ DOMAIN U.ci = 1 .. Len(U.ci) /\ Len(U.ci) \in Nat
      /\ d[i] \in 1 .. Len(T.ci) /\ T.stk \in Seq(Value) /\ Len(T.stk) \in Nat
      /\ U \in Thread /\ U.stk \in Seq(Value) /\ Len(U.stk) \in Nat
  <2>1. /\ DOMAIN T.ci = 1 .. Len(T.ci) /\ Len(T.ci) \in Nat
        /\ DOMAIN U.ci = 1 .. Len(U.ci) /\ Len(U.ci) \in Nat
        /\ T.stk \in Seq(Value) /\ Len(T.stk) \in Nat
        /\ U \in Thread /\ U.stk \in Seq(Value) /\ Len(U.stk) \in Nat
    BY <1>1, <1>3, ThreadFacts
  <2> QED
    BY <1>3, <2>1 DEF ActivationInv
<1>k. Owns(a) => /\ Floor(a) <= Len(T.stk) + 1
                 /\ \A j \in DOMAIN T.ci : d[i] < j => Floor(a) <= T.ci[j].func
                 /\ \A j \in DOMAIN m.cs : i < j /\ Owns(m.cs[j]) /\ m.cs[j].t = a.t =>
                      Floor(a) <= Floor(m.cs[j])
  BY <1>3 DEF ActivationInv
<1>l. IsLast(m.cs, i) => Len(T.ci) = d[i] /\ T.nC = e[i]
  BY <1>3 DEF ActivationInv
<1>m. d[i] \in Nat /\ 1 <= d[i] /\ d[i] <= Len(T.ci) /\ Len(T.ci) \in Nat
      /\ Len(U.ci) \in Nat /\ Len(T.stk) \in Nat /\ Len(U.stk) \in Nat
  BY <1>5
(* An activation of the other thread.                                      *)
<1>6. CASE a.t # t
  <2>1. U = T
    BY <1>3, <1>6, <1>c
  <2>2. ASSUME Owns(a), NEW j \in DOMAIN r.cs, i < j, Owns(r.cs[j]), r.cs[j].t = a.t
        PROVE  Floor(a) <= Floor(r.cs[j])
    <3>1. CASE j \in 1 .. n
      <4>1. r.cs[j] = m.cs[j] /\ j \in DOMAIN m.cs
        BY <1>1, <1>a, <1>i, <3>1
      <4> QED
        BY <1>k, <2>2, <4>1
    <3>2. CASE j \in n + 1 .. R
      BY <1>6, <1>b, <2>2, <3>2
    <3> QED
      BY <1>1, <1>h, <3>1, <3>2
  <2>3. a.k = "resume" => r.th["co"].baseC = m.th["co"].baseC
    BY <1>j, <2>1
  <2>4. Owns(a) => Keeps(T.stk, U.stk, Floor(a) - 1)
    <3> SUFFICES ASSUME Owns(a) PROVE Keeps(T.stk, T.stk, Floor(a) - 1)
      BY <2>1
    <3>1. Floor(a) \in Nat /\ Floor(a) <= Len(T.stk) + 1
      BY <1>j, <1>k
    <3>2. Floor(a) - 1 <= Len(T.stk)
      <4> DEFINE b == Floor(a)
      <4> HIDE DEF b
      <4>1. b \in Nat /\ b <= Len(T.stk) + 1
        BY <3>1 DEF b
      <4>2. b - 1 <= Len(T.stk)
        BY ONLY <1>m, <4>1
      <4> QED
        BY <4>2 DEF b
    <3> QED
      BY ONLY <3>2 DEF Keeps
  <2>6. Finds(m, d, r, d1, i)
    BY <1>4, <1>5, <1>k, <2>1, <2>2, <2>3, <2>4 DEF Finds
  <2>7. IsLast(r.cs, i) => Len(U.ci) = d[i] /\ U.nC = e[i]
    <3> SUFFICES ASSUME IsLast(r.cs, i) PROVE IsLast(m.cs, i)
      BY <1>l, <2>1
    <3>1. i # R
      BY <1>1, <1>4, <1>6
    <3>2. i + 1 \in 1 .. R /\ r.cs[i + 1].k = "resume"
      BY <1>1, <1>2, <3>1 DEF IsLast
    <3>3. i + 1 \in 1 .. n
      BY <1>b, <1>h, <3>2
    <3>4. r.cs[i + 1] = m.cs[i + 1]
      BY <1>a, <3>3
    <3> QED
      BY <3>2, <3>4 DEF IsLast
  <2> QED
    BY <1>1, <1>2, <1>3, <1>4, <2>6, <2>7, ActivationKept
(* And of the thread that runs.                                            *)
<1>7. CASE a.t = t
  <2>0. /\ FramesInv(U) /\ U.baseC = T.baseC /\ Keeps(T.stk, U.stk, p - 1)
        /\ q \in Nat /\ q <= Len(U.ci) /\ q <= Len(T.ci) /\ d[i] <= Len(U.ci)
        /\ \A j \in 1 .. q : U.ci[j].base = T.ci[j].base /\ U.ci[j].func = T.ci[j].func
        /\ \A j \in 1 .. Len(U.ci) : /\ j <= Len(T.ci) => U.ci[j].lua = T.ci[j].lua
                                     /\ q < j => p <= U.ci[j].func
        /\ Owns(a) => d[i] <= q /\ Floor(a) <= p
        /\ \A j \in n + 1 .. R : r.cs[j].t = t /\ (Owns(r.cs[j]) => p <= Floor(r.cs[j]))
    BY <1>7, <1>a, <1>b, <1>e, <1>f, <1>g
  <2>n. q \in Nat /\ q <= Len(U.ci) /\ q <= Len(T.ci) /\ d[i] <= Len(U.ci)
    BY <2>0
  <2>1. ASSUME Owns(a)
        PROVE  /\ Keeps(T.stk, U.stk, Floor(a) - 1)
               /\ U.ci[d[i]].base = T.ci[d[i]].base
               /\ \A j \in DOMAIN U.ci : d[i] < j => Floor(a) <= U.ci[j].func
               /\ \A j \in DOMAIN r.cs : i < j /\ Owns(r.cs[j]) /\ r.cs[j].t = a.t =>
                    Floor(a) <= Floor(r.cs[j])
    <3>0. Floor(a) \in Nat /\ d[i] <= q /\ Floor(a) <= p
      BY <1>j, <2>0, <2>1
    <3>1. d[i] \in 1 .. q
      BY ONLY <1>m, <2>n, <3>0
    <3>3. Keeps(T.stk, U.stk, Floor(a) - 1)
      <4>1. p - 1 <= Len(T.stk) /\ p - 1 <= Len(U.stk)
            /\ \A j \in 1 .. p - 1 : U.stk[j] = T.stk[j]
        BY <2>0 DEF Keeps
      <4>2. Floor(a) - 1 <= p - 1 /\ \A j \in 1 .. Floor(a) - 1 : j \in 1 .. p - 1
        BY <3>0
      <4>3. Floor(a) - 1 <= Len(T.stk) /\ Floor(a) - 1 <= Len(U.stk)
        <5> DEFINE b == Floor(a)
        <5> HIDE DEF b
        <5>1. b \in Nat /\ b <= p /\ p \in Nat
          BY <3>0 DEF b
        <5>2. b - 1 <= Len(T.stk) /\ b - 1 <= Len(U.stk)
          BY ONLY <1>m, <4>1, <5>1
        <5> QED
          BY <5>2 DEF b
      <4> QED
        BY ONLY <4>1, <4>2, <4>3 DEF Keeps
    <3>4. ASSUME NEW j \in 1 .. Len(U.ci), d[i] < j PROVE Floor(a) <= U.ci[j].func
      <4>1. CASE j <= q
        <5>1. j \in 1 .. q /\ j \in DOMAIN T.ci
          BY ONLY <1>5, <1>m, <2>n, <3>4, <4>1, j \in 1 .. Len(U.ci)
        <5>2. U.ci[j].func = T.ci[j].func
          BY <2>0, <5>1
        <5> QED
          BY <1>k, <2>1, <3>4, <5>1, <5>2
      <4>2. CASE q < j
        <5>1. p <= U.ci[j].func
          BY <2>0, <4>2
        <5>2. U.ci[j].func \in Nat
          BY <1>5, <2>0, FramesFacts
        <5> DEFINE b == Floor(a)
                   x == U.ci[j].func
        <5> HIDE DEF b, x
        <5>3. b \in Nat /\ b <= p /\ p \in Nat /\ p <= x /\ x \in Nat
          BY <3>0, <5>1, <5>2 DEF b, x
        <5>4. b <= x
          BY ONLY <5>3
        <5> QED
          BY <5>4 DEF b, x
      <4>3. j <= q \/ q < j
        BY ONLY <1>m, <2>n, j \in 1 .. Len(U.ci)
      <4> QED
        BY <4>1, <4>2, <4>3
    <3>5. ASSUME NEW j \in 1 .. R, i < j, Owns(r.cs[j]), r.cs[j].t = a.t
          PROVE  Floor(a) <= Floor(r.cs[j])
      <4>1. CASE j \in 1 .. n
        <5>1. r.cs[j] = m.cs[j] /\ j \in DOMAIN m.cs
          BY <1>1, <1>a, <1>i, <4>1
        <5> QED
          BY <1>k, <2>1, <3>5, <5>1
      <4>2. CASE j \in n + 1 .. R
        <5>1. p <= Floor(r.cs[j])
          BY <2>0, <3>5, <4>2
        <5>2. r.cs[j] \in Activation
          BY <1>1, StackFacts
        <5>3. Floor(r.cs[j]) \in Nat
          BY <3>5, <5>2, ActivationFacts
        <5> QED
          BY <3>0, <5>1, <5>3
      <4> QED
        BY <1>h, <4>1, <4>2
    <3>6. U.ci[d[i]].base = T.ci[d[i]].base
      BY <2>0, <3>1
    <3> QED
      BY <1>1, <1>5, <3>3, <3>4, <3>5, <3>6
  <2>3. ASSUME NEW j \in DOMAIN T.ci, j <= d[i] PROVE U.ci[j].lua = T.ci[j].lua
    <3>1. j \in 1 .. Len(U.ci) /\ j <= Len(T.ci)
      BY ONLY <1>5, <1>m, <2>n, <2>3, j \in DOMAIN T.ci
    <3> QED
      BY <2>0, <3>1
  <2>4. a.k = "resume" => r.th["co"].baseC = m.th["co"].baseC
    BY <1>j, <2>0
  <2>5. d[i] \in DOMAIN U.ci
    BY ONLY <1>5, <1>m, <2>n
  <2>6. Finds(m, d, r, d1, i)
    BY <1>4, <2>1, <2>3, <2>4, <2>5 DEF Finds
  <2>7. ASSUME IsLast(r.cs, i) PROVE Len(U.ci) = d[i] /\ U.nC = e[i]
    <3>1. i = R
      <4> SUFFICES ASSUME i # R PROVE FALSE
        OBVIOUS
      <4>1. i + 1 \in 1 .. R /\ r.cs[i + 1].k = "resume" /\ i + 1 \in 2 .. R /\ (i + 1) - 1 = i
        BY <1>1, <1>2, <2>7 DEF IsLast
      <4>2. i + 1 \in 1 .. n
        BY <1>b, <1>h, <4>1
      <4>3. Above(r.cs[i], r.cs[i + 1])
        <5>1. \A j \in 2 .. R : Above(r.cs[j - 1], r.cs[j])
          BY <1>1, StackFacts
        <5> QED
          BY <4>1, <5>1
      <4>4. a.t # r.cs[i + 1].t
        BY <1>4, <4>1, <4>3 DEF Above
      <4>5. r.cs[i + 1] \in Activation
        BY <1>1, <4>1, StackFacts
      <4>6. r.cs[i + 1].t = "co"
        BY <4>1, <4>5, ActivationFacts
      <4>7. m.cs[i + 1].t = "co" /\ i + 1 \in 1 .. L
        BY <1>a, <1>i, <4>2, <4>6
      <4>8. \A j \in 1 .. L : i + 1 < j => m.cs[j].t = "co"
        <5>1. \A u \in 1 .. L : m.cs[u].t = "co" =>
                \A j \in 1 .. L : u < j => m.cs[j].t = "co"
          BY <1>1, StackFacts
        <5> QED
          BY <4>7, <5>1
      <4>9. L \in 1 .. L /\ (i + 1 = L \/ i + 1 < L)
        BY <4>7, <1>1
      <4>10. t = "co"
        BY <1>1, <4>7, <4>8, <4>9
      <4> QED
        BY <1>7, <4>4, <4>6, <4>10
    <3>2. n = R /\ i = n
      BY <1>1, <3>1
    <3> QED
      BY <1>7, <1>d, <3>2
  <2> QED
    BY <1>1, <1>2, <1>3, <1>4, <2>6, <2>7, ActivationKept
<1> QED
  BY <1>6, <1>7

LEMMA QuietAnswers ==
  ASSUME NEW C, AtRest(C, NoOne), NEW a
  PROVE  AtRest(C, a)
  BY DEF AtRest, NoOne

(* A thread runs "co" just when a resume is on the C stack.                *)
LEMMA RunsCo ==
  ASSUME NEW s \in Seq(Activation), NEW d, NEW e, StackInv(s, d, e)
  PROVE  Runs(s) <=> Last(s).t = "co"
<1>1. /\ Len(s) \in Nat \ {0} /\ DOMAIN s = 1 .. Len(s) /\ Last(s) = s[Len(s)]
      /\ \A i \in 1 .. Len(s) : s[i] \in Activation
      /\ \A i \in 1 .. Len(s) : s[i].t = "co" =>
           /\ \E j \in 1 .. Len(s) : j <= i /\ s[j].k = "resume"
           /\ \A j \in 1 .. Len(s) : i < j => s[j].t = "co" /\ s[j].k # "resume"
  BY StackFacts
<1>2. ASSUME Last(s).t = "co" PROVE Runs(s)
  <2>1. Len(s) \in 1 .. Len(s) /\ s[Len(s)].t = "co"
    BY <1>1, <1>2
  <2> QED
    BY <1>1, <2>1 DEF Runs
<1>3. ASSUME Runs(s) PROVE Last(s).t = "co"
  <2>1. PICK i \in 1 .. Len(s) : s[i].k = "resume"
    BY <1>1, <1>3 DEF Runs
  <2>2. s[i].t = "co"
    BY <1>1, <2>1, ActivationFacts
  <2>3. Len(s) \in 1 .. Len(s)
    BY <1>1
  <2>4. CASE i < Len(s)
    BY <1>1, <2>2, <2>3, <2>4
  <2>5. CASE i = Len(s)
    BY <1>1, <2>2, <2>5
  <2>6. i < Len(s) \/ i = Len(s)
    <3>1. i \in Nat /\ i <= Len(s) /\ Len(s) \in Nat
      BY <1>1
    <3> QED
      BY ONLY <3>1
  <2> QED
    BY <2>4, <2>5, <2>6
<1> QED
  BY <1>2, <1>3

LEMMA MovesInv ==
  ASSUME NEW m, NEW d, NEW e, Inv(m, d, e), Quiet(m), NEW r, NEW d1, NEW e1,
         NEW n \in Nat, NEW p \in Nat, NEW q \in Nat, Moves(m, d, e, r, d1, e1, n, p, q),
         \A i \in n + 1 .. Len(r.cs) : ActivationInv(r, d1, e1, i)
  PROVE  Inv(r, d1, e1) /\ Quiet(r)
<1> DEFINE t == Last(m.cs).t
           C == m.th["co"]
           K == r.th["co"]
<1>1. /\ m \in State /\ r \in State /\ StackInv(m.cs, d, e) /\ StackInv(r.cs, d1, e1)
      /\ m.cs \in Seq(Activation) /\ r.cs \in Seq(Activation) /\ t \in Threads
      /\ Last(r.cs).t = t
  BY RunningFacts DEF Inv, Moves, State
<1>2. /\ FramesInv(r.th[t]) /\ r.th[t].status = m.th[t].status
      /\ r.th[t].baseC = m.th[t].baseC
      /\ \A u \in Threads : u # t => r.th[u] = m.th[u]
  BY DEF Moves
<1>3. \A i \in DOMAIN r.cs : ActivationInv(r, d1, e1, i)
  <2>1. \A i \in 1 .. n : ActivationInv(r, d1, e1, i)
    BY MovesKeeps
  <2>2. \A i \in DOMAIN r.cs : i \in 1 .. n \/ i \in n + 1 .. Len(r.cs)
    BY <1>1, LenProperties
  <2> QED
    BY <2>1, <2>2
<1>4. (Runs(m.cs) <=> t = "co") /\ (Runs(r.cs) <=> t = "co")
  BY <1>1, RunsCo
<1>5. FramesInv(r.th["main"]) /\ r.th["main"].baseC = 0
  BY <1>1, <1>2 DEF Inv, Threads
<1>6. CoroutineInv(m)
  BY DEF Inv
<1>7. CoroutineInv(r) /\ Quiet(r)
  <2>1. CASE t = "co"
    <3>1. Runs(m.cs) /\ C.ci # <<>> /\ C.status = "ok" /\ Runs(r.cs)
      BY <1>4, <1>6, <2>1 DEF CoroutineInv
    <3>2. K.ci # <<>> /\ FramesInv(K) /\ K.status = "ok"
      BY <1>2, <2>1, <3>1 DEF FramesInv
    <3> QED
      BY <3>1, <3>2 DEF CoroutineInv, Quiet
  <2>2. CASE t = "main"
    <3>1. K = C /\ ~Runs(m.cs) /\ ~Runs(r.cs)
      BY <1>2, <1>4, <2>2 DEF Threads
    <3>2. C.ci # <<>> => AtRest(K, NoOne)
      BY <3>1 DEF Quiet
    <3>3. C.ci # <<>> => AtRest(K, Last(r.cs))
      BY <3>2, QuietAnswers
    <3>4. C.ci = <<>> => C = [NewThread EXCEPT !.stk = <<>>, !.ci = <<>>]
      BY <1>6 DEF CoroutineInv
    <3>5. C.ci # <<>> => FramesInv(C)
      BY <1>6 DEF CoroutineInv
    <3> QED
      BY <3>1, <3>2, <3>3, <3>4, <3>5 DEF CoroutineInv, Quiet
  <2> QED
    BY <1>1, <2>1, <2>2 DEF Threads
<1> QED
  BY <1>1, <1>3, <1>5, <1>7 DEF Inv

-----------------------------------------------------------------------------
(* The frames of a thread after a step                                     *)

(* A frame after a step that keeps the slots below its callees.            *)
LEMMA UnderKept ==
  ASSUME NEW T \in Thread, FramesInv(T), NEW U \in Thread, NEW p \in Nat,
         Keeps(T.stk, U.stk, p - 1), NEW i \in 1 .. Len(T.ci), T.ci[i].func < p
  PROVE  SubSeq(U.stk, 1, T.ci[i].func) = T.ci[i].under
<1>1. /\ T.stk \in Seq(Value) /\ U.stk \in Seq(Value) /\ i \in DOMAIN T.ci
      /\ T.ci[i].func \in Nat
  BY FramesFacts DEF Thread
<1>2. SubSeq(T.stk, 1, T.ci[i].func) = T.ci[i].under
  BY <1>1 DEF FramesInv, FrameInv
<1> DEFINE n == p - 1
           j == T.ci[i].func
<1>3. n \in Nat /\ j \in Int /\ j <= n
  BY <1>1
<1>4. Keeps(T.stk, U.stk, n)
  OBVIOUS
<1> HIDE DEF n
<1>5. SubSeq(T.stk, 1, j) = SubSeq(U.stk, 1, j)
  BY <1>1, <1>3, <1>4, KeptBelow
<1> QED
  BY <1>2, <1>5

LEMMA FramesFrom ==
  ASSUME NEW U \in Thread, NEW n \in Nat \ {0}, Len(U.ci) = n,
         U.ci[1].base = 2, ~U.ci[1].lua,
         U.base = U.ci[n].base, Len(U.stk) >= Low(U.ci[n]) - 1,
         U.open = UNION {U.ci[i].captured : i \in 1 .. n}, n <= SizeCI(U),
         \A i \in 1 .. n :
           /\ 0 < U.ci[i].func /\ U.ci[i].func < U.ci[i].base
           /\ U.ci[i].lua => U.ci[i].top > U.ci[i].base
           /\ U.ci[i].captured \subseteq (IF U.ci[i].lua THEN {U.ci[i].base} ELSE {})
           /\ SubSeq(U.stk, 1, U.ci[i].func) = U.ci[i].under,
         \A i, j \in 1 .. n : i < j => Low(U.ci[i]) <= U.ci[j].func
  PROVE  FramesInv(U)
<1>1. U.ci \in Seq(CallInfo)
  BY DEF Thread
<1>2. DOMAIN U.ci = 1 .. n /\ U.ci # <<>>
  BY <1>1, LenProperties, EmptySeq
<1>3. Frame(U) = U.ci[n]
  BY <1>1, <1>2, LastOf DEF Frame
<1>4. \A i \in DOMAIN U.ci : FrameInv(U, i)
  BY <1>2 DEF FrameInv
<1> QED
  BY <1>2, <1>3, <1>4 DEF FramesInv

(* What a frame is, in T.                                                  *)
LEMMA FrameFacts ==
  ASSUME NEW T \in Thread, FramesInv(T), NEW i \in 1 .. Len(T.ci)
  PROVE  /\ 0 < T.ci[i].func /\ T.ci[i].func < T.ci[i].base
         /\ T.ci[i].lua => T.ci[i].top > T.ci[i].base
         /\ T.ci[i].captured \subseteq (IF T.ci[i].lua THEN {T.ci[i].base} ELSE {})
         /\ SubSeq(T.stk, 1, T.ci[i].func) = T.ci[i].under
         /\ Low(T.ci[i]) = (IF T.ci[i].lua THEN T.ci[i].base + 1 ELSE T.ci[i].base)
<1>1. FrameInv(T, i)
  BY FramesFacts DEF FramesInv
<1> QED
  BY <1>1 DEF FrameInv, Low

(* The same frames: only what they may grow to and share changes.          *)
Alike(T, U) ==
  /\ Len(U.ci) = Len(T.ci) /\ U.base = T.base /\ Len(U.ci) <= SizeCI(U)
  /\ U.open = UNION {U.ci[i].captured : i \in 1 .. Len(U.ci)}
  /\ \A i \in 1 .. Len(T.ci) :
       /\ U.ci[i].func = T.ci[i].func /\ U.ci[i].base = T.ci[i].base
       /\ U.ci[i].lua = T.ci[i].lua /\ U.ci[i].under = T.ci[i].under
       /\ U.ci[i].lua => U.ci[i].top > U.ci[i].base
       /\ U.ci[i].captured \subseteq (IF U.ci[i].lua THEN {U.ci[i].base} ELSE {})

LEMMA FramesAlike ==
  ASSUME NEW T \in Thread, FramesInv(T), NEW U \in Thread, Alike(T, U),
         NEW p \in Nat, Low(Frame(T)) <= p, Keeps(T.stk, U.stk, p - 1)
  PROVE  FramesInv(U)
<1> DEFINE n == Len(T.ci)
<1>1. /\ n \in Nat \ {0} /\ Frame(T) = T.ci[n] /\ T.ci[1].base = 2 /\ ~T.ci[1].lua
      /\ T.base = T.ci[n].base /\ n \in 1 .. n /\ 1 \in 1 .. n
  BY FramesFacts DEF FramesInv
<1>2. \A i \in 1 .. n : /\ T.ci[i].func \in Nat /\ Low(T.ci[i]) \in Nat
                        /\ T.ci[i].func < Low(T.ci[i])
  BY FramesFacts
<1>3. \A i, j \in 1 .. n : i < j => Low(T.ci[i]) <= T.ci[j].func /\ Low(T.ci[i]) < Low(T.ci[j])
  BY FramesFacts
<1>4. /\ Len(U.ci) = n /\ U.base = T.base /\ n <= SizeCI(U)
      /\ U.open = UNION {U.ci[i].captured : i \in 1 .. n}
  BY DEF Alike
<1>5. \A i \in 1 .. n :
        /\ U.ci[i].func = T.ci[i].func /\ U.ci[i].base = T.ci[i].base
        /\ U.ci[i].lua = T.ci[i].lua /\ U.ci[i].under = T.ci[i].under
        /\ U.ci[i].lua => U.ci[i].top > U.ci[i].base
        /\ U.ci[i].captured \subseteq (IF U.ci[i].lua THEN {U.ci[i].base} ELSE {})
        /\ Low(U.ci[i]) = Low(T.ci[i])
  BY DEF Alike, Low
<1>6. \A i \in 1 .. n : SubSeq(U.stk, 1, U.ci[i].func) = U.ci[i].under
  <2> TAKE i \in 1 .. n
  <2>1. T.ci[i].func < p
    <3>1. CASE i = n
      BY <1>1, <1>2, <3>1
    <3>2. CASE i < n
      BY <1>1, <1>2, <1>3, <3>2
    <3>3. i = n \/ i < n
      BY <1>1
    <3> QED
      BY <3>1, <3>2, <3>3
  <2> QED
    BY <1>5, <2>1, UnderKept
<1>7. Len(U.stk) >= Low(U.ci[n]) - 1
  <2>1. Low(U.ci[n]) = Low(T.ci[n]) /\ Low(T.ci[n]) \in Nat
    BY <1>1, <1>2, <1>5
  <2>2. p - 1 <= Len(U.stk) /\ Len(U.stk) \in Nat
    BY LenProperties DEF Keeps, Thread
  <2>3. Low(T.ci[n]) <= p
    BY <1>1
  <2> QED
    BY ONLY <2>1, <2>2, <2>3, p \in Nat
<1>8. \A i, j \in 1 .. n : i < j => Low(U.ci[i]) <= U.ci[j].func
  BY <1>3, <1>5
<1>9. \A i \in 1 .. n : 0 < U.ci[i].func /\ U.ci[i].func < U.ci[i].base
  BY <1>5, FrameFacts
<1> HIDE DEF n
<1> QED
  BY <1>1, <1>4, <1>5, <1>6, <1>7, <1>8, <1>9, FramesFrom

(* The frames up to n are left, with the slots below p.                    *)
LEMMA FramesCut ==
  ASSUME NEW T \in Thread, FramesInv(T), NEW U \in Thread, NEW n \in 1 .. Len(T.ci),
         U.ci = SubSeq(T.ci, 1, n), U.base = T.ci[n].base, n <= SizeCI(U),
         U.open = UNION {T.ci[i].captured : i \in 1 .. n},
         NEW p \in Nat, Low(T.ci[n]) <= p, Keeps(T.stk, U.stk, p - 1)
  PROVE  FramesInv(U)
<1>1. /\ n \in Nat \ {0} /\ T.ci[1].base = 2 /\ ~T.ci[1].lua /\ n \in 1 .. n /\ 1 \in 1 .. n
      /\ \A i \in 1 .. n : i \in 1 .. Len(T.ci)
  BY FramesFacts DEF FramesInv
<1>2. \A i \in 1 .. n : /\ T.ci[i].func \in Nat /\ Low(T.ci[i]) \in Nat
                        /\ T.ci[i].func < Low(T.ci[i])
  BY <1>1, FramesFacts
<1>3. \A i, j \in 1 .. n : i < j => Low(T.ci[i]) <= T.ci[j].func /\ Low(T.ci[i]) < Low(T.ci[j])
  BY <1>1, FramesFacts
<1>4. Len(U.ci) = n /\ \A i \in 1 .. n : U.ci[i] = T.ci[i]
  BY <1>1, Prefix, FramesFacts
<1>5. \A i \in 1 .. n : SubSeq(U.stk, 1, U.ci[i].func) = U.ci[i].under
  <2> TAKE i \in 1 .. n
  <2>1. T.ci[i].func < p
    <3>1. CASE i = n
      BY <1>1, <1>2, <3>1
    <3>2. CASE i < n
      <4>1. T.ci[i].func < Low(T.ci[i]) /\ Low(T.ci[i]) < Low(T.ci[n]) /\ Low(T.ci[n]) <= p
        BY <1>1, <1>2, <1>3, <3>2
      <4>2. T.ci[i].func \in Nat /\ Low(T.ci[i]) \in Nat /\ Low(T.ci[n]) \in Nat
        BY <1>1, <1>2
      <4> QED
        BY ONLY <4>1, <4>2, p \in Nat
    <3>3. i = n \/ i < n
      BY <1>1
    <3> QED
      BY <3>1, <3>2, <3>3
  <2> QED
    BY <1>1, <1>4, <2>1, UnderKept
<1>6. Len(U.stk) >= Low(U.ci[n]) - 1
  <2>1. Low(U.ci[n]) = Low(T.ci[n]) /\ Low(T.ci[n]) \in Nat
    BY <1>1, <1>2, <1>4
  <2>2. p - 1 <= Len(U.stk) /\ Len(U.stk) \in Nat
    BY LenProperties DEF Keeps, Thread
  <2>3. Low(T.ci[n]) <= p
    BY <1>1
  <2> QED
    BY ONLY <2>1, <2>2, <2>3, p \in Nat
<1>7. \A i, j \in 1 .. n : i < j => Low(U.ci[i]) <= U.ci[j].func
  BY <1>3, <1>4
<1>8. \A i \in 1 .. n :
        /\ 0 < U.ci[i].func /\ U.ci[i].func < U.ci[i].base
        /\ U.ci[i].lua => U.ci[i].top > U.ci[i].base
        /\ U.ci[i].captured \subseteq (IF U.ci[i].lua THEN {U.ci[i].base} ELSE {})
  BY <1>1, <1>4, FrameFacts
<1>9. U.open = UNION {U.ci[i].captured : i \in 1 .. n}
  BY <1>4
<1>10. U.ci[1].base = 2 /\ ~U.ci[1].lua /\ U.base = U.ci[n].base
  BY <1>1, <1>4
<1> QED
  BY <1>1, <1>4, <1>5, <1>6, <1>7, <1>8, <1>9, <1>10, FramesFrom

(* luaF_close closes what the frames left out had shared.                  *)
LEMMA OpenCut ==
  ASSUME NEW T \in Thread, FramesInv(T), NEW n \in 0 .. Len(T.ci), NEW p \in Nat,
         \A i \in 1 .. n : Low(T.ci[i]) <= p,
         \A i \in n + 1 .. Len(T.ci) : p <= T.ci[i].base
  PROVE  {x \in T.open : x < p} = UNION {T.ci[i].captured : i \in 1 .. n}
<1> DEFINE L == Len(T.ci)
<1>1. /\ L \in Nat /\ n \in Nat /\ n <= L /\ DOMAIN T.ci = 1 .. L
      /\ T.open = UNION {T.ci[i].captured : i \in 1 .. L}
      /\ \A i \in 1 .. L : T.ci[i].base \in Nat
  <2>1. /\ L \in Nat /\ DOMAIN T.ci = 1 .. L /\ \A i \in 1 .. L : T.ci[i].base \in Nat
    BY FramesFacts
  <2>2. T.open = UNION {T.ci[i].captured : i \in DOMAIN T.ci}
    BY DEF FramesInv
  <2> QED
    BY <2>1, <2>2
<1>2. ASSUME NEW x, NEW i \in 1 .. L, x \in T.ci[i].captured
      PROVE  x = T.ci[i].base /\ Low(T.ci[i]) = T.ci[i].base + 1
  BY <1>2, FrameFacts
<1>3. ASSUME NEW x \in T.open, x < p PROVE \E i \in 1 .. n : x \in T.ci[i].captured
  <2>1. PICK i \in 1 .. L : x \in T.ci[i].captured
    BY <1>1
  <2>2. x = T.ci[i].base /\ x \in Nat
    BY <1>1, <1>2, <2>1
  <2>3. i \notin n + 1 .. L
    BY <1>3, <2>2
  <2>4. i \in 1 .. n
    BY <1>1, <2>3
  <2> QED
    BY <2>1, <2>4
<1>4. ASSUME NEW i \in 1 .. n, NEW x \in T.ci[i].captured PROVE x \in T.open /\ x < p
  <2>1. i \in 1 .. L
    BY <1>1
  <2>2. x \in T.open
    BY <1>1, <2>1
  <2>3. x = T.ci[i].base /\ Low(T.ci[i]) = T.ci[i].base + 1 /\ T.ci[i].base \in Nat
    BY <1>1, <1>2, <2>1
  <2>4. Low(T.ci[i]) <= p
    OBVIOUS
  <2>5. x < p
    BY ONLY <2>3, <2>4, p \in Nat
  <2> QED
    BY <2>2, <2>5
<1> QED
  BY <1>3, <1>4

(* One frame more.                                                         *)
LEMMA FramesNew ==
  ASSUME NEW T \in Thread, FramesInv(T), NEW U \in Thread, NEW c \in CallInfo,
         U.ci = Append(T.ci, c), U.base = c.base, Len(T.ci) < SizeCI(U), U.open = T.open,
         Low(Frame(T)) <= c.func, c.func < c.base, c.lua => c.top > c.base, c.captured = {},
         c.under = SubSeq(U.stk, 1, c.func), Len(U.stk) >= Low(c) - 1,
         Keeps(T.stk, U.stk, c.func - 1)
  PROVE  FramesInv(U)
<1> DEFINE n == Len(T.ci)
           p == c.func
<1>1. /\ n \in Nat \ {0} /\ Frame(T) = T.ci[n] /\ T.ci[1].base = 2 /\ ~T.ci[1].lua
      /\ n \in 1 .. n /\ 1 \in 1 .. n /\ c.func \in Nat /\ T.ci \in Seq(CallInfo)
      /\ DOMAIN T.ci = 1 .. n
  <2>1. c.func \in Nat /\ T.ci[1].base = 2 /\ ~T.ci[1].lua
    BY DEF CallInfo, FramesInv
  <2>2. n \in Nat \ {0} /\ Frame(T) = T.ci[n] /\ T.ci \in Seq(CallInfo) /\ DOMAIN T.ci = 1 .. n
    BY FramesFacts
  <2>3. n \in 1 .. n /\ 1 \in 1 .. n
    BY <2>2
  <2> QED
    BY <2>1, <2>2, <2>3
<1>2. \A i \in 1 .. n : /\ T.ci[i].func \in Nat /\ Low(T.ci[i]) \in Nat
                        /\ T.ci[i].func < Low(T.ci[i])
  BY FramesFacts
<1>3. \A i, j \in 1 .. n : i < j => Low(T.ci[i]) <= T.ci[j].func /\ Low(T.ci[i]) < Low(T.ci[j])
  BY FramesFacts
<1>4. /\ Len(U.ci) = n + 1 /\ \A i \in 1 .. n : U.ci[i] = T.ci[i]
      /\ U.ci[n + 1] = c
  BY <1>1, Appended
<1>5. \A i \in 1 .. n : Low(T.ci[i]) <= c.func
  <2> TAKE i \in 1 .. n
  <2>1. CASE i = n
    BY <1>1, <2>1
  <2>2. CASE i < n
    <3>1. Low(T.ci[i]) < Low(T.ci[n]) /\ Low(T.ci[n]) <= c.func
      BY <1>1, <1>3, <2>2
    <3>2. c.func \in Nat /\ Low(T.ci[i]) \in Nat /\ Low(T.ci[n]) \in Nat
      BY <1>1, <1>2
    <3> QED
      BY ONLY <3>1, <3>2
  <2>3. i = n \/ i < n
    BY <1>1
  <2> QED
    BY <2>1, <2>2, <2>3
<1>6. \A i \in 1 .. n + 1 : i \in 1 .. n \/ i = n + 1
  BY <1>1
<1>7. \A i \in 1 .. n + 1 : SubSeq(U.stk, 1, U.ci[i].func) = U.ci[i].under
  <2> TAKE i \in 1 .. n + 1
  <2>1. CASE i \in 1 .. n
    <3>1. T.ci[i].func < p
      BY <1>1, <1>2, <1>5, <2>1
    <3> QED
      BY <1>1, <1>4, <2>1, <3>1, UnderKept
  <2>2. CASE i = n + 1
    BY <1>4, <2>2
  <2> QED
    BY <1>6, <2>1, <2>2
<1>8. \A i, j \in 1 .. n + 1 : i < j => Low(U.ci[i]) <= U.ci[j].func
  <2> SUFFICES ASSUME NEW i \in 1 .. n + 1, NEW j \in 1 .. n + 1, i < j
               PROVE  Low(U.ci[i]) <= U.ci[j].func
    OBVIOUS
  <2>1. i \in 1 .. n
    BY <1>1
  <2>2. CASE j \in 1 .. n
    BY <1>3, <1>4, <2>1, <2>2
  <2>3. CASE j = n + 1
    BY <1>4, <1>5, <2>1, <2>3
  <2> QED
    BY <1>6, <2>2, <2>3
<1>9. \A i \in 1 .. n + 1 :
        /\ 0 < U.ci[i].func /\ U.ci[i].func < U.ci[i].base
        /\ U.ci[i].lua => U.ci[i].top > U.ci[i].base
        /\ U.ci[i].captured \subseteq (IF U.ci[i].lua THEN {U.ci[i].base} ELSE {})
  <2> TAKE i \in 1 .. n + 1
  <2>1. CASE i \in 1 .. n
    BY <1>4, <2>1, FrameFacts
  <2>2. CASE i = n + 1
    <3>1. 0 < c.func
      BY <1>1, <1>2, <1>5
    <3> QED
      BY <1>4, <2>2, <3>1
  <2> QED
    BY <1>6, <2>1, <2>2
<1>10. U.open = UNION {U.ci[i].captured : i \in 1 .. n + 1}
  <2>1. T.open = UNION {T.ci[i].captured : i \in 1 .. n}
    BY <1>1 DEF FramesInv
  <2>2. ASSUME NEW x \in T.open PROVE \E i \in 1 .. n + 1 : x \in U.ci[i].captured
    <3>1. PICK i \in 1 .. n : x \in T.ci[i].captured
      BY <2>1
    <3>2. i \in 1 .. n + 1 /\ U.ci[i] = T.ci[i]
      BY <1>1, <1>4
    <3> QED
      BY <3>1, <3>2
  <2>3. ASSUME NEW i \in 1 .. n + 1, NEW x \in U.ci[i].captured PROVE x \in T.open
    <3>1. i \in 1 .. n
      BY <1>4, <1>6
    <3> QED
      BY <1>4, <2>1, <3>1
  <2> QED
    BY <2>2, <2>3
<1>11. n + 1 \in Nat \ {0} /\ n + 1 <= SizeCI(U)
  <2>1. SizeCI(U) \in Nat
    BY LimitsOrdered DEF SizeCI
  <2> QED
    BY <1>1, <2>1
<1>12. U.ci[1].base = 2 /\ ~U.ci[1].lua /\ U.base = U.ci[n + 1].base
       /\ Len(U.stk) >= Low(U.ci[n + 1]) - 1
  BY <1>1, <1>4
<1> HIDE DEF n
<1> QED
  BY <1>4, <1>7, <1>8, <1>9, <1>10, <1>11, <1>12, FramesFrom

-----------------------------------------------------------------------------
(* Parts of steps                                                          *)

(* Between two steps only the top may be a call that is to begin.          *)
Begun(m) == Last(m.cs).k = "call" => Last(m.cs).pc = "in"

LEMMA ActivationsBelow ==
  ASSUME NEW m, NEW d, NEW e, Inv(m, d, e)
  PROVE  /\ \A i \in 1 .. Len(m.cs) :
              /\ m.cs[i] \in Activation
              /\ d[i] \in Nat /\ e[i] \in Nat
              /\ i < Len(m.cs) /\ m.cs[i].k = "call" => m.cs[i].pc = "in"
              /\ m.cs[i].t = Last(m.cs).t => 1 <= d[i] /\ d[i] <= Len(Running(m).ci)
         /\ Begun(m) => \A i \in 1 .. Len(m.cs) : m.cs[i].k = "call" => m.cs[i].pc = "in"
<1> DEFINE L == Len(m.cs)
<1>1. /\ m \in State /\ m.cs \in Seq(Activation) /\ L \in Nat \ {0} /\ DOMAIN m.cs = 1 .. L
      /\ Last(m.cs) = m.cs[L] /\ StackInv(m.cs, d, e) /\ Last(m.cs).t \in Threads
  BY RunningFacts DEF Inv
<1>2. \A i \in 1 .. L : m.cs[i] \in Activation /\ d[i] \in Nat /\ e[i] \in Nat
  BY <1>1, StackFacts
<1>3. ASSUME NEW i \in 1 .. L, i < L, m.cs[i].k = "call" PROVE m.cs[i].pc = "in"
  <2>1. \A j \in 2 .. L : Above(m.cs[j - 1], m.cs[j])
    BY <1>1, StackFacts
  <2>2. i + 1 \in 2 .. L /\ (i + 1) - 1 = i
    BY <1>1, <1>3
  <2>3. Above(m.cs[i], m.cs[i + 1])
    BY <2>1, <2>2
  <2> QED
    BY <1>3, <2>3 DEF Above
<1>4. ASSUME NEW i \in 1 .. L, m.cs[i].t = Last(m.cs).t
      PROVE  1 <= d[i] /\ d[i] <= Len(Running(m).ci)
  <2>1. ActivationInv(m, d, e, i)
    BY <1>1 DEF Inv
  <2>2. d[i] \in DOMAIN Running(m).ci
    BY <1>4, <2>1 DEF ActivationInv, Running
  <2>3. DOMAIN Running(m).ci = 1 .. Len(Running(m).ci) /\ Len(Running(m).ci) \in Nat
    BY <1>1, ThreadFacts DEF Running
  <2> QED
    BY <2>2, <2>3
<1>5. ASSUME Begun(m), NEW i \in 1 .. L, m.cs[i].k = "call" PROVE m.cs[i].pc = "in"
  <2>1. i = L \/ i < L
    BY <1>1
  <2> QED
    BY <1>1, <1>3, <1>5, <2>1 DEF Begun
<1> QED
  BY <1>2, <1>3, <1>4, <1>5

(* The frames as they are, the stack from slot p on as it may be.          *)
LEMMA Written ==
  ASSUME NEW m, NEW d, NEW e, Inv(m, d, e), Quiet(m), Begun(m), NEW p, AboveAll(m, p),
         NEW U \in Thread, Alike(Running(m), U), Keeps(Running(m).stk, U.stk, p - 1),
         U.nC = Running(m).nC, U.status = Running(m).status, U.baseC = Running(m).baseC
  PROVE  LET r == Update(m, Last(m.cs).t, U)
         IN  /\ Inv(r, d, e) /\ Quiet(r) /\ Begun(r) /\ AboveAll(r, p)
             /\ r.cs = m.cs /\ Running(r) = U /\ Last(r.cs).t = Last(m.cs).t
<1> DEFINE L == Len(m.cs)
           t == Last(m.cs).t
           r == Update(m, t, U)
           T == Running(m)
           q == Len(T.ci)
<1>1. /\ m \in State /\ m.cs \in Seq(Activation) /\ L \in Nat \ {0}
      /\ Last(m.cs) = m.cs[L] /\ StackInv(m.cs, d, e) /\ t \in Threads
      /\ T \in Thread /\ FramesInv(T) /\ Len(T.ci) = d[L] /\ T.nC = e[L]
      /\ DOMAIN m.cs = 1 .. L
  BY RunningFacts DEF Inv
<1>2. /\ r \in State /\ r.cs = m.cs /\ r.th[t] = U
      /\ \A u \in Threads : u # t => r.th[u] = m.th[u]
  BY <1>1, Updated
<1> HIDE DEF r
<1>3. p \in Nat /\ Low(Frame(T)) <= p
      /\ \A j \in 1 .. L : Owns(m.cs[j]) /\ m.cs[j].t = t => Floor(m.cs[j]) <= p
  BY <1>1 DEF AboveAll
<1>4. FramesInv(U)
  BY <1>1, <1>3, FramesAlike
<1>5. /\ Len(U.ci) = q /\ q \in Nat \ {0} /\ q = Len(T.ci) /\ DOMAIN T.ci = 1 .. q
      /\ \A j \in 1 .. q : /\ U.ci[j].base = T.ci[j].base /\ U.ci[j].func = T.ci[j].func
                           /\ U.ci[j].lua = T.ci[j].lua
  BY <1>1, FramesFacts DEF Alike
<1>6. T = m.th[t]
  BY DEF Running
<1> HIDE DEF q, T
<1>7. Moves(m, d, e, r, d, e, L, p, q)
  <2>1. \A i \in 1 .. L :
          /\ m.cs[i].k = "call" => m.cs[i].pc = "in"
          /\ m.cs[i].t = t => d[i] <= q
    BY <1>5, ActivationsBelow DEF T
  <2>2. \A i \in 1 .. L :
          /\ r.cs[i] = m.cs[i] /\ d[i] = d[i] /\ e[i] = e[i]
          /\ m.cs[i].k = "call" => m.cs[i].pc = "in"
          /\ m.cs[i].t = t => d[i] <= Len(U.ci)
          /\ m.cs[i].t = t /\ Owns(m.cs[i]) => d[i] <= q /\ Floor(m.cs[i]) <= p
    BY <1>2, <1>3, <1>5, <2>1
  <2>3. \A i \in L + 1 .. Len(r.cs) : FALSE
    BY <1>1, <1>2
  <2>4. L <= Len(m.cs) /\ L <= Len(r.cs)
    BY <1>1, <1>2
  <2>5. L = Len(r.cs) => Len(U.ci) = d[L] /\ U.nC = e[L]
    BY <1>1, <1>5 DEF T
  <2>6. Keeps(m.th[t].stk, U.stk, p - 1) /\ U.status = m.th[t].status /\ U.baseC = m.th[t].baseC
    BY <1>6 DEF T
  <2>7. \A j \in 1 .. Len(U.ci) : /\ j <= Len(T.ci) => U.ci[j].lua = T.ci[j].lua
                                  /\ q < j => p <= U.ci[j].func
    BY <1>5
  <2>8. q <= Len(U.ci) /\ q <= Len(T.ci)
    BY <1>5
  <2> HIDE DEF L, t
  <2> QED
    BY <1>1, <1>2, <1>4, <1>5, <1>6, <2>2, <2>3, <2>4, <2>5, <2>6, <2>7, <2>8 DEF Moves, t
<1>8. Inv(r, d, e) /\ Quiet(r)
  <2>1. \A i \in L + 1 .. Len(r.cs) : ActivationInv(r, d, e, i)
    BY <1>1, <1>2
  <2>2. L \in Nat /\ q \in Nat /\ p \in Nat
    BY <1>1, <1>3, <1>5
  <2> QED
    BY <1>7, <2>1, <2>2, MovesInv
<1>9. Running(r) = U
  BY <1>2 DEF Running
<1>10. AboveAll(r, p)
  <2>1. Low(Frame(U)) = Low(Frame(T))
    <3>1. Frame(U) = U.ci[q] /\ Frame(T) = T.ci[q] /\ q \in 1 .. q
      <4>1. Frame(U) = U.ci[Len(U.ci)]
        BY <1>4, FramesFacts
      <4>2. Frame(T) = T.ci[Len(T.ci)]
        BY <1>1, FramesFacts
      <4> QED
        BY <1>5, <4>1, <4>2
    <3> QED
      BY <1>5, <3>1 DEF Low
  <2> QED
    BY <1>2, <1>3, <1>9, <1>1, <2>1 DEF AboveAll
<1> QED
  BY <1>2, <1>8, <1>9, <1>10 DEF Begun, r

(* A call, a protected call or a handler's call on the top.                *)
LEMMA Pushed ==
  ASSUME NEW m, NEW d, NEW e, Inv(m, d, e), Quiet(m), NEW b \in Activation,
         Above(Last(m.cs), b), b.t = Last(m.cs).t,
         b.k \in {"pcall", "call", "errormsg"},
         Owns(b) => AboveAll(m, Floor(b)) /\ Floor(b) <= Len(Running(m).stk) + 1,
         b.k = "call" => b.pc = "enter" /\ b.func <= Len(Running(m).stk),
         b.k = "pcall" => /\ b.ci = Len(Running(m).ci) /\ b.nC = Running(m).nC
                          /\ b.under = SubSeq(Running(m).stk, 1, b.top - 1)
  PROVE  LET r == Enter(m, b)
             n == Len(m.cs)
         IN  /\ Inv(r, More(d, n, d[n]), More(e, n, e[n])) /\ Quiet(r)
             /\ Last(r.cs) = b /\ Running(r) = Running(m) /\ Len(r.cs) = n + 1
             /\ \A p : AboveAll(m, p) /\ (Owns(b) => Floor(b) <= p) => AboveAll(r, p)
<1> DEFINE n == Len(m.cs)
           t == Last(m.cs).t
           r == Enter(m, b)
           T == Running(m)
           q == Len(T.ci)
           p == IF Owns(b) THEN Floor(b) ELSE Len(T.stk) + 1
           d1 == More(d, n, d[n])
           e1 == More(e, n, e[n])
<1>1. /\ m \in State /\ m.cs \in Seq(Activation) /\ n \in Nat \ {0}
      /\ Last(m.cs) = m.cs[n] /\ StackInv(m.cs, d, e) /\ t \in Threads
      /\ T \in Thread /\ FramesInv(T) /\ Len(T.ci) = d[n] /\ T.nC = e[n]
      /\ DOMAIN m.cs = 1 .. n
  BY RunningFacts DEF Inv
<1>2. /\ r \in State /\ r.cs = Append(m.cs, b) /\ r.th = m.th /\ Len(r.cs) = n + 1
      /\ \A i \in 1 .. n : r.cs[i] = m.cs[i]
      /\ r.cs[n + 1] = b /\ Last(r.cs) = b /\ DOMAIN r.cs = 1 .. n + 1
  BY <1>1, Entered
<1> HIDE DEF r
<1>3. FramesIn(b) = 0 /\ Adds(b) = 0 /\ b.k # "resume"
  BY DEF FramesIn, Adds, Nested
<1>n. d[n] \in Nat /\ e[n] \in Nat /\ d[n] + 0 = d[n] /\ e[n] + 0 = e[n]
  BY <1>1, ActivationsBelow
<1>4. StackInv(r.cs, d1, e1)
  <2>1. StackInv(Append(m.cs, b), More(d, n, d[n] + 0), More(e, n, e[n] + 0))
    BY <1>1, <1>3, StackPush
  <2> QED
    BY <1>2, <1>n, <2>1
<1>5. /\ \A i \in 1 .. n : d1[i] = d[i] /\ e1[i] = e[i]
      /\ d1[n + 1] = d[n] /\ e1[n + 1] = e[n]
  BY <1>1 DEF More
<1>6. T = m.th[t] /\ r.th[t] = T /\ Running(r) = T
  BY <1>2 DEF Running
<1>7. /\ q \in Nat \ {0} /\ DOMAIN T.ci = 1 .. q /\ Len(T.stk) \in Nat /\ T.stk \in Seq(Value)
      /\ Frame(T) = T.ci[q] /\ Low(T.ci[q]) <= Len(T.stk) + 1
      /\ q = Len(T.ci)
      /\ \A j \in 1 .. q : T.ci[j].func \in Nat /\ Low(T.ci[j]) \in Nat
  <2>1. /\ q \in Nat \ {0} /\ DOMAIN T.ci = 1 .. q /\ Len(T.stk) \in Nat /\ T.stk \in Seq(Value)
        /\ Frame(T) = T.ci[q] /\ Len(T.stk) >= Low(T.ci[q]) - 1 /\ q \in 1 .. q
        /\ \A j \in 1 .. q : T.ci[j].func \in Nat /\ Low(T.ci[j]) \in Nat
    BY <1>1, FramesFacts
  <2>2. Low(T.ci[q]) \in Nat
    BY <2>1
  <2>3. Low(T.ci[q]) <= Len(T.stk) + 1
    BY ONLY <2>1, <2>2
  <2> QED
    BY <2>1, <2>3
<1>8. /\ p \in Nat /\ Low(Frame(T)) <= p /\ p <= Len(T.stk) + 1
      /\ \A j \in 1 .. n : Owns(m.cs[j]) /\ m.cs[j].t = t => Floor(m.cs[j]) <= p
  <2>1. CASE Owns(b)
    BY <1>1, <2>1 DEF AboveAll
  <2>2. CASE ~Owns(b)
    <3>1. p = Len(T.stk) + 1
      BY <2>2
    <3>2. ASSUME NEW j \in 1 .. n, Owns(m.cs[j]), m.cs[j].t = t
          PROVE  Floor(m.cs[j]) <= Len(T.stk) + 1
      <4>1. ActivationInv(m, d, e, j)
        BY <1>1 DEF Inv
      <4> QED
        BY <1>6, <3>2, <4>1 DEF ActivationInv
    <3> QED
      BY <1>7, <3>1, <3>2
  <2> QED
    BY <2>1, <2>2
<1>a. Owns(b) => p = Floor(b)
  OBVIOUS
<1> HIDE DEF p, q, T, d1, e1
<1>9. \A i \in 1 .. n :
        /\ m.cs[i].k = "call" => m.cs[i].pc = "in"
        /\ m.cs[i].t = t => d[i] <= q
        /\ m.cs[i] \in Activation
  <2>1. Begun(m)
    BY DEF Begun, Above
  <2> QED
    BY <1>7, <2>1, ActivationsBelow DEF T
<1>10. Moves(m, d, e, r, d1, e1, n, p, q)
  <2>1. \A i \in 1 .. n :
          /\ r.cs[i] = m.cs[i] /\ d1[i] = d[i] /\ e1[i] = e[i]
          /\ m.cs[i].k = "call" => m.cs[i].pc = "in"
          /\ m.cs[i].t = t => d[i] <= Len(T.ci)
          /\ m.cs[i].t = t /\ Owns(m.cs[i]) => d[i] <= q /\ Floor(m.cs[i]) <= p
    BY <1>2, <1>5, <1>7, <1>8, <1>9
  <2>2. \A i \in n + 1 .. Len(r.cs) : r.cs[i].t = t /\ r.cs[i].k # "resume"
                                       /\ (Owns(r.cs[i]) => p <= Floor(r.cs[i]))
    <3>1. \A i \in n + 1 .. Len(r.cs) : i = n + 1
      BY <1>1, <1>2
    <3>2. Owns(b) => p <= Floor(b)
      BY <1>8, <1>a
    <3> QED
      BY <1>2, <1>3, <3>1, <3>2
  <2>3. n <= Len(m.cs) /\ n <= Len(r.cs) /\ n # Len(r.cs)
    BY <1>1, <1>2
  <2>4. Keeps(T.stk, T.stk, p - 1)
    <3>1. p - 1 <= Len(T.stk)
      BY <1>7, <1>8
    <3> QED
      BY <3>1 DEF Keeps
  <2>5. \A j \in 1 .. Len(T.ci) : j <= q
    BY <1>7
  <2>6. q <= Len(T.ci)
    BY <1>7
  <2>7. \A j \in 1 .. Len(T.ci) : ~(q < j)
    BY <1>7
  <2> HIDE DEF n, t
  <2> QED
    BY <1>1, <1>2, <1>4, <1>6, <1>7, <2>1, <2>2, <2>3, <2>4, <2>6, <2>7 DEF Moves, t
<1>11. ActivationInv(r, d1, e1, n + 1)
  <2>1. d1[n + 1] = q /\ q \in DOMAIN T.ci /\ e1[n + 1] = T.nC /\ r.cs[n + 1] = b /\ r.th[b.t] = T
    <3>1. q \in DOMAIN T.ci
      BY <1>7
    <3>2. d1[n + 1] = q /\ e1[n + 1] = T.nC
      BY <1>1, <1>5, <1>7
    <3>3. r.cs[n + 1] = b /\ r.th[b.t] = T
      BY <1>2, <1>6
    <3> QED
      BY <3>1, <3>2, <3>3
  <2>2. Owns(b) => /\ Low(T.ci[q]) <= Floor(b) /\ Floor(b) <= Len(T.stk) + 1
                   /\ \A j \in DOMAIN T.ci : q < j => Floor(b) <= T.ci[j].func
                   /\ \A j \in DOMAIN r.cs : n + 1 < j /\ Owns(r.cs[j]) /\ r.cs[j].t = b.t =>
                        Floor(b) <= Floor(r.cs[j])
    <3>1. \A j \in DOMAIN T.ci : ~(q < j)
      BY <1>7
    <3>2. \A j \in DOMAIN r.cs : ~(n + 1 < j)
      BY <1>1, <1>2
    <3> QED
      BY <1>7, <1>8, <1>a, <3>1, <3>2
  <2>3. b.k = "pcall" => /\ b.ci = q /\ b.nC = T.nC /\ SubSeq(T.stk, 1, b.top - 1) = b.under
    BY <1>7 DEF T
  <2>4. b.k = "call" => b.func <= Len(T.stk)
    BY DEF T
  <2> QED
    BY <2>1, <2>2, <2>3, <2>4, <1>7 DEF ActivationInv
<1>12. Inv(r, d1, e1) /\ Quiet(r)
  <2>1. \A i \in n + 1 .. Len(r.cs) : ActivationInv(r, d1, e1, i)
    <3>1. \A i \in n + 1 .. Len(r.cs) : i = n + 1
      BY <1>1, <1>2
    <3> QED
      BY <1>11, <3>1
  <2>2. n \in Nat /\ q \in Nat /\ p \in Nat
    BY <1>1, <1>8, <1>7
  <2> QED
    BY <1>10, <2>1, <2>2, MovesInv
<1>13. ASSUME NEW x, AboveAll(m, x), Owns(b) => Floor(b) <= x
       PROVE  AboveAll(r, x)
  <2>1. \A j \in 1 .. n + 1 : j \in 1 .. n \/ j = n + 1
    BY <1>1
  <2>2. \A j \in 1 .. n : Owns(m.cs[j]) /\ m.cs[j].t = t => Floor(m.cs[j]) <= x
    BY <1>1, <1>13 DEF AboveAll
  <2>3. x \in Nat /\ Low(Frame(T)) <= x
    BY <1>13 DEF AboveAll, T
  <2> QED
    BY <1>2, <1>6, <1>13, <2>1, <2>2, <2>3 DEF AboveAll
<1> QED
  BY <1>2, <1>6, <1>12, <1>13 DEF r, T, d1, e1

(* Back to activation n, with the frames there were and the slots below p. *)
GoesBack(m, d, e, r, n, p, U) ==
  LET t == Last(m.cs).t
      T == Running(m)
  IN  /\ n \in 1 .. Len(m.cs) /\ (n < Len(m.cs) \/ Begun(m)) /\ m.cs[n].t = t
      /\ r \in State /\ r.cs = SubSeq(m.cs, 1, n)
      /\ \A u \in Threads : u # t => r.th[u] = m.th[u]
      /\ U = r.th[t]
      /\ U.ci = SubSeq(T.ci, 1, d[n]) /\ U.base = T.ci[d[n]].base /\ d[n] <= SizeCI(U)
      /\ U.open = UNION {T.ci[i].captured : i \in 1 .. d[n]}
      /\ U.nC = e[n] /\ U.status = T.status /\ U.baseC = T.baseC
      /\ p \in Nat /\ Low(T.ci[d[n]]) <= p /\ Keeps(T.stk, U.stk, p - 1)
      /\ \A i \in 1 .. n : Owns(m.cs[i]) /\ m.cs[i].t = t => Floor(m.cs[i]) <= p

LEMMA CutBack ==
  ASSUME NEW m, NEW d, NEW e, Inv(m, d, e), Quiet(m), NEW r, NEW n, NEW p, NEW U,
         GoesBack(m, d, e, r, n, p, U)
  PROVE  /\ Inv(r, Upto(d, n), Upto(e, n)) /\ Quiet(r) /\ Begun(r) /\ AboveAll(r, p)
         /\ Last(r.cs) = m.cs[n] /\ Running(r) = U /\ Len(r.cs) = n
<1> DEFINE L == Len(m.cs)
           t == Last(m.cs).t
           T == Running(m)
           q == d[n]
           d1 == Upto(d, n)
           e1 == Upto(e, n)
<1>0. /\ n \in 1 .. Len(m.cs) /\ (n < Len(m.cs) \/ Begun(m)) /\ m.cs[n].t = t
      /\ r \in State /\ r.cs = SubSeq(m.cs, 1, n)
      /\ \A u \in Threads : u # t => r.th[u] = m.th[u]
      /\ U = r.th[t]
      /\ U.ci = SubSeq(T.ci, 1, q) /\ U.base = T.ci[q].base /\ q <= SizeCI(U)
      /\ U.open = UNION {T.ci[i].captured : i \in 1 .. q}
      /\ U.nC = e[n] /\ U.status = T.status /\ U.baseC = T.baseC
      /\ p \in Nat /\ Low(T.ci[q]) <= p /\ Keeps(T.stk, U.stk, p - 1)
      /\ \A i \in 1 .. n : Owns(m.cs[i]) /\ m.cs[i].t = t => Floor(m.cs[i]) <= p
  BY DEF GoesBack
<1> USE <1>0
<1>1. /\ m \in State /\ m.cs \in Seq(Activation) /\ L \in Nat \ {0}
      /\ Last(m.cs) = m.cs[L] /\ StackInv(m.cs, d, e) /\ t \in Threads
      /\ T \in Thread /\ FramesInv(T) /\ DOMAIN m.cs = 1 .. L
  BY RunningFacts DEF Inv
<1>2. /\ n \in Nat \ {0} /\ L \in Nat /\ n <= L /\ n \in 1 .. n /\ n \in 0 .. L
      /\ \A i \in 1 .. n : i \in 1 .. L /\ i <= n /\ i \in Nat
  <2>1. L \in Nat /\ n \in 1 .. L
    BY <1>1
  <2> QED
    BY ONLY <2>1
<1>3. /\ r.cs \in Seq(Activation) /\ Len(r.cs) = n /\ DOMAIN r.cs = 1 .. n
      /\ \A i \in 1 .. n : r.cs[i] = m.cs[i]
      /\ Last(r.cs) = m.cs[n]
  <2>1. /\ r.cs \in Seq(Activation) /\ Len(r.cs) = n /\ DOMAIN r.cs = 1 .. n
        /\ \A i \in 1 .. n : r.cs[i] = m.cs[i]
    <3>1. n \in 0 .. Len(m.cs) /\ m.cs \in Seq(Activation)
      BY ONLY <1>1, <1>2
    <3> QED
      BY ONLY <3>1, Prefix, <1>0
  <2> QED
    BY <1>2, <2>1 DEF Last
<1>4. StackInv(r.cs, d1, e1)
  <2>1. r.cs = SubSeq(m.cs, 1, n) /\ n \in 1 .. Len(m.cs)
    BY ONLY <1>0
  <2> QED
    BY ONLY <1>1, <2>1, StackCut
<1>5. \A i \in 1 .. n : d1[i] = d[i] /\ e1[i] = e[i]
  BY DEF Upto
<1>6. U \in Thread /\ T = m.th[t]
  BY <1>1, ThreadFacts DEF Running
<1>7. \A i \in 1 .. n :
        /\ m.cs[i] \in Activation /\ d[i] \in Nat
        /\ m.cs[i].k = "call" => m.cs[i].pc = "in"
        /\ m.cs[i].t = t => 1 <= d[i] /\ d[i] <= Len(T.ci)
  <2> TAKE i \in 1 .. n
  <2>1. i \in 1 .. L /\ (i < L \/ Begun(m))
    <3>1. i \in 1 .. L /\ i <= n /\ i \in Nat /\ L \in Nat
      BY ONLY <1>2, i \in 1 .. n
    <3>2. CASE n < L
      BY ONLY <1>2, <3>1, <3>2
    <3> QED
      BY <3>1, <3>2
  <2> QED
    BY <2>1, ActivationsBelow
<1>8. /\ Len(T.ci) \in Nat \ {0} /\ T.ci \in Seq(CallInfo) /\ q \in 1 .. Len(T.ci)
      /\ q \in Nat /\ q \in 1 .. q
      /\ \A j \in 1 .. Len(T.ci) : T.ci[j].func \in Nat
  <2>1. Len(T.ci) \in Nat \ {0} /\ T.ci \in Seq(CallInfo)
        /\ \A j \in 1 .. Len(T.ci) : T.ci[j].func \in Nat
    BY <1>1, FramesFacts
  <2>2. q \in Nat /\ 1 <= q /\ q <= Len(T.ci)
    BY <1>2, <1>7
  <2> QED
    BY <2>1, <2>2
<1>9. Len(U.ci) = q /\ \A j \in 1 .. q : U.ci[j] = T.ci[j]
  BY <1>8, Prefix
<1>10. FramesInv(U)
  BY <1>1, <1>6, <1>8, FramesCut
<1>11. \A i \in 1 .. n : m.cs[i].t = t => d[i] <= q
  <2> TAKE i \in 1 .. n
  <2>1. CASE i = n
    BY <1>8, <2>1
  <2>2. CASE i < n
    <3>1. \A x, y \in 1 .. L : x < y =>
            /\ m.cs[x].t = m.cs[y].t => d[x] + FramesIn(m.cs[y]) <= d[y]
            /\ e[x] + Adds(m.cs[y]) <= e[y]
      BY <1>1, StackFacts
    <3>2. m.cs[i].t = t => d[i] + FramesIn(m.cs[n]) <= q
      BY <1>2, <2>2, <3>1
    <3>3. FramesIn(m.cs[n]) \in Nat /\ d[i] \in Nat
      BY <1>2, <1>7, ActivationFacts
    <3> QED
      BY <1>8, <3>2, <3>3
  <2>3. i = n \/ i < n
    BY <1>2
  <2> QED
    BY <2>1, <2>2, <2>3
<1>12. Moves(m, d, e, r, d1, e1, n, p, q)
  <2>1. \A i \in 1 .. n :
          /\ r.cs[i] = m.cs[i] /\ d1[i] = d[i] /\ e1[i] = e[i]
          /\ m.cs[i].k = "call" => m.cs[i].pc = "in"
          /\ m.cs[i].t = t => d[i] <= Len(U.ci)
          /\ m.cs[i].t = t /\ Owns(m.cs[i]) => d[i] <= q /\ Floor(m.cs[i]) <= p
    BY <1>3, <1>5, <1>7, <1>9, <1>11
  <2>2. \A i \in n + 1 .. Len(r.cs) : FALSE
    BY <1>2, <1>3
  <2>3. n <= Len(m.cs) /\ n <= Len(r.cs)
    BY <1>2, <1>3
  <2>4. \A j \in 1 .. Len(U.ci) : /\ j <= Len(T.ci) => U.ci[j].lua = T.ci[j].lua
                                  /\ ~(q < j)
    BY <1>8, <1>9
  <2>5. q <= Len(U.ci) /\ q <= Len(T.ci)
    BY <1>8, <1>9
  <2>6. \A j \in 1 .. q : U.ci[j].base = T.ci[j].base /\ U.ci[j].func = T.ci[j].func
    BY <1>9
  <2>7. Len(U.ci) = d[n] /\ U.nC = e[n] /\ U.status = T.status /\ U.baseC = T.baseC
        /\ Keeps(T.stk, U.stk, p - 1) /\ Last(r.cs).t = t
    BY <1>3, <1>9
  <2> HIDE DEF d1, e1, q, T, t
  <2> QED
    BY <1>4, <1>6, <1>10, <2>1, <2>2, <2>3, <2>4, <2>5, <2>6, <2>7 DEF Moves, t
<1>13. Inv(r, d1, e1) /\ Quiet(r)
  <2>1. \A i \in n + 1 .. Len(r.cs) : ActivationInv(r, d1, e1, i)
    BY <1>2, <1>3
  <2>2. n \in Nat /\ q \in Nat
    BY <1>2, <1>8
  <2> HIDE DEF d1, e1, q
  <2> QED
    BY <1>12, <2>1, <2>2, MovesInv
<1>14. Running(r) = U
  BY <1>3 DEF Running
<1>15. AboveAll(r, p)
  <2>1. Frame(U) = T.ci[q]
    BY <1>6, <1>8, <1>9, <1>10, FramesFacts
  <2> QED
    BY <1>3, <1>14, <2>1 DEF AboveAll
<1>16. Begun(r)
  BY <1>2, <1>3, <1>7 DEF Begun
<1> QED
  BY <1>3, <1>13, <1>14, <1>15, <1>16

(* One activation, b, is new, above the n first; its thread is U.          *)
OneMore(m, d, e, r, d1, e1, n, p, q, b, U) ==
  LET t == Last(m.cs).t
      T == Running(m)
  IN  /\ n \in 0 .. Len(m.cs) /\ (n < Len(m.cs) \/ Begun(m))
      /\ r \in State /\ StackInv(r.cs, d1, e1) /\ Len(r.cs) = n + 1
      /\ \A i \in 1 .. n : r.cs[i] = m.cs[i] /\ d1[i] = d[i] /\ e1[i] = e[i]
      /\ p \in Nat /\ q \in Nat
      /\ b = r.cs[n + 1] /\ b.t = t /\ b.k # "resume" /\ (Owns(b) => p <= Floor(b))
      /\ \A u \in Threads : u # t => r.th[u] = m.th[u]
      /\ U = r.th[t] /\ FramesInv(U) /\ U.status = T.status /\ U.baseC = T.baseC
      /\ Keeps(T.stk, U.stk, p - 1) /\ q <= Len(U.ci) /\ q <= Len(T.ci)
      /\ \A j \in 1 .. Len(U.ci) : /\ j <= q => U.ci[j] = T.ci[j]
                                   /\ q < j => j > Len(T.ci) /\ p <= U.ci[j].func
      /\ \A i \in 1 .. n : m.cs[i].t = t => d[i] <= q
      /\ \A i \in 1 .. n : m.cs[i].t = t /\ Owns(m.cs[i]) => Floor(m.cs[i]) <= p

LEMMA OneNew ==
  ASSUME NEW m, NEW d, NEW e, Inv(m, d, e), Quiet(m), NEW r, NEW d1, NEW e1, NEW n, NEW p, NEW q,
         NEW b, NEW U, OneMore(m, d, e, r, d1, e1, n, p, q, b, U), ActivationInv(r, d1, e1, n + 1)
  PROVE  Inv(r, d1, e1) /\ Quiet(r) /\ Last(r.cs) = b /\ Running(r) = U
<1> DEFINE L == Len(m.cs)
           t == Last(m.cs).t
           T == Running(m)
<1>0. /\ n \in 0 .. Len(m.cs) /\ (n < Len(m.cs) \/ Begun(m))
      /\ r \in State /\ StackInv(r.cs, d1, e1) /\ Len(r.cs) = n + 1
      /\ \A i \in 1 .. n : r.cs[i] = m.cs[i] /\ d1[i] = d[i] /\ e1[i] = e[i]
      /\ p \in Nat /\ q \in Nat
      /\ b = r.cs[n + 1] /\ b.t = t /\ b.k # "resume" /\ (Owns(b) => p <= Floor(b))
      /\ \A u \in Threads : u # t => r.th[u] = m.th[u]
      /\ U = r.th[t] /\ FramesInv(U) /\ U.status = T.status /\ U.baseC = T.baseC
      /\ Keeps(T.stk, U.stk, p - 1) /\ q <= Len(U.ci) /\ q <= Len(T.ci)
      /\ \A j \in 1 .. Len(U.ci) : /\ j <= q => U.ci[j] = T.ci[j]
                                   /\ q < j => j > Len(T.ci) /\ p <= U.ci[j].func
      /\ \A i \in 1 .. n : m.cs[i].t = t => d[i] <= q
      /\ \A i \in 1 .. n : m.cs[i].t = t /\ Owns(m.cs[i]) => Floor(m.cs[i]) <= p
  BY DEF OneMore
<1>z. n \in 0 .. Len(m.cs) /\ Len(r.cs) = n + 1 /\ q \in Nat /\ q <= Len(U.ci)
  BY ONLY <1>0
<1>y. \A j \in 1 .. Len(U.ci) : /\ j <= q => U.ci[j] = T.ci[j]
                                /\ q < j => j > Len(T.ci) /\ p <= U.ci[j].func
  BY ONLY <1>0
<1> USE <1>0
<1>1. /\ m \in State /\ L \in Nat /\ t \in Threads /\ T = m.th[t]
      /\ r.cs \in Seq(Activation)
  BY RunningFacts DEF Inv, Running, State
<1>2. n \in Nat /\ n <= L
  <2>1. n \in 0 .. L /\ L \in Nat
    BY <1>1
  <2> QED
    BY ONLY <2>1
<1>3. Last(r.cs) = b /\ Running(r) = U
  BY DEF Last, Running
<1>4. \A i \in n + 1 .. Len(r.cs) : i = n + 1
  BY ONLY <1>2, <1>0
<1>5. ASSUME NEW i \in 1 .. n
      PROVE  m.cs[i].k = "call" => m.cs[i].pc = "in"
  <2>1. i \in 1 .. L /\ (i < L \/ n = L)
    BY ONLY <1>1, <1>2, i \in 1 .. n
  <2> QED
    BY <2>1, ActivationsBelow
<1>6. \A i \in 1 .. n :
        /\ r.cs[i] = m.cs[i] /\ d1[i] = d[i] /\ e1[i] = e[i]
        /\ m.cs[i].k = "call" => m.cs[i].pc = "in"
        /\ m.cs[i].t = t => d[i] <= Len(U.ci)
        /\ m.cs[i].t = t /\ Owns(m.cs[i]) => d[i] <= q /\ Floor(m.cs[i]) <= p
  <2>1. \A i \in 1 .. n : m.cs[i].t = t => d[i] <= Len(U.ci)
    <3>1. Len(U.ci) \in Nat /\ q \in Nat /\ q <= Len(U.ci)
      BY <1>1, ThreadFacts
    <3>2. \A i \in 1 .. n : d[i] \in Nat
      <4>1. \A i \in 1 .. n : i \in 1 .. L
        BY ONLY <1>1, <1>2
      <4> QED
        BY <4>1, ActivationsBelow
    <3>3. \A i \in 1 .. n : m.cs[i].t = t => d[i] <= q
      OBVIOUS
    <3> QED
      BY ONLY <3>1, <3>2, <3>3
  <2> QED
    BY <1>5, <2>1
<1>7. \A i \in n + 1 .. Len(r.cs) : r.cs[i].t = t /\ r.cs[i].k # "resume"
                                     /\ (Owns(r.cs[i]) => p <= Floor(r.cs[i]))
  BY <1>4
<1>8. n <= Len(m.cs) /\ n <= Len(r.cs) /\ n # Len(r.cs)
  BY ONLY <1>1, <1>2, <1>z
<1>9. Len(U.ci) \in Nat /\ Len(T.ci) \in Nat
  BY <1>1, ThreadFacts
<1>10. \A j \in 1 .. q : U.ci[j].base = T.ci[j].base /\ U.ci[j].func = T.ci[j].func
  <2>1. \A j \in 1 .. q : j \in 1 .. Len(U.ci) /\ j <= q
    BY ONLY <1>9, <1>z
  <2> QED
    BY ONLY <1>y, <2>1
<1>11. \A j \in 1 .. Len(U.ci) : /\ j <= Len(T.ci) => U.ci[j].lua = T.ci[j].lua
                                 /\ q < j => p <= U.ci[j].func
  <2> TAKE j \in 1 .. Len(U.ci)
  <2>1. (j <= q \/ q < j) /\ ~(j > Len(T.ci) /\ j <= Len(T.ci))
    BY ONLY <1>9, <1>z, j \in 1 .. Len(U.ci)
  <2> QED
    BY ONLY <1>y, <2>1, j \in 1 .. Len(U.ci)
<1>12. Last(r.cs).t = t
  BY <1>3
<1>13. Moves(m, d, e, r, d1, e1, n, p, q)
  BY <1>1, <1>6, <1>7, <1>8, <1>10, <1>11, <1>12 DEF Moves
<1>14. \A i \in n + 1 .. Len(r.cs) : ActivationInv(r, d1, e1, i)
  BY <1>4
<1> QED
  BY <1>2, <1>3, <1>13, <1>14, MovesInv

LEMMA StackBottom ==
  ASSUME NEW s \in Seq(Activation), NEW d, NEW e, StackInv(s, d, e), Len(s) = 1,
         NEW r \in Seq(Activation), Len(r) = 1, r[1].k = "jni"
  PROVE  StackInv(r, d, e)
<1>1. /\ d \in [1 .. 1 -> Nat] /\ e \in [1 .. 1 -> Nat] /\ d[1] = 1 /\ e[1] = 0
  BY StackFacts
<1>2. r[1].t = "main"
  <2>1. r[1] \in Activation
    BY ElementOfSeq
  <2> QED
    BY <2>1, ActivationFacts
<1>3. /\ \A i \in 2 .. 1 : FALSE
      /\ \A i, j \in 1 .. 1 : ~(i < j)
      /\ \A i \in 1 .. 1 : i = 1
  OBVIOUS
<1>4. 1 \in Nat \ {0}
  OBVIOUS
<1> DEFINE n == 1
<1>5. /\ n \in Nat \ {0} /\ Len(r) = n /\ d \in [1 .. n -> Nat] /\ e \in [1 .. n -> Nat]
      /\ \A i \in 2 .. n : FALSE
      /\ \A i, j \in 1 .. n : ~(i < j)
      /\ \A i \in 1 .. n : i = 1
  BY <1>1, <1>3, <1>4
<1> HIDE DEF n
<1> QED
  BY <1>1, <1>2, <1>5, StackFrom

(* The activation on the top goes on.                                      *)
LEMMA StackSame ==
  ASSUME NEW s \in Seq(Activation), NEW d, NEW e, StackInv(s, d, e), NEW n, n = Len(s),
         NEW b \in Activation, b.k = s[n].k, b.t = s[n].t, b.k \in {"jni", "cfun"}
  PROVE  StackInv([s EXCEPT ![n] = b], d, e)
<1> DEFINE r == [s EXCEPT ![n] = b]
<1>1. /\ n \in Nat \ {0} /\ n \in 1 .. n /\ DOMAIN s = 1 .. n
      /\ d \in [1 .. n -> Nat] /\ e \in [1 .. n -> Nat]
      /\ d[n] \in Nat /\ e[n] \in Nat
  BY StackFacts
<1>2. /\ r \in Seq(Activation) /\ Len(r) = n /\ r[n] = b
  BY <1>1, ExceptSeq
<1>3. CASE n = 1
  <2>1. s[1].k = "jni"
    BY StackFacts
  <2> QED
    BY <1>2, <1>3, <2>1, StackBottom
<1>4. CASE n > 1
  <2>1. FramesIn(b) = 1 /\ FramesIn(s[n]) = 1 /\ Adds(b) = 0 /\ Adds(s[n]) = 0
    BY DEF FramesIn, Adds, Nested
  <2>2. StackInv(r, [d EXCEPT ![n] = d[n] - FramesIn(s[n]) + FramesIn(b)],
                 [e EXCEPT ![n] = e[n] - Adds(s[n]) + Adds(b)])
    BY <1>4, StackTop
  <2>3. d[n] - FramesIn(s[n]) + FramesIn(b) = d[n] /\ e[n] - Adds(s[n]) + Adds(b) = e[n]
    BY <1>1, <2>1
  <2>4. [d EXCEPT ![n] = d[n]] = d /\ [e EXCEPT ![n] = e[n]] = e
    BY <1>1
  <2> QED
    BY <2>2, <2>3, <2>4
<1> QED
  BY <1>1, <1>3, <1>4

LEMMA Continued ==
  ASSUME NEW m, NEW d, NEW e, Inv(m, d, e), Quiet(m), NEW b \in Activation,
         b.k = Last(m.cs).k, b.t = Last(m.cs).t, b.k \in {"jni", "cfun"},
         b.k = "cfun" /\ b.f = "wrapped" /\ b.pc # "run" => b.t = "main"
  PROVE  LET r == [m EXCEPT !.cs[Len(m.cs)] = b]
         IN  Inv(r, d, e) /\ Quiet(r) /\ Last(r.cs) = b /\ r.th = m.th /\ Len(r.cs) = Len(m.cs)
<1> DEFINE L == Len(m.cs)
           r == [m EXCEPT !.cs[Len(m.cs)] = b]
           t == Last(m.cs).t
           T == Running(m)
           q == Len(T.ci)
           p == Len(T.stk) + 1
           n == L - 1
<1>1. /\ m \in State /\ m.cs \in Seq(Activation) /\ L \in Nat \ {0} /\ L \in 1 .. L
      /\ Last(m.cs) = m.cs[L] /\ StackInv(m.cs, d, e) /\ t \in Threads
      /\ T \in Thread /\ FramesInv(T) /\ DOMAIN m.cs = 1 .. L
  <2>1. /\ m \in State /\ m.cs \in Seq(Activation) /\ L \in Nat \ {0}
        /\ Last(m.cs) = m.cs[L] /\ StackInv(m.cs, d, e) /\ t \in Threads
        /\ T \in Thread /\ FramesInv(T) /\ DOMAIN m.cs = 1 .. L
    BY RunningFacts DEF Inv
  <2>2. L \in 1 .. L
    BY <2>1
  <2> QED
    BY <2>1, <2>2
<1>2. r.cs = [m.cs EXCEPT ![L] = b] /\ r.th = m.th
  BY <1>1 DEF State
<1>3. /\ r.cs \in Seq(Activation) /\ Len(r.cs) = L /\ r.cs[L] = b
      /\ \A i \in 1 .. L : i # L => r.cs[i] = m.cs[i]
  BY <1>1, <1>2, ExceptSeq
<1>4. r \in State
  <2>1. r = [m EXCEPT !.cs = [m.cs EXCEPT ![L] = b]]
    BY <1>1 DEF State
  <2>2. [m.cs EXCEPT ![L] = b] \in Seq(Activation)
    BY <1>2, <1>3
  <2> QED
    BY ONLY <1>1, <2>1, <2>2 DEF State
<1> HIDE DEF r
<1>5. StackInv(r.cs, d, e)
  BY <1>1, <1>2, StackSame
<1>6. n \in Nat /\ n \in 0 .. L /\ n < L /\ n + 1 = L /\ \A i \in 1 .. n : i \in 1 .. L /\ i # L
  BY ONLY <1>1
<1>7. \A i \in 1 .. n : r.cs[i] = m.cs[i] /\ d[i] = d[i] /\ e[i] = e[i]
  BY <1>3, <1>6
<1>8. /\ T = m.th[t] /\ q \in Nat /\ p \in Nat /\ Len(T.stk) \in Nat /\ p - 1 <= Len(T.stk)
  <2>1. Len(T.stk) \in Nat /\ q \in Nat
    BY <1>1, FramesFacts
  <2> QED
    BY <2>1 DEF Running
<1>9. Keeps(T.stk, T.stk, p - 1)
  BY <1>8 DEF Keeps
<1>10. \A i \in 1 .. n : /\ m.cs[i].t = t => d[i] <= q
                         /\ m.cs[i].t = t /\ Owns(m.cs[i]) => Floor(m.cs[i]) <= p
  <2> TAKE i \in 1 .. n
  <2>1. i \in 1 .. L
    BY <1>6
  <2>2. ActivationInv(m, d, e, i)
    BY <1>1, <2>1 DEF Inv
  <2>3. m.cs[i].t = t /\ Owns(m.cs[i]) => Floor(m.cs[i]) <= p
    BY <1>8, <2>2 DEF ActivationInv
  <2> QED
    BY <2>1, <2>3, ActivationsBelow
<1>11. ActivationInv(r, d, e, L)
  <2>1. ActivationInv(m, d, e, L)
    BY <1>1 DEF Inv
  <2>2. /\ d[L] \in DOMAIN T.ci /\ Len(T.ci) = d[L] /\ T.nC = e[L]
        /\ b.k = "cfun" => ~T.ci[d[L]].lua
    BY <1>1, <1>8, <2>1 DEF ActivationInv, IsLast
  <2>3. r.cs[L].t = t /\ r.th[t] = T /\ r.cs[L] = b
    BY <1>1, <1>2, <1>3, <1>8
  <2> QED
    BY <2>2, <2>3 DEF ActivationInv, Owns
<1>12. b.k # "resume" /\ (Owns(b) => p <= Floor(b))
  BY DEF Owns
<1>13. \A j \in 1 .. Len(T.ci) : /\ j <= q => T.ci[j] = T.ci[j]
                                 /\ q < j => j > Len(T.ci) /\ p <= T.ci[j].func
  BY <1>8
<1>a. \A i \in 1 .. n : m.cs[i].t = t => d[i] <= q
  BY <1>10
<1>b. \A i \in 1 .. n : m.cs[i].t = t /\ Owns(m.cs[i]) => Floor(m.cs[i]) <= p
  BY <1>10
<1>14. r.th[t] = T /\ \A u \in Threads : u # t => r.th[u] = m.th[u]
  BY <1>2, <1>8
<1>15. q <= Len(T.ci)
  BY <1>8
<1>16. T = r.th[t]
  BY <1>14
<1>17. b = r.cs[n + 1] /\ Len(r.cs) = n + 1
  BY <1>3, <1>6
<1>18. ActivationInv(r, d, e, n + 1)
  BY <1>6, <1>11
<1>19. T = Running(m) /\ FramesInv(T) /\ T.status = Running(m).status
       /\ T.baseC = Running(m).baseC
  BY <1>1
<1> HIDE DEF n, p, q, T, t, L
<1>20. Inv(r, d, e) /\ Quiet(r) /\ Last(r.cs) = b
  <2>1. OneMore(m, d, e, r, d, e, n, p, q, b, T)
    BY <1>4, <1>5, <1>6, <1>7, <1>8, <1>9, <1>a, <1>b, <1>12, <1>13, <1>14, <1>15, <1>16, <1>17,
       <1>19 DEF OneMore, t, L
  <2> QED
    BY <1>18, <2>1, OneNew
<1> QED
  BY <1>2, <1>3, <1>20 DEF r, L

-----------------------------------------------------------------------------
(* Errors                                                                  *)

LEMMA Greatest ==
  ASSUME NEW n \in Nat, NEW I \in SUBSET (1 .. n), I # {}
  PROVE  \E x \in I : \A y \in I : y <= x
<1> DEFINE R == OpToRel(<, Nat)
           K == {n - x : x \in I}
<1>1. IsWellFoundedOn(R, Nat)
  BY NatLessThanWellFounded
<1>2. \A x, y \in Nat : <<x, y>> \in R <=> x < y
  BY DEF OpToRel
<1> HIDE DEF R
<1>3. K \subseteq Nat /\ K # {}
  <2>1. ASSUME NEW x \in I PROVE n - x \in Nat
    <3>1. x \in 1 .. n
      OBVIOUS
    <3> QED
      BY ONLY <3>1, n \in Nat
  <2>2. PICK x \in I : TRUE
    OBVIOUS
  <2>3. n - x \in K
    OBVIOUS
  <2>4. K \subseteq Nat
    BY <2>1
  <2> QED
    BY <2>3, <2>4
<1>4. PICK k \in K : \A y \in K : ~(<<y, k>> \in R)
  BY <1>1, <1>3, WFMin
<1>5. PICK x \in I : k = n - x
  BY <1>4
<1>6. ASSUME NEW y \in I PROVE y <= x
  <2>1. n - y \in K /\ n - y \in Nat /\ k \in Nat
    BY <1>3
  <2>2. ~(n - y < k)
    BY <1>2, <1>4, <2>1
  <2>3. x \in Nat /\ y \in Nat
    <3>1. x \in 1 .. n /\ y \in 1 .. n
      OBVIOUS
    <3> QED
      BY ONLY <3>1, n \in Nat
  <2> QED
    BY <1>5, <2>1, <2>2, <2>3
<1> QED
  BY <1>6

(* The protected call or the resume an error goes to.                      *)
LEMMA Thrown ==
  ASSUME NEW m, NEW d, NEW e, Inv(m, d, e), Last(m.cs).k # "jni", NEW i, i = ThrowTo(m)
  PROVE  /\ i \in 2 .. Len(m.cs) /\ m.cs[i].t = Last(m.cs).t
         /\ m.cs[i].k \in {"pcall", "resume"}
<1> DEFINE L == Len(m.cs)
           Is(j) == m.cs[j].k \in {"pcall", "resume"}
           I == {j \in 1 .. L : Is(j)}
<1>1. /\ m.cs \in Seq(Activation) /\ L \in Nat \ {0} /\ DOMAIN m.cs = 1 .. L
      /\ Last(m.cs) = m.cs[L] /\ StackInv(m.cs, d, e)
  BY RunningFacts DEF Inv
<1>2. m.cs[1].k = "jni" /\ \A j \in 2 .. L : Above(m.cs[j - 1], m.cs[j])
  BY <1>1, StackFacts
<1>3. L > 1
  BY <1>1, <1>2
<1>4. 2 \in I
  <2>1. 2 \in 2 .. L /\ 2 - 1 = 1 /\ 2 \in 1 .. L
    BY <1>1, <1>3
  <2>2. Above(m.cs[1], m.cs[2]) /\ m.cs[2] \in Activation
    BY <1>1, <1>2, <2>1, StackFacts
  <2>3. m.cs[2].k = "pcall"
    BY <1>2, <2>2, ActivationFacts DEF Above
  <2> QED
    BY <2>1, <2>3
<1>5. PICK x \in I : \A y \in I : y <= x
  <2>1. I # {} /\ I \in SUBSET (1 .. L) /\ L \in Nat
    BY <1>1, <1>4
  <2> QED
    BY <2>1, Greatest
<1>6. x \in DOMAIN m.cs /\ Is(x) /\ \A j \in x + 1 .. L : ~Is(j)
  <2>1. x \in 1 .. L /\ Is(x)
    OBVIOUS
  <2>2. ASSUME NEW j \in x + 1 .. L, Is(j) PROVE FALSE
    <3>1. j \in 1 .. L /\ x < j /\ j \in Int /\ x \in Int
      BY <1>1, <2>1
    <3>2. j <= x
      BY <1>5, <2>2, <3>1
    <3> QED
      BY ONLY <3>1, <3>2
  <2> QED
    BY <1>1, <2>1, <2>2
<1>7. i \in DOMAIN m.cs /\ Is(i) /\ \A j \in i + 1 .. L : m.cs[j].k \notin {"pcall", "resume"}
  BY <1>6 DEF ThrowTo
<1>8. i \in 2 .. L
  BY <1>1, <1>2, <1>7
<1>9. m.cs[i].t = Last(m.cs).t
  <2>1. \A j \in 1 .. L : m.cs[j] \in Activation
    BY <1>1, StackFacts
  <2>2. \A j \in 1 .. L : m.cs[j].t = "co" =>
          /\ \E u \in 1 .. L : u <= j /\ m.cs[u].k = "resume"
          /\ \A u \in 1 .. L : j < u => m.cs[u].t = "co" /\ m.cs[u].k # "resume"
    BY <1>1, StackFacts
  <2>3. i \in 1 .. L /\ L \in 1 .. L
    BY <1>1, <1>8
  <2>4. CASE m.cs[i].t = "co"
    <3>1. i = L \/ i < L
      BY <1>1, <1>8
    <3> QED
      BY <1>1, <2>2, <2>3, <2>4, <3>1
  <2>5. CASE m.cs[i].t = "main"
    <3> SUFFICES ASSUME m.cs[L].t # "main" PROVE FALSE
      BY <1>1, <2>5
    <3>1. m.cs[L].t = "co"
      BY <2>1, <2>3, ActivationFacts DEF Threads
    <3>2. PICK u \in 1 .. L : m.cs[u].k = "resume"
      BY <2>2, <2>3, <3>1
    <3>3. m.cs[u].t = "co"
      BY <2>1, <3>2, ActivationFacts
    <3>4. ~(u < i)
      BY <2>2, <2>3, <2>5, <3>3
    <3>5. u # i
      BY <2>5, <3>3
    <3>6. u \in i + 1 .. L
      BY <1>1, <1>8, <3>4, <3>5
    <3> QED
      BY <1>7, <3>2, <3>6
  <2>6. m.cs[i].t \in Threads
    BY <2>1, <2>3, ActivationFacts
  <2> QED
    BY <2>4, <2>5, <2>6 DEF Threads
<1> QED
  BY <1>7, <1>8, <1>9

LEMMA GoodFrom ==
  ASSUME NEW m, NEW d, NEW e, Inv(m, d, e), Rests(m, e)
  PROVE  Good(m)
  BY DEF Good, Inv, StackInv, Counts

LEMMA AnswerIs ==
  ASSUME NEW m \in State, m.cs # <<>>, NEW how
  PROVE  Answer(m, how) = [m EXCEPT !.cs[Len(m.cs)] = [Last(m.cs) EXCEPT !.pc = how]]
<1>1. m.cs \in Seq(Activation) /\ Len(m.cs) \in DOMAIN m.cs /\ Last(m.cs) = m.cs[Len(m.cs)]
  <2>1. m.cs \in Seq(Activation)
    BY DEF State
  <2> QED
    BY <2>1, LastOf
<1> QED
  BY <1>1 DEF Answer, State

(* Its answer reaches the C function that waits.                           *)
LEMMA PcSet ==
  ASSUME NEW a \in Activation, a.k \in {"jni", "cfun"}, NEW how \in {"ok", "failed"},
         NEW b, b = [a EXCEPT !.pc = how]
  PROVE  b \in Activation /\ b.k = a.k /\ b.t = a.t /\ b.pc = how /\ (a.k = "cfun" => b.f = a.f)
<1>1. CASE a.k = "jni"
  <2>1. a \in [k : {"jni"}, t : {"main"}, pc : {"idle", "ok", "failed"}]
    BY <1>1 DEF Activation
  <2>2. b \in [k : {"jni"}, t : {"main"}, pc : {"idle", "ok", "failed"}]
    BY <2>1
  <2> QED
    BY <1>1, <2>1, <2>2 DEF Activation
<1>2. CASE a.k = "cfun"
  <2>1. a \in [k : {"cfun"}, t : Threads, f : CFunctions, pc : {"run", "ok", "failed"}]
    BY <1>2 DEF Activation
  <2>2. b \in [k : {"cfun"}, t : Threads, f : CFunctions, pc : {"run", "ok", "failed"}]
    BY <2>1
  <2> QED
    BY <1>2, <2>1, <2>2 DEF Activation
<1> QED
  BY <1>1, <1>2

LEMMA Answered ==
  ASSUME NEW m, NEW d, NEW e, Inv(m, d, e), Quiet(m), Last(m.cs).k \in {"jni", "cfun"},
         Last(m.cs).k = "cfun" => Last(m.cs).f # "wrapped",
         NEW how \in {"ok", "failed"}, e[Len(m.cs)] < ErrCCalls
  PROVE  Good(Answer(m, how))
<1> DEFINE b == [Last(m.cs) EXCEPT !.pc = how]
           r == [m EXCEPT !.cs[Len(m.cs)] = b]
<1>1. m \in State /\ m.cs # <<>> /\ Last(m.cs) \in Activation
  BY RunningFacts
<1>2. /\ b \in Activation /\ b.k = Last(m.cs).k /\ b.t = Last(m.cs).t
      /\ b.k = "cfun" => b.f # "wrapped"
  BY <1>1, PcSet
<1> HIDE DEF b
<1>3. Inv(r, d, e) /\ Last(r.cs) = b /\ Len(r.cs) = Len(m.cs)
  BY <1>2, Continued
<1>4. Answer(m, how) = r
  BY <1>1, AnswerIs DEF b
<1> HIDE DEF r
<1>5. Rests(r, e)
  BY <1>2, <1>3 DEF Rests
<1> QED
  BY <1>3, <1>4, <1>5, GoodFrom

(* The coroutine stops, and its resumer gets the answer.                   *)
BackWith(m, e, r, i, b, K, how) ==
  /\ i \in 2 .. Len(m.cs) /\ m.cs[i].k = "resume" /\ e[Len(m.cs)] <= ErrCCalls
  /\ K \in Thread /\ FramesInv(K) /\ how \in {"ok", "failed"}
  /\ b = [m.cs[i - 1] EXCEPT !.pc = how]
  /\ how = "ok" => K.status # "error" /\ AtRest(K, b)
  /\ how = "failed" => K.status = "error" /\ Len(K.stk) >= Low(Frame(K))
  /\ r \in State /\ r.th = [m.th EXCEPT !["co"] = K]
  /\ r.cs = [SubSeq(m.cs, 1, i - 1) EXCEPT ![i - 1] = b]

LEMMA BackToMain ==
  ASSUME NEW m, NEW d, NEW e, Inv(m, d, e), NEW r, NEW i, NEW b, NEW K, NEW how,
         BackWith(m, e, r, i, b, K, how)
  PROVE  Good(r)
<1> DEFINE L == Len(m.cs)
           n == i - 1
           d1 == Upto(d, n)
           e1 == Upto(e, n)
<1>1. /\ i \in 2 .. L /\ m.cs[i].k = "resume" /\ e[L] <= ErrCCalls
      /\ K \in Thread /\ FramesInv(K) /\ how \in {"ok", "failed"}
      /\ b = [m.cs[n] EXCEPT !.pc = how]
      /\ how = "ok" => K.status # "error" /\ AtRest(K, b)
      /\ how = "failed" => K.status = "error" /\ Len(K.stk) >= Low(Frame(K))
      /\ r \in State /\ r.th = [m.th EXCEPT !["co"] = K]
      /\ r.cs = [SubSeq(m.cs, 1, n) EXCEPT ![n] = b]
  BY DEF BackWith
<1>2. /\ m \in State /\ m.cs \in Seq(Activation) /\ L \in Nat \ {0} /\ DOMAIN m.cs = 1 .. L
      /\ StackInv(m.cs, d, e)
  BY RunningFacts DEF Inv
<1>3. /\ n \in 1 .. L /\ n \in Nat \ {0} /\ n < i /\ i \in 1 .. L /\ n + 1 = i /\ n < L
      /\ \A j \in 1 .. n : j \in 1 .. L /\ j \in Nat /\ j < i /\ j < L
  BY <1>1, <1>2
<1>4. \A j \in 1 .. L : m.cs[j] \in Activation /\ d[j] \in Nat /\ e[j] \in Nat
  BY <1>2, StackFacts
<1>5. m.cs[i].t = "co"
  BY <1>1, <1>3, <1>4, ActivationFacts
<1>6. \A j \in 1 .. n : m.cs[j].t = "main" /\ m.cs[j].k # "resume"
  <2>1. \A j \in 1 .. L : m.cs[j].t = "co" =>
          \A u \in 1 .. L : j < u => m.cs[u].k # "resume"
    BY <1>2, StackFacts
  <2>2. \A j \in 1 .. n : m.cs[j].t # "co" /\ m.cs[j].t \in Threads
    BY <1>1, <1>3, <1>4, <2>1, ActivationFacts
  <2> QED
    BY <1>3, <1>4, <2>2, ActivationFacts DEF Threads
<1>7. m.cs[n].k = "cfun" /\ m.cs[n].f = "wrapped"
  <2>1. Above(m.cs[n], m.cs[i])
    BY <1>1, <1>2, <1>3, StackFacts
  <2> QED
    BY <1>1, <2>1 DEF Above
<1>8. /\ b \in Activation /\ b.k = "cfun" /\ b.t = "main" /\ b.pc = how /\ b.f = "wrapped"
  BY <1>1, <1>3, <1>4, <1>6, <1>7, PcSet
<1>9. StackInv(SubSeq(m.cs, 1, n), d1, e1) /\ SubSeq(m.cs, 1, n) \in Seq(Activation)
      /\ Len(SubSeq(m.cs, 1, n)) = n /\ \A j \in 1 .. n : SubSeq(m.cs, 1, n)[j] = m.cs[j]
  <2>1. n \in 1 .. Len(m.cs) /\ n \in 0 .. Len(m.cs)
    BY <1>3
  <2>2. StackInv(SubSeq(m.cs, 1, n), d1, e1)
    BY <1>2, <2>1, StackCut
  <2> QED
    BY <1>2, <2>1, <2>2, Prefix
<1>10. StackInv(r.cs, d1, e1)
  <2> DEFINE s == SubSeq(m.cs, 1, n)
  <2>1. s[n] = m.cs[n] /\ s \in Seq(Activation) /\ Len(s) = n /\ StackInv(s, d1, e1)
    BY <1>3, <1>9
  <2>2. r.cs = [s EXCEPT ![n] = b]
    BY <1>1
  <2>3. b.k = s[n].k /\ b.t = s[n].t /\ b.k \in {"jni", "cfun"}
    BY <1>3, <1>6, <1>7, <1>8, <2>1
  <2> HIDE DEF n, d1, e1, s
  <2>4. StackInv([s EXCEPT ![n] = b], d1, e1)
    BY ONLY <1>8, <2>1, <2>3, StackSame
  <2> QED
    BY <2>2, <2>4
<1>11. /\ Len(r.cs) = n /\ DOMAIN r.cs = 1 .. n /\ r.cs[n] = b /\ Last(r.cs) = b
       /\ \A j \in 1 .. n : j # n => r.cs[j] = m.cs[j]
  <2>1. DOMAIN SubSeq(m.cs, 1, n) = 1 .. n
    BY <1>9
  <2>2. DOMAIN r.cs = 1 .. n /\ r.cs[n] = b /\ \A j \in 1 .. n : j # n => r.cs[j] = m.cs[j]
    <3> DEFINE s == SubSeq(m.cs, 1, n)
    <3>1. DOMAIN s = 1 .. n /\ n \in 1 .. n /\ r.cs = [s EXCEPT ![n] = b]
      BY <1>1, <1>3, <2>1
    <3>2. \A j \in 1 .. n : s[j] = m.cs[j]
      BY <1>9
    <3> HIDE DEF n, s
    <3> QED
      BY <3>1, <3>2
  <2>3. r.cs \in Seq(Activation) /\ r.cs # <<>>
    BY <1>1, <1>10 DEF State, StackInv
  <2>4. Len(r.cs) = n
    BY <1>3, <2>2, <2>3, LenProperties
  <2> QED
    BY <2>2, <2>3, <2>4 DEF Last
<1>12. \A j \in 1 .. n : d1[j] = d[j] /\ e1[j] = e[j]
  BY DEF Upto
<1>13. r.th["main"] = m.th["main"] /\ r.th["co"] = K
  BY <1>1, <1>2 DEF State, Threads
<1> HIDE DEF n, d1, e1
<1>14. ASSUME NEW j \in 1 .. n, j # n PROVE ActivationInv(r, d1, e1, j)
  <2>1. ActivationInv(m, d, e, j) /\ j \in DOMAIN m.cs /\ m.cs[j].t = "main" /\ r.cs[j] = m.cs[j]
    BY <1>2, <1>3, <1>6, <1>11, <1>14 DEF Inv
  <2>2. \A u \in DOMAIN r.cs : j < u /\ Owns(r.cs[u]) => u \in DOMAIN m.cs /\ r.cs[u] = m.cs[u]
    BY <1>2, <1>3, <1>8, <1>11 DEF Owns
  <2>3. m.cs[j].k = "call" => m.cs[j].pc = "in"
    BY <1>3, ActivationsBelow
  <2>4. m.th["main"].stk \in Seq(Value) /\ Len(m.th["main"].stk) \in Nat
    BY <1>2, ThreadFacts DEF Threads
  <2>5. Owns(m.cs[j]) => Keeps(m.th["main"].stk, r.th["main"].stk, Floor(m.cs[j]) - 1)
    <3> SUFFICES ASSUME Owns(m.cs[j])
                 PROVE  Keeps(m.th["main"].stk, r.th["main"].stk, Floor(m.cs[j]) - 1)
      OBVIOUS
    <3>1. Floor(m.cs[j]) <= Len(m.th["main"].stk) + 1 /\ Floor(m.cs[j]) \in Nat
      BY <1>3, <1>4, <2>1, ActivationFacts DEF ActivationInv
    <3> QED
      BY <1>13, <2>4, <3>1 DEF Keeps
  <2>6. Owns(m.cs[j]) =>
          /\ \A u \in DOMAIN r.th["main"].ci : d[j] < u => Floor(m.cs[j]) <= r.th["main"].ci[u].func
          /\ \A u \in DOMAIN r.cs : j < u /\ Owns(r.cs[u]) /\ r.cs[u].t = "main" =>
               Floor(m.cs[j]) <= Floor(r.cs[u])
    BY <1>13, <2>1, <2>2 DEF ActivationInv
  <2>7. Finds(m, d, r, d1, j)
    <3>1. d1[j] \in DOMAIN r.th["main"].ci /\ d1[j] = d[j]
      BY <1>12, <1>13, <2>1 DEF ActivationInv
    <3>2. m.cs[j].k # "resume"
      BY <1>6
    <3> QED
      BY <1>13, <2>1, <2>3, <2>5, <2>6, <3>1, <3>2 DEF Finds
  <2>8. ~IsLast(r.cs, j)
    <3>1. j + 1 \in 1 .. n
      BY <1>3, <1>14
    <3>2. r.cs[j + 1].k # "resume"
      BY <1>6, <1>8, <1>11, <3>1
    <3> QED
      BY <1>11, <1>14, <3>2 DEF IsLast
  <2> QED
    BY <1>1, <1>2, <1>12, <2>1, <2>7, <2>8, ActivationKept
<1>15. ActivationInv(r, d1, e1, n)
  <2>1. ActivationInv(m, d, e, n) /\ m.cs[n].t = "main" /\ n \in 1 .. n
    BY <1>2, <1>3, <1>6 DEF Inv
  <2>2. IsLast(m.cs, n)
    BY <1>1, <1>3 DEF IsLast
  <2>3. d1[n] = d[n] /\ e1[n] = e[n]
    BY <1>12, <2>1
  <2>4. /\ d[n] \in DOMAIN m.th["main"].ci /\ Len(m.th["main"].ci) = d[n]
        /\ m.th["main"].nC = e[n] /\ ~m.th["main"].ci[d[n]].lua
    BY <1>7, <2>1, <2>2 DEF ActivationInv
  <2> QED
    BY <1>8, <1>11, <1>13, <2>3, <2>4 DEF ActivationInv, Owns
<1>16. ~Runs(r.cs)
  BY <1>6, <1>8, <1>11 DEF Runs
<1>17. AtRest(K, b) /\ K.ci # <<>>
  BY <1>1 DEF AtRest, FramesInv
<1>18. Inv(r, d1, e1)
  <2>1. CoroutineInv(r)
    BY <1>1, <1>11, <1>13, <1>16, <1>17 DEF CoroutineInv
  <2>2. FramesInv(r.th["main"]) /\ r.th["main"].baseC = 0
    BY <1>13 DEF Inv
  <2>3. \A j \in DOMAIN r.cs : ActivationInv(r, d1, e1, j)
    BY <1>11, <1>14, <1>15
  <2> QED
    BY <1>1, <1>10, <2>1, <2>2, <2>3 DEF Inv
<1>19. e1[n] < ErrCCalls
  <2>1. e[n] + Adds(m.cs[i]) <= e[i] /\ Adds(m.cs[i]) = 1
    <3>1. \A x, y \in 1 .. L : x < y => e[x] + Adds(m.cs[y]) <= e[y]
      BY <1>2, StackFacts
    <3> QED
      BY <1>1, <1>3, <3>1 DEF Adds, Nested
  <2>2. e[i] <= e[L]
    <3>1. \A x, y \in 1 .. L : x < y => e[x] + Adds(m.cs[y]) <= e[y]
      BY <1>2, StackFacts
    <3>2. L \in 1 .. L /\ (i = L \/ i < L) /\ Adds(m.cs[L]) \in {0, 1}
      BY <1>2, <1>3, <1>4, ActivationFacts
    <3>3. i < L => e[i] + Adds(m.cs[L]) <= e[L]
      BY <1>3, <3>1, <3>2
    <3>4. e[i] \in Nat /\ e[L] \in Nat
      BY <1>3, <1>4, <3>2
    <3> QED
      BY <3>2, <3>3, <3>4
  <2>3. e[n] \in Nat /\ e[i] \in Nat /\ e[L] \in Nat /\ ErrCCalls \in Nat /\ e1[n] = e[n]
    BY <1>2, <1>3, <1>4, <1>12, LimitsOrdered
  <2>4. e[L] <= ErrCCalls
    BY <1>1
  <2> QED
    BY ONLY <2>1, <2>2, <2>3, <2>4
<1>20. Rests(r, e1)
  <2>1. r.th["co"] = K /\ Last(r.cs) = b /\ Len(r.cs) = n
    BY <1>11, <1>13
  <2> QED
    BY <1>1, <1>8, <1>17, <1>19, <2>1 DEF Rests
<1> QED
  BY <1>18, <1>20, GoodFrom

-----------------------------------------------------------------------------
(* Inside a step, without the counts                                       *)

Sound(m) == Quiet(m) /\ \E d, e \in [DOMAIN m.cs -> Nat] : Inv(m, d, e)

LEMMA SoundFrom ==
  ASSUME NEW m, NEW d, NEW e, Inv(m, d, e), Quiet(m)
  PROVE  Sound(m)
  BY DEF Sound, Inv, StackInv, Counts

(* Two activations, one right above the other.                             *)
LEMMA StackStep ==
  ASSUME NEW s \in Seq(Activation), NEW d, NEW e, StackInv(s, d, e), NEW i \in 2 .. Len(s)
  PROVE  /\ i \in 1 .. Len(s) /\ i - 1 \in 1 .. Len(s) /\ i - 1 < i
         /\ s[i] \in Activation /\ s[i - 1] \in Activation /\ Above(s[i - 1], s[i])
         /\ s[i].k = "resume" => d[i] = FramesIn(s[i])
         /\ s[i].k # "resume" => d[i] = d[i - 1] + FramesIn(s[i]) /\ s[i - 1].t = s[i].t
         /\ e[i] = e[i - 1] + Adds(s[i])
         /\ d[i] \in Nat /\ e[i] \in Nat /\ d[i - 1] \in Nat /\ e[i - 1] \in Nat
<1>1. Len(s) \in Nat
  BY StackFacts
<1>2. i \in 1 .. Len(s) /\ i - 1 \in 1 .. Len(s) /\ i - 1 < i
  BY <1>1
<1>3. \A j \in 1 .. Len(s) : s[j] \in Activation /\ d[j] \in Nat /\ e[j] \in Nat
                            /\ FramesIn(s[j]) \in Nat
  BY StackFacts
<1>4. \A j \in 2 .. Len(s) : Above(s[j - 1], s[j])
  BY StackFacts
<1>5. \A j \in 2 .. Len(s) :
        d[j] = (IF s[j].k = "resume" THEN 0 ELSE d[j - 1]) + FramesIn(s[j])
  BY StackFacts
<1>6. \A j \in 2 .. Len(s) : e[j] = e[j - 1] + Adds(s[j])
  BY StackFacts
<1>7. Above(s[i - 1], s[i]) /\ e[i] = e[i - 1] + Adds(s[i])
  BY <1>4, <1>6
<1>8. d[i] = (IF s[i].k = "resume" THEN 0 ELSE d[i - 1]) + FramesIn(s[i])
  BY <1>5
<1>9. s[i].k # "resume" => s[i - 1].t = s[i].t
  BY <1>7 DEF Above
<1> QED
  BY <1>2, <1>3, <1>7, <1>8, <1>9

(* The activation on the top and the one below it.                         *)
LEMMA TopFacts ==
  ASSUME NEW m, NEW d, NEW e, Inv(m, d, e)
  PROVE  LET L == Len(m.cs)
             a == Last(m.cs)
             T == Running(m)
         IN  /\ L > 1 <=> a.k # "jni"
             /\ L > 1 => /\ L - 1 \in 1 .. L /\ L - 1 < L
                         /\ m.cs[L - 1] \in Activation /\ Above(m.cs[L - 1], a)
                         /\ e[L] = e[L - 1] + Adds(a)
                         /\ a.k # "resume" => /\ m.cs[L - 1].t = a.t
                                              /\ d[L] = d[L - 1] + FramesIn(a)
                                              /\ d[L - 1] \in 1 .. Len(T.ci)
             /\ a.k = "exec" => /\ Frame(T).lua /\ a.n \in Nat \ {0}
                                /\ a.n < Len(T.ci)
             /\ a.k = "cfun" => ~Frame(T).lua /\ Len(T.ci) > 1
             /\ a.k = "call" => /\ a.func \in Nat /\ a.want \in Result
                                /\ Low(Frame(T)) <= a.func
<1> DEFINE L == Len(m.cs)
           a == Last(m.cs)
           T == Running(m)
<1>1. /\ m \in State /\ m.cs \in Seq(Activation) /\ L \in Nat \ {0} /\ DOMAIN m.cs = 1 .. L
      /\ a = m.cs[L] /\ a \in Activation /\ T \in Thread /\ FramesInv(T)
      /\ Len(T.ci) = d[L] /\ T.nC = e[L] /\ StackInv(m.cs, d, e)
  BY RunningFacts DEF Inv
<1>2. m.cs[1].k = "jni" /\ \A i \in 2 .. L : Above(m.cs[i - 1], m.cs[i])
  BY <1>1, StackFacts
<1>3. L > 1 <=> a.k # "jni"
  <2>1. L > 1 => L \in 2 .. L
    BY <1>1
  <2> QED
    BY <1>1, <1>2, <2>1 DEF Above
<1>4. L > 1 => /\ L - 1 \in 1 .. L /\ L - 1 < L
               /\ m.cs[L - 1] \in Activation /\ Above(m.cs[L - 1], a)
               /\ e[L] = e[L - 1] + Adds(a)
  <2> SUFFICES ASSUME L > 1
               PROVE  /\ L - 1 \in 1 .. L /\ L - 1 < L
                      /\ m.cs[L - 1] \in Activation /\ Above(m.cs[L - 1], a)
                      /\ e[L] = e[L - 1] + Adds(a)
    OBVIOUS
  <2>1. L - 1 \in 1 .. L /\ L - 1 < L /\ L \in 2 .. L
    BY <1>1
  <2> QED
    BY <1>1, <2>1, StackFacts
<1>5. ActivationInv(m, d, e, L)
  BY <1>1 DEF Inv
<1>6. L > 1 /\ a.k # "resume" => /\ m.cs[L - 1].t = a.t
                                 /\ d[L] = d[L - 1] + FramesIn(a)
                                 /\ d[L - 1] \in 1 .. Len(T.ci)
  <2> SUFFICES ASSUME L > 1, a.k # "resume"
               PROVE  /\ m.cs[L - 1].t = a.t
                      /\ d[L] = d[L - 1] + FramesIn(a)
                      /\ d[L - 1] \in 1 .. Len(T.ci)
    OBVIOUS
  <2>1. m.cs[L - 1].t = a.t
    BY <1>4 DEF Above
  <2>2. d[L] = d[L - 1] + FramesIn(a)
    <3>1. L \in 2 .. L
      BY <1>1
    <3> QED
      BY <1>1, <3>1, StackStep
  <2>3. ActivationInv(m, d, e, L - 1)
    BY <1>1, <1>4 DEF Inv
  <2>4. d[L - 1] \in DOMAIN T.ci /\ DOMAIN T.ci = 1 .. Len(T.ci)
    BY <1>1, <2>1, <2>3, FramesFacts DEF ActivationInv, Running
  <2> QED
    BY <2>1, <2>2, <2>4
<1>7. Frame(T) = T.ci[d[L]] /\ d[L] \in Nat \ {0} /\ DOMAIN T.ci = 1 .. d[L] /\ ~T.ci[1].lua
  BY <1>1, FramesFacts DEF FramesInv
<1>8. ASSUME a.k = "exec" PROVE Frame(T).lua /\ a.n \in Nat \ {0} /\ a.n < Len(T.ci)
  <2>1. a.n \in Nat \ {0}
    BY <1>1, <1>3, <1>4, <1>8, ActivationFacts DEF Above
  <2>2. \A j \in DOMAIN T.ci : d[L] - a.n < j /\ j <= d[L] => T.ci[j].lua
    BY <1>1, <1>5, <1>8 DEF ActivationInv, Running
  <2>3. T.ci[d[L]].lua
    BY <1>7, <2>1, <2>2
  <2>4. ~(d[L] - a.n < 1)
    BY <1>7, <2>2
  <2>5. a.n < d[L]
    BY <1>7, <2>1, <2>4
  <2> QED
    BY <1>1, <1>7, <2>1, <2>3, <2>5
<1>9. ASSUME a.k = "cfun" PROVE ~Frame(T).lua /\ Len(T.ci) > 1
  <2>1. ~T.ci[d[L]].lua
    BY <1>1, <1>5, <1>9 DEF ActivationInv, Running
  <2>2. d[L] = d[L - 1] + 1 /\ d[L - 1] \in 1 .. Len(T.ci)
    BY <1>3, <1>6, <1>9 DEF FramesIn
  <2> QED
    BY <1>1, <1>7, <2>1, <2>2
<1>10. ASSUME a.k = "call"
       PROVE  a.func \in Nat /\ a.want \in Result /\ Low(Frame(T)) <= a.func
  <2>1. Low(T.ci[d[L]]) <= Floor(m.cs[L])
    BY <1>1, <1>5, <1>10 DEF ActivationInv, Running, Owns
  <2> QED
    BY <1>1, <1>7, <1>10, <2>1, ActivationFacts DEF Floor
<1> QED
  BY <1>3, <1>4, <1>6, <1>8, <1>9, <1>10

-----------------------------------------------------------------------------
(* luaD_throw                                                              *)

LEMMA CaughtFacts ==
  ASSUME NEW T \in Thread, FramesInv(T), NEW a, NEW v \in Value,
         a.top \in Nat, a.top > 0, a.top <= Len(T.stk) + 1, a.nC \in Int, a.ef \in Nat,
         a.ci \in 1 .. Len(T.ci)
  PROVE  LET U == Caught(T, a, v)
         IN  /\ U \in Thread /\ Keeps(T.stk, U.stk, a.top - 1)
             /\ U.ci = SubSeq(T.ci, 1, a.ci) /\ U.base = T.ci[a.ci].base
             /\ U.open = {p \in T.open : p < a.top} /\ U.nC = a.nC
             /\ U.status = T.status /\ U.baseC = T.baseC /\ a.ci <= SizeCI(U)
<1> DEFINE s == Append(SubSeq(T.stk, 1, a.top - 1), v)
           c == SubSeq(T.ci, 1, a.ci)
           o == {p \in T.open : p < a.top}
           V == [T EXCEPT !.open = o, !.stk = s, !.nC = a.nC, !.ci = c,
                          !.base = T.ci[a.ci].base, !.ef = a.ef]
           U == Caught(T, a, v)
<1>1. /\ T.stk \in Seq(Value) /\ Len(T.stk) \in Nat /\ T.ci \in Seq(CallInfo)
      /\ Len(T.ci) \in Nat /\ T.open \in SUBSET Nat /\ T.over \in BOOLEAN
      /\ T.ci[a.ci].base \in Nat /\ Len(T.ci) <= SizeCI(T)
  BY FramesFacts DEF Thread, FramesInv
<1>2. a.top - 1 \in 0 .. Len(T.stk) /\ a.ci \in 0 .. Len(T.ci)
  BY <1>1
<1>3. s \in Seq(Value) /\ Keeps(T.stk, s, a.top - 1)
  <2>1. /\ SubSeq(T.stk, 1, a.top - 1) \in Seq(Value)
        /\ Len(SubSeq(T.stk, 1, a.top - 1)) = a.top - 1
        /\ \A i \in 1 .. a.top - 1 : SubSeq(T.stk, 1, a.top - 1)[i] = T.stk[i]
    BY <1>1, <1>2, Prefix
  <2> QED
    BY <1>1, <1>2, <2>1, Appended DEF Keeps
<1>4. c \in Seq(CallInfo) /\ Len(c) = a.ci
  BY <1>1, <1>2, Prefix
<1>5. U = RestoreStackLimit(V)
  BY DEF Caught, Close
<1>6. V \in Thread /\ V.ci = c /\ V.over = T.over /\ V.stk = s /\ V.open = o
      /\ V.nC = a.nC /\ V.status = T.status /\ V.baseC = T.baseC /\ V.base = T.ci[a.ci].base
  <2>1. o \in SUBSET Nat
    BY <1>1
  <2> HIDE DEF s, c, o
  <2> QED
    BY <1>1, <1>3, <1>4, <2>1 DEF Thread
<1> HIDE DEF s, c, o, V, U
<1>7. U = [V EXCEPT !.over = @ /\ Len(V.ci) >= MaxCalls]
  BY <1>5 DEF RestoreStackLimit
<1>8. /\ U \in Thread /\ U.ci = c /\ U.stk = s /\ U.open = o /\ U.nC = a.nC
      /\ U.status = T.status /\ U.baseC = T.baseC /\ U.base = T.ci[a.ci].base
      /\ U.over = (T.over /\ a.ci >= MaxCalls)
  <2>1. (V.over /\ Len(V.ci) >= MaxCalls) \in BOOLEAN
    OBVIOUS
  <2> QED
    BY <1>4, <1>6, <1>7, <2>1 DEF Thread
<1>9. a.ci <= SizeCI(U)
  <2>1. MaxCalls \in Nat /\ ErrorCalls \in Nat /\ a.ci \in Nat /\ a.ci <= Len(T.ci)
    BY <1>1, <1>2, LimitsOrdered
  <2> DEFINE x == a.ci
  <2>4. x \in Nat /\ x <= Len(T.ci) /\ Len(T.ci) \in Nat /\ U.over = (T.over /\ x >= MaxCalls)
    BY <1>1, <1>8, <2>1
  <2> HIDE DEF x
  <2>2. CASE T.over
    <3>1. Len(T.ci) <= MaxCalls + ErrorCalls
      BY <1>1, <2>2 DEF SizeCI
    <3>2. x <= SizeCI(U)
      <4>1. CASE x >= MaxCalls
        <5>1. U.over
          BY <2>2, <2>4, <4>1
        <5> QED
          BY <2>1, <2>4, <3>1, <5>1 DEF SizeCI
      <4>2. CASE ~(x >= MaxCalls)
        <5>1. ~U.over
          BY <2>4, <4>2
        <5> QED
          BY <2>1, <2>4, <4>2, <5>1 DEF SizeCI
      <4> QED
        BY <4>1, <4>2
    <3> QED
      BY <3>2 DEF x
  <2>3. CASE ~T.over
    <3>1. Len(T.ci) <= MaxCalls
      BY <1>1, <2>3 DEF SizeCI
    <3>2. x <= SizeCI(U)
      <4>1. ~U.over
        BY <2>3, <2>4
      <4> QED
        BY <2>1, <2>4, <3>1, <4>1 DEF SizeCI
    <3> QED
      BY <3>2 DEF x
  <2> QED
    BY <2>2, <2>3
<1> QED
  BY <1>3, <1>8, <1>9 DEF U, c, o, s

LEMMA DiedFacts ==
  ASSUME NEW T \in Thread, FramesInv(T), NEW v \in Value
  PROVE  LET U == Died(T, v)
         IN  U \in Thread /\ FramesInv(U) /\ U.status = "error" /\ Len(U.stk) >= Low(Frame(U))
<1> DEFINE q == Len(T.ci)
           n == Len(T.stk)
           s == Append(T.stk, v)
           V == [T EXCEPT !.stk = s, !.status = "error", !.nC = @ - 1]
           U == [V EXCEPT !.ci[q].top = n + 2]
<1>1. /\ T.stk \in Seq(Value) /\ n \in Nat /\ T.ci \in Seq(CallInfo) /\ q \in Nat \ {0}
      /\ Frame(T) = T.ci[q] /\ Low(T.ci[q]) \in Nat /\ n >= Low(T.ci[q]) - 1
      /\ DOMAIN T.ci = 1 .. q /\ q \in 1 .. q /\ T.ci[q].base <= Low(T.ci[q])
      /\ T.ci[q].base \in Nat
  BY FramesFacts
<1>2. s \in Seq(Value) /\ Len(s) = n + 1 /\ Keeps(T.stk, s, n)
  BY <1>1, Appended DEF Keeps
<1> HIDE DEF s
<1>3. V \in Thread /\ V.ci = T.ci /\ V.stk = s /\ V.over = T.over /\ V.open = T.open
      /\ V.base = T.base /\ V.status = "error"
  <2>1. T.nC - 1 \in Int
    BY DEF Thread
  <2> QED
    BY <1>2, <2>1 DEF Thread
<1>4. Died(T, v) = U
  BY <1>1, <1>2 DEF Died, PushValueOf, Top, s
<1> HIDE DEF V
<1>5. /\ U.ci \in Seq(CallInfo) /\ Len(U.ci) = q /\ DOMAIN U.ci = 1 .. q
      /\ \A i \in 1 .. q : i # q => U.ci[i] = T.ci[i]
      /\ U.ci[q] = [T.ci[q] EXCEPT !.top = n + 2]
      /\ U.stk = s /\ U.over = T.over /\ U.open = T.open /\ U.base = T.base
      /\ U.status = "error"
  <2>1. [T.ci[q] EXCEPT !.top = n + 2] \in CallInfo
    <3>1. T.ci[q] \in CallInfo /\ n + 2 \in Nat
      BY <1>1, ElementOfSeq
    <3> QED
      BY <3>1 DEF CallInfo
  <2>2. V.ci \in Seq(CallInfo)
    BY <1>1, <1>3
  <2>3. U.ci = [T.ci EXCEPT ![q] = [T.ci[q] EXCEPT !.top = n + 2]]
    BY <1>1, <1>3 DEF Thread
  <2>4. U.stk = s /\ U.over = T.over /\ U.open = T.open /\ U.base = T.base
        /\ U.status = "error"
    BY <1>3 DEF Thread
  <2> HIDE DEF U
  <2> QED
    BY <1>1, <2>1, <2>3, <2>4, ExceptSeq
<1>6. U \in Thread
  <2>1. U = [V EXCEPT !.ci = U.ci]
    BY <1>3, <1>1, <1>5 DEF Thread
  <2> QED
    BY <1>3, <1>5, <2>1 DEF Thread
<1> HIDE DEF U
<1>7. \A i \in 1 .. q : /\ U.ci[i].func = T.ci[i].func /\ U.ci[i].base = T.ci[i].base
                        /\ U.ci[i].lua = T.ci[i].lua /\ U.ci[i].under = T.ci[i].under
                        /\ U.ci[i].captured = T.ci[i].captured
                        /\ U.ci[i].lua => U.ci[i].top > U.ci[i].base
  <2> SUFFICES ASSUME NEW i \in 1 .. q
               PROVE  /\ U.ci[i].func = T.ci[i].func /\ U.ci[i].base = T.ci[i].base
                      /\ U.ci[i].lua = T.ci[i].lua /\ U.ci[i].under = T.ci[i].under
                      /\ U.ci[i].captured = T.ci[i].captured
                      /\ U.ci[i].lua => U.ci[i].top > U.ci[i].base
    OBVIOUS
  <2>1. T.ci[i].lua => T.ci[i].top > T.ci[i].base
    BY FrameFacts
  <2>2. CASE i # q
    BY <1>5, <2>1, <2>2
  <2>3. CASE i = q
    <3>1. T.ci[q] \in CallInfo
      BY <1>1, ElementOfSeq
    <3>2. /\ U.ci[q].func = T.ci[q].func /\ U.ci[q].base = T.ci[q].base
          /\ U.ci[q].lua = T.ci[q].lua /\ U.ci[q].under = T.ci[q].under
          /\ U.ci[q].captured = T.ci[q].captured /\ U.ci[q].top = n + 2
      BY <1>5, <3>1 DEF CallInfo
    <3>3. n + 2 > T.ci[q].base
      BY <1>1
    <3> QED
      BY <2>3, <3>2, <3>3
  <2> QED
    BY <2>2, <2>3
<1>8. Alike(T, U)
  <2>1. Len(T.ci) <= SizeCI(T) /\ T.open = UNION {T.ci[i].captured : i \in 1 .. q}
    BY <1>1 DEF FramesInv
  <2>2. U.open = UNION {U.ci[i].captured : i \in 1 .. q}
    BY <1>5, <1>7, <2>1
  <2>3. Len(U.ci) <= SizeCI(U)
    BY <1>5, <2>1 DEF SizeCI
  <2>4. \A i \in 1 .. q :
          U.ci[i].captured \subseteq (IF U.ci[i].lua THEN {U.ci[i].base} ELSE {})
    BY <1>7, FrameFacts
  <2> QED
    BY <1>5, <1>7, <2>2, <2>3, <2>4 DEF Alike
<1>9. FramesInv(U)
  <2>1. n + 1 \in Nat /\ Low(Frame(T)) <= n + 1 /\ Keeps(T.stk, U.stk, n + 1 - 1)
    BY <1>1, <1>2, <1>5
  <2> QED
    BY <1>6, <1>8, <2>1, FramesAlike
<1>10. Len(U.stk) >= Low(Frame(U))
  <2>1. Frame(U) = U.ci[q]
    BY <1>5, <1>6, <1>9, FramesFacts
  <2>2. Low(U.ci[q]) = Low(T.ci[q])
    BY <1>1, <1>7 DEF Low
  <2> QED
    BY <1>1, <1>2, <1>5, <2>1, <2>2
<1> QED
  BY <1>4, <1>5, <1>6, <1>9, <1>10

LEMMA ThrowPcall ==
  ASSUME NEW m, NEW d, NEW e, Inv(m, d, e), Quiet(m), Last(m.cs).k # "jni",
         NEW v \in Value, NEW i, i = ThrowTo(m), m.cs[i].k = "pcall",
         \/ e[Len(m.cs)] < ErrCCalls
         \/ e[Len(m.cs)] <= ErrCCalls /\ Nested(Last(m.cs))
  PROVE  Good(Throw(m, v))
<1> DEFINE L == Len(m.cs)
           t == Last(m.cs).t
           T == Running(m)
           n == i - 1
           a == m.cs[i]
           p == a.top
           U == Caught(T, a, v)
           to == [m EXCEPT !.cs = SubSeq(m.cs, 1, n)]
           r == Update(to, t, U)
           q == d[i]
<1>1. /\ m \in State /\ m.cs \in Seq(Activation) /\ L \in Nat \ {0} /\ DOMAIN m.cs = 1 .. L
      /\ Last(m.cs) = m.cs[L] /\ StackInv(m.cs, d, e) /\ t \in Threads
      /\ T \in Thread /\ FramesInv(T) /\ Len(T.ci) = d[L]
  BY RunningFacts DEF Inv
<1>2. i \in 2 .. L /\ a.t = t
  BY Thrown
<1>3. /\ i \in 1 .. L /\ n \in 1 .. L /\ n < i /\ n < L /\ n \in 0 .. L /\ i - 1 = n
      /\ \A j \in 1 .. n : j \in 1 .. L /\ j < i
  BY <1>1, <1>2
<1>4. \A j \in 1 .. L : /\ m.cs[j] \in Activation /\ d[j] \in Nat /\ e[j] \in Nat
                        /\ Adds(m.cs[j]) \in {0, 1}
  BY <1>1, StackFacts
<1>5. /\ a.k = "pcall" /\ a.top \in Nat /\ a.ci \in Nat /\ a.nC \in Int /\ a.ef \in Nat
      /\ Owns(a) /\ Floor(a) = p
  BY <1>3, <1>4, ActivationFacts DEF Owns, Floor
<1>6. /\ Above(m.cs[n], a)
      /\ d[i] = (IF a.k = "resume" THEN 0 ELSE d[n]) + FramesIn(a)
      /\ e[i] = e[n] + Adds(a)
  <2>1. a.k # "resume"
    BY <1>5
  <2>2. Above(m.cs[n], a) /\ e[i] = e[n] + Adds(a)
    BY <1>1, <1>2, StackStep
  <2>3. d[i] = d[n] + FramesIn(a)
    BY <1>1, <1>2, <2>1, StackStep
  <2> QED
    BY <2>1, <2>2, <2>3
<1>7. q = d[n] /\ e[n] = e[i] /\ m.cs[n].t = t
  <2>1. FramesIn(a) = 0 /\ Adds(a) = 0 /\ a.k # "resume"
    BY <1>5 DEF FramesIn, Adds, Nested
  <2>2. d[i] = d[n] + 0 /\ e[i] = e[n] + 0
    BY <1>6, <2>1
  <2>3. m.cs[n].t = a.t
    BY <1>6, <2>1 DEF Above
  <2> QED
    BY <1>2, <1>3, <1>4, <2>2, <2>3
<1>8. ActivationInv(m, d, e, i)
  BY <1>1, <1>3 DEF Inv
<1>9. /\ q \in 1 .. Len(T.ci) /\ a.ci = q /\ a.nC = e[i]
      /\ Low(T.ci[q]) <= p /\ p <= Len(T.stk) + 1
      /\ \A j \in 1 .. Len(T.ci) : q < j => p <= T.ci[j].func
  <2>1. DOMAIN T.ci = 1 .. Len(T.ci)
    BY <1>1, FramesFacts
  <2> HIDE DEF a, T
  <2>2. a = m.cs[i] /\ T = m.th[a.t]
    BY <1>2 DEF a, T, Running
  <2> QED
    BY <1>5, <1>8, <2>1, <2>2 DEF ActivationInv
<1>10. /\ T.stk \in Seq(Value) /\ Len(T.stk) \in Nat /\ Low(T.ci[q]) \in Nat
       /\ T.ci[q].base \in Nat /\ T.ci[q].base <= Low(T.ci[q]) /\ T.ci[q].func < Low(T.ci[q])
       /\ T.ci[q].func \in Nat /\ Len(T.ci) \in Nat
  BY <1>1, <1>9, FramesFacts
<1> HIDE DEF L, t, T, n, a, p, q
<1>11. /\ U \in Thread /\ Keeps(T.stk, U.stk, p - 1)
       /\ U.ci = SubSeq(T.ci, 1, q) /\ U.base = T.ci[q].base
       /\ U.open = {x \in T.open : x < p} /\ U.nC = e[n]
       /\ U.status = T.status /\ U.baseC = T.baseC /\ q <= SizeCI(U)
  <2>1. a.top > 0 /\ a.top \in Nat /\ a.top <= Len(T.stk) + 1 /\ a.ci \in 1 .. Len(T.ci)
    BY <1>5, <1>9, <1>10 DEF p
  <2> QED
    BY <1>1, <1>5, <1>7, <1>9, <2>1, CaughtFacts DEF p
<1> HIDE DEF U
<1>12. U.open = UNION {T.ci[j].captured : j \in 1 .. q}
  <2>1. \A j \in 1 .. q : Low(T.ci[j]) <= p
    <3> SUFFICES ASSUME NEW j \in 1 .. q PROVE Low(T.ci[j]) <= p
      OBVIOUS
    <3>1. j \in 1 .. Len(T.ci) /\ (j = q \/ j < q) /\ q \in 1 .. Len(T.ci)
      BY <1>9
    <3>2. j < q => Low(T.ci[j]) < Low(T.ci[q])
      BY <1>1, <3>1, FramesFacts
    <3>3. Low(T.ci[j]) \in Nat
      BY <1>1, <3>1, FramesFacts
    <3>4. p \in Nat
      BY <1>5 DEF p
    <3> QED
      BY <1>9, <1>10, <3>1, <3>2, <3>3, <3>4
  <2>2. \A j \in q + 1 .. Len(T.ci) : p <= T.ci[j].base
    <3> SUFFICES ASSUME NEW j \in q + 1 .. Len(T.ci) PROVE p <= T.ci[j].base
      OBVIOUS
    <3>1. j \in 1 .. Len(T.ci) /\ q < j
      BY <1>9
    <3>2. p <= T.ci[j].func /\ T.ci[j].func < T.ci[j].base
      BY <1>1, <1>9, <3>1, FrameFacts
    <3>3. T.ci[j].func \in Nat /\ T.ci[j].base \in Nat /\ p \in Nat
      BY <1>1, <1>5, <3>1, FramesFacts DEF p
    <3> QED
      BY <3>2, <3>3
  <2>3. q \in 0 .. Len(T.ci) /\ p \in Nat
    BY <1>5, <1>9 DEF p
  <2> QED
    BY <1>1, <1>11, <2>1, <2>2, <2>3, OpenCut
<1>13. \A j \in 1 .. n : Owns(m.cs[j]) /\ m.cs[j].t = t => Floor(m.cs[j]) <= p
  <2> SUFFICES ASSUME NEW j \in 1 .. n, Owns(m.cs[j]), m.cs[j].t = t
               PROVE  Floor(m.cs[j]) <= p
    OBVIOUS
  <2>1. j \in 1 .. L /\ j < i /\ i \in 1 .. L
    BY <1>3
  <2>2. ActivationInv(m, d, e, j)
    BY <1>1, <2>1 DEF Inv
  <2> QED
    BY <1>1, <1>2, <1>5, <2>1, <2>2 DEF ActivationInv, a
<1>14. /\ to \in State /\ to.th = m.th /\ to.cs = SubSeq(m.cs, 1, n)
  <2>1. SubSeq(m.cs, 1, n) \in Seq(Activation)
    <3>1. n \in 0 .. Len(m.cs)
      BY <1>3 DEF L
    <3> QED
      BY <1>1, <3>1, Prefix
  <2> QED
    BY <1>1, <2>1 DEF State
<1> HIDE DEF to
<1>15. /\ r \in State /\ r.cs = SubSeq(m.cs, 1, n) /\ r.th[t] = U
       /\ \A u \in Threads : u # t => r.th[u] = m.th[u]
  BY <1>1, <1>11, <1>14, Updated
<1> HIDE DEF r
<1>16. GoesBack(m, d, e, r, n, p, U)
  <2>1. p \in Nat
    BY <1>5 DEF p
  <2> QED
    BY <1>3, <1>7, <1>9, <1>11, <1>12, <1>13, <1>15, <2>1 DEF GoesBack, t, T, L
<1>17. /\ Inv(r, Upto(d, n), Upto(e, n)) /\ Quiet(r) /\ Last(r.cs) = m.cs[n] /\ Len(r.cs) = n
  BY <1>16, CutBack
<1>18. /\ m.cs[n].k \in {"jni", "cfun"}
       /\ m.cs[n].k = "cfun" => m.cs[n].f # "wrapped"
  BY <1>5, <1>6 DEF Above
<1>19. Upto(e, n)[n] < ErrCCalls
  <2>1. \A x, y \in 1 .. L : x < y => e[x] + Adds(m.cs[y]) <= e[y]
    BY <1>1, StackFacts DEF L
  <2>2. L \in 1 .. L /\ (i = L \/ i < L)
    BY <1>1, <1>3
  <2>3. e[L] < ErrCCalls \/ (e[L] <= ErrCCalls /\ Adds(m.cs[L]) = 1 /\ i # L)
    <3>1. ~Nested(a)
      BY <1>5 DEF Nested
    <3> QED
      BY <1>1, <3>1 DEF Adds, L, a
  <2>4. i < L => e[i] + Adds(m.cs[L]) <= e[L]
    BY <1>3, <2>1, <2>2
  <2>5. e[i] \in Nat /\ e[L] \in Nat /\ Adds(m.cs[L]) \in {0, 1} /\ ErrCCalls \in Nat
    BY <1>3, <1>4, <2>2, LimitsOrdered
  <2>6. e[i] < ErrCCalls
    BY ONLY <2>2, <2>3, <2>4, <2>5
  <2>7. n \in 1 .. n
    BY <1>3
  <2> QED
    BY <1>7, <2>6, <2>7 DEF Upto
<1>20. Throw(m, v) = Answer(r, "failed")
  <2>1. a.t = t /\ m.th[a.t] = T
    BY <1>2 DEF T, Running, t
  <2> QED
    BY <1>5, <2>1 DEF Throw, a, r, to, n, U
<1>21. Last(r.cs).k = "cfun" => Last(r.cs).f # "wrapped"
  BY <1>17, <1>18
<1> QED
  BY <1>17, <1>18, <1>19, <1>20, <1>21, Answered

LEMMA ThrowResume ==
  ASSUME NEW m, NEW d, NEW e, Inv(m, d, e), Last(m.cs).k # "jni",
         NEW v \in Value, NEW i, i = ThrowTo(m), m.cs[i].k = "resume",
         e[Len(m.cs)] <= ErrCCalls
  PROVE  Good(Throw(m, v))
<1> DEFINE L == Len(m.cs)
           t == Last(m.cs).t
           T == Running(m)
           n == i - 1
           a == m.cs[i]
           U == Died(T, v)
           s == SubSeq(m.cs, 1, n)
           to == [m EXCEPT !.cs = s]
           m1 == Update(to, t, U)
           b == [m.cs[n] EXCEPT !.pc = "failed"]
           r == [m1 EXCEPT !.cs[n] = b]
<1>1. /\ m \in State /\ m.cs \in Seq(Activation) /\ L \in Nat \ {0} /\ DOMAIN m.cs = 1 .. L
      /\ Last(m.cs) = m.cs[L] /\ StackInv(m.cs, d, e) /\ t \in Threads
      /\ T \in Thread /\ FramesInv(T)
  BY RunningFacts DEF Inv
<1>2. i \in 2 .. L /\ a.t = t
  BY Thrown
<1>3. /\ i \in 1 .. L /\ n \in 1 .. L /\ n \in 0 .. L /\ n \in 1 .. n
  BY <1>1, <1>2
<1>4. a \in Activation /\ m.cs[n] \in Activation
  BY <1>1, <1>3, StackFacts
<1>5. t = "co"
  BY <1>2, <1>4, ActivationFacts
<1>6. m.cs[n].k = "cfun"
  <2>1. Above(m.cs[n], a)
    BY <1>1, <1>2, StackFacts
  <2> QED
    BY <2>1 DEF Above
<1>7. b \in Activation
  BY <1>4, <1>6, PcSet
<1>8. s \in Seq(Activation) /\ Len(s) = n /\ DOMAIN s = 1 .. n /\ s[n] = m.cs[n]
  BY <1>1, <1>3, Prefix
<1>9. U \in Thread /\ FramesInv(U) /\ U.status = "error" /\ Len(U.stk) >= Low(Frame(U))
  BY <1>1, DiedFacts
<1>10. to \in State /\ to.th = m.th /\ to.cs = s
  BY <1>1, <1>8 DEF State
<1>11. Throw(m, v) = Answer(m1, "failed")
  <2>1. a.t = t /\ m.th[a.t] = T
    BY <1>2 DEF Running
  <2> QED
    BY <2>1 DEF Throw
<1> HIDE DEF s, to, U
<1>12. m1 \in State /\ m1.cs = s /\ m1.th = [m.th EXCEPT !["co"] = U]
  <2>1. m1 \in State /\ m1.cs = s
    BY <1>1, <1>9, <1>10, Updated
  <2>2. m1.th = [m.th EXCEPT !["co"] = U]
    BY <1>5, <1>10 DEF Update, State
  <2> QED
    BY <2>1, <2>2
<1> HIDE DEF m1, b
<1>13. Throw(m, v) = r
  <2> HIDE DEF n
  <2>1. m1.cs # <<>> /\ Last(m1.cs) = m.cs[n] /\ Len(m1.cs) = n
    <3>1. s # <<>>
      BY <1>3, <1>8
    <3> QED
      BY <1>8, <1>12, <3>1, LastOf
  <2> QED
    <3>1. Answer(m1, "failed") = [m1 EXCEPT !.cs[n] = [m.cs[n] EXCEPT !.pc = "failed"]]
      <4>1. m1.cs[n] = m.cs[n]
        BY <1>8, <1>12
      <4> QED
        BY <2>1, <4>1 DEF Answer
    <3> QED
      BY <1>11, <3>1 DEF b
<1>14. r \in State /\ r.th = m1.th /\ r.cs = [s EXCEPT ![n] = b]
  <2>1. [s EXCEPT ![n] = b] \in Seq(Activation)
    BY <1>3, <1>7, <1>8, ExceptSeq
  <2>2. r.cs = [s EXCEPT ![n] = b] /\ r.th = m1.th
    BY <1>12 DEF State
  <2>3. r = [m1 EXCEPT !.cs = [s EXCEPT ![n] = b]]
    BY <1>12
  <2> QED
    BY <1>12, <2>1, <2>2, <2>3 DEF State
<1> HIDE DEF r
<1>15. BackWith(m, e, r, i, b, U, "failed")
  <2>1. r.cs = [SubSeq(m.cs, 1, i - 1) EXCEPT ![i - 1] = b]
    BY <1>14 DEF s
  <2> QED
    BY <1>2, <1>9, <1>12, <1>14, <2>1 DEF BackWith, b
<1> QED
  BY <1>13, <1>15, BackToMain

LEMMA ThrowGood ==
  ASSUME NEW m, Sound(m), Last(m.cs).k # "jni", NEW v \in Value,
         \/ Running(m).nC < ErrCCalls
         \/ Running(m).nC <= ErrCCalls /\ Nested(Last(m.cs))
  PROVE  Good(Throw(m, v))
<1>1. PICK d, e \in [DOMAIN m.cs -> Nat] : Inv(m, d, e)
  BY DEF Sound
<1> DEFINE i == ThrowTo(m)
<1>2. /\ i \in 2 .. Len(m.cs) /\ m.cs[i].k \in {"pcall", "resume"}
  BY <1>1, Thrown
<1>3. Running(m).nC = e[Len(m.cs)] /\ e[Len(m.cs)] \in Nat /\ ErrCCalls \in Nat
  <2>1. Running(m).nC = e[Len(m.cs)] /\ Len(m.cs) \in DOMAIN m.cs
    BY <1>1, RunningFacts
  <2> QED
    BY <2>1, LimitsOrdered
<1>4. Quiet(m)
  BY DEF Sound
<1> HIDE DEF i
<1>5. CASE m.cs[i].k = "pcall"
  BY <1>1, <1>3, <1>4, <1>5, ThrowPcall DEF i
<1>6. CASE m.cs[i].k = "resume"
  <2>1. e[Len(m.cs)] <= ErrCCalls
    BY <1>3
  <2> QED
    BY <1>1, <1>6, <2>1, ThrowResume DEF i
<1> QED
  BY <1>2, <1>5, <1>6

-----------------------------------------------------------------------------
(* Parts of a step                                                         *)

LEMMA SoundFacts ==
  ASSUME NEW m, Sound(m)
  PROVE  LET L == Len(m.cs)
             a == Last(m.cs)
             T == Running(m)
         IN  /\ m \in State /\ m.cs \in Seq(Activation) /\ m.cs # <<>>
             /\ L \in Nat \ {0} /\ DOMAIN m.cs = 1 .. L /\ a = m.cs[L] /\ a \in Activation
             /\ a.t \in Threads /\ T = m.th[a.t] /\ T \in Thread /\ FramesInv(T)
             /\ T.stk \in Seq(Value) /\ Len(T.stk) \in Nat /\ T.nC \in Nat
             /\ Len(T.ci) \in Nat \ {0} /\ Frame(T) = T.ci[Len(T.ci)]
             /\ Low(Frame(T)) \in Nat \ {0} /\ Len(T.stk) >= Low(Frame(T)) - 1
             /\ L > 1 <=> a.k # "jni"
             /\ L > 1 => m.cs[L - 1] \in Activation /\ Above(m.cs[L - 1], a)
             /\ a.k = "exec" => /\ Frame(T).lua /\ a.n \in Nat \ {0}
                                /\ a.n < Len(T.ci)
             /\ a.k = "cfun" => ~Frame(T).lua /\ Len(T.ci) > 1
             /\ a.k = "call" => /\ a.func \in Nat /\ a.want \in Result
                                /\ Low(Frame(T)) <= a.func
<1>1. PICK d, e \in [DOMAIN m.cs -> Nat] : Inv(m, d, e)
  BY DEF Sound
<1> DEFINE L == Len(m.cs)
           a == Last(m.cs)
           T == Running(m)
<1>2. /\ m \in State /\ m.cs \in Seq(Activation) /\ m.cs # <<>>
      /\ L \in Nat \ {0} /\ DOMAIN m.cs = 1 .. L /\ a = m.cs[L] /\ a \in Activation
      /\ a.t \in Threads /\ T \in Thread /\ FramesInv(T) /\ T.stk \in Seq(Value)
      /\ T.nC = e[L]
  BY <1>1, RunningFacts
<1>3. T.nC \in Nat /\ T = m.th[a.t]
  <2>1. e \in [1 .. L -> Nat] /\ L \in 1 .. L
    BY <1>2
  <2> QED
    BY <1>2, <2>1 DEF Running
<1>4. /\ Len(T.stk) \in Nat /\ Len(T.ci) \in Nat \ {0} /\ Frame(T) = T.ci[Len(T.ci)]
      /\ Len(T.stk) >= Low(Frame(T)) - 1
  BY <1>2, FramesFacts
<1>5. Low(Frame(T)) \in Nat \ {0}
  <2>1. Len(T.ci) \in 1 .. Len(T.ci)
    BY <1>4
  <2>2. T.ci[Len(T.ci)].func \in Nat /\ Low(Frame(T)) \in Nat
        /\ T.ci[Len(T.ci)].func < Low(Frame(T))
    BY <1>2, <1>4, <2>1, FramesFacts
  <2> QED
    BY <2>2
<1>6. L > 1 <=> a.k # "jni"
  BY <1>1, TopFacts
<1>7. L > 1 => m.cs[L - 1] \in Activation /\ Above(m.cs[L - 1], a)
  BY <1>1, TopFacts
<1>8. /\ a.k = "exec" => Frame(T).lua /\ a.n \in Nat \ {0} /\ a.n < Len(T.ci)
      /\ a.k = "cfun" => ~Frame(T).lua /\ Len(T.ci) > 1
      /\ a.k = "call" => a.func \in Nat /\ a.want \in Result /\ Low(Frame(T)) <= a.func
  BY <1>1, TopFacts
<1> QED
  BY <1>2, <1>3, <1>4, <1>5, <1>6, <1>7, <1>8

LEMMA AboveMore ==
  ASSUME NEW m, Sound(m), NEW p, AboveAll(m, p), NEW q \in Nat, p <= q
  PROVE  AboveAll(m, q)
<1>1. m.cs \in Seq(Activation) /\ Low(Frame(Running(m))) \in Nat
  BY SoundFacts
<1>2. \A j \in DOMAIN m.cs : Owns(m.cs[j]) => Floor(m.cs[j]) \in Nat
  <2> SUFFICES ASSUME NEW j \in DOMAIN m.cs PROVE Owns(m.cs[j]) => Floor(m.cs[j]) \in Nat
    OBVIOUS
  <2>1. m.cs[j] \in Activation
    BY <1>1, ElementOfSeq, LenProperties
  <2> QED
    BY <2>1, ActivationFacts
<1>3. p \in Nat /\ Low(Frame(Running(m))) <= p
  BY DEF AboveAll
<1>4. Low(Frame(Running(m))) <= q
  BY <1>1, <1>3
<1>5. ASSUME NEW j \in DOMAIN m.cs, Owns(m.cs[j]), m.cs[j].t = Last(m.cs).t
      PROVE  Floor(m.cs[j]) <= q
  <2>1. Floor(m.cs[j]) <= p /\ Floor(m.cs[j]) \in Nat
    BY <1>2, <1>5 DEF AboveAll
  <2> QED
    BY <1>3, <2>1
<1> QED
  BY <1>4, <1>5 DEF AboveAll

(* A Lua function or a C function may write above its frame.               *)
LEMMA RestAbove ==
  ASSUME NEW m, Sound(m), Last(m.cs).k \in {"jni", "exec", "cfun"}
  PROVE  /\ AboveAll(m, Low(Frame(Running(m)))) /\ AboveAll(m, Len(Running(m).stk) + 1)
         /\ Begun(m)
<1>1. AboveAll(m, Low(Frame(Running(m))))
  BY LowAboveAll DEF Sound
<1>2. Low(Frame(Running(m))) \in Nat /\ Len(Running(m).stk) \in Nat
      /\ Len(Running(m).stk) >= Low(Frame(Running(m))) - 1
  BY SoundFacts
<1>3. AboveAll(m, Len(Running(m).stk) + 1)
  <2>1. Len(Running(m).stk) + 1 \in Nat /\ Low(Frame(Running(m))) <= Len(Running(m).stk) + 1
    BY <1>2
  <2> QED
    BY <1>1, <2>1, AboveMore
<1> QED
  BY <1>1, <1>3 DEF Begun

LEMMA SoundWritten ==
  ASSUME NEW m, Sound(m), Begun(m), NEW p, AboveAll(m, p),
         NEW U \in Thread, Alike(Running(m), U), Keeps(Running(m).stk, U.stk, p - 1),
         U.nC = Running(m).nC, U.status = Running(m).status, U.baseC = Running(m).baseC
  PROVE  LET r == Update(m, Last(m.cs).t, U)
         IN  /\ Sound(r) /\ Begun(r) /\ AboveAll(r, p)
             /\ r.cs = m.cs /\ Running(r) = U
<1>1. PICK d, e \in [DOMAIN m.cs -> Nat] : Inv(m, d, e)
  BY DEF Sound
<1>2. Quiet(m)
  BY DEF Sound
<1> DEFINE r == Update(m, Last(m.cs).t, U)
<1>3. Inv(r, d, e) /\ Quiet(r) /\ Begun(r) /\ AboveAll(r, p) /\ r.cs = m.cs /\ Running(r) = U
  BY <1>1, <1>2, Written
<1> HIDE DEF r
<1>4. Sound(r)
  BY <1>3, SoundFrom
<1> QED
  BY <1>3, <1>4 DEF r

LEMMA StackAlike ==
  ASSUME NEW T \in Thread, FramesInv(T), NEW s \in Seq(Value)
  PROVE  LET U == [T EXCEPT !.stk = s]
         IN  /\ U \in Thread /\ Alike(T, U) /\ U.stk = s /\ U.nC = T.nC /\ U.status = T.status
             /\ U.baseC = T.baseC /\ U.ef = T.ef /\ U.ci = T.ci /\ U.base = T.base
             /\ U.over = T.over /\ U.open = T.open /\ Frame(U) = Frame(T)
<1> DEFINE U == [T EXCEPT !.stk = s]
<1>1. /\ U \in Thread /\ U.stk = s /\ U.nC = T.nC /\ U.status = T.status
      /\ U.baseC = T.baseC /\ U.ef = T.ef /\ U.ci = T.ci /\ U.base = T.base
      /\ U.over = T.over /\ U.open = T.open
  BY DEF Thread
<1> HIDE DEF U
<1>2. Alike(T, U)
  <2>1. Len(U.ci) <= SizeCI(U)
    BY <1>1 DEF FramesInv, SizeCI
  <2>2. U.open = UNION {U.ci[i].captured : i \in 1 .. Len(U.ci)}
    <3>1. DOMAIN T.ci = 1 .. Len(T.ci)
      BY FramesFacts
    <3> QED
      BY <1>1, <3>1 DEF FramesInv
  <2>3. \A i \in 1 .. Len(T.ci) :
       /\ T.ci[i].lua => T.ci[i].top > T.ci[i].base
       /\ T.ci[i].captured \subseteq (IF T.ci[i].lua THEN {T.ci[i].base} ELSE {})
    BY FrameFacts
  <2> QED
    BY <1>1, <2>1, <2>2, <2>3 DEF Alike
<1> QED
  BY <1>1, <1>2 DEF U, Frame

LEMMA SoundStack ==
  ASSUME NEW m, Sound(m), Begun(m), NEW p, AboveAll(m, p), NEW s \in Seq(Value),
         Keeps(Running(m).stk, s, p - 1), NEW r,
         r = Update(m, Last(m.cs).t, [Running(m) EXCEPT !.stk = s])
  PROVE  /\ Sound(r) /\ Begun(r) /\ AboveAll(r, p)
         /\ r.cs = m.cs /\ Running(r) = [Running(m) EXCEPT !.stk = s]
         /\ Running(r).stk = s /\ Running(r).nC = Running(m).nC
         /\ Running(r).ef = Running(m).ef /\ Running(r).ci = Running(m).ci
         /\ Frame(Running(r)) = Frame(Running(m)) /\ Running(r).over = Running(m).over
<1> DEFINE T == Running(m)
           U == [T EXCEPT !.stk = s]
<1>1. T \in Thread /\ FramesInv(T)
  BY SoundFacts
<1> HIDE DEF T
<1>2. /\ U \in Thread /\ Alike(T, U) /\ U.stk = s /\ U.nC = T.nC /\ U.status = T.status
      /\ U.baseC = T.baseC /\ U.ef = T.ef /\ U.ci = T.ci /\ Frame(U) = Frame(T)
      /\ U.over = T.over
  BY <1>1, StackAlike
<1>3. r = Update(m, Last(m.cs).t, U)
  BY DEF T
<1> HIDE DEF U
<1>4. /\ Sound(r) /\ Begun(r) /\ AboveAll(r, p) /\ r.cs = m.cs /\ Running(r) = U
  BY <1>2, <1>3, SoundWritten DEF T
<1> QED
  BY <1>2, <1>4 DEF T, U

LEMMA SoundPush ==
  ASSUME NEW m, Sound(m), NEW b \in Activation,
         Above(Last(m.cs), b), b.t = Last(m.cs).t,
         b.k \in {"pcall", "call", "errormsg"},
         Owns(b) => AboveAll(m, Floor(b)) /\ Floor(b) <= Len(Running(m).stk) + 1,
         b.k = "call" => b.pc = "enter" /\ b.func <= Len(Running(m).stk),
         b.k = "pcall" => /\ b.ci = Len(Running(m).ci) /\ b.nC = Running(m).nC
                          /\ b.under = SubSeq(Running(m).stk, 1, b.top - 1)
  PROVE  LET r == Enter(m, b)
         IN  /\ Sound(r) /\ Last(r.cs) = b /\ Running(r) = Running(m)
             /\ \A p : AboveAll(m, p) /\ (Owns(b) => Floor(b) <= p) => AboveAll(r, p)
<1>1. PICK d, e \in [DOMAIN m.cs -> Nat] : Inv(m, d, e)
  BY DEF Sound
<1>2. Quiet(m)
  BY DEF Sound
<1> DEFINE r == Enter(m, b)
           n == Len(m.cs)
           d1 == More(d, n, d[n])
           e1 == More(e, n, e[n])
<1>3. /\ Inv(r, d1, e1) /\ Quiet(r) /\ Last(r.cs) = b /\ Running(r) = Running(m)
      /\ \A p : AboveAll(m, p) /\ (Owns(b) => Floor(b) <= p) => AboveAll(r, p)
  BY <1>1, <1>2, Pushed
<1> HIDE DEF r, d1, e1
<1>4. Sound(r)
  BY <1>3, SoundFrom
<1> QED
  BY <1>3, <1>4 DEF r

(* Between two steps.                                                      *)
LEMMA GoodTop ==
  ASSUME NEW m, Sound(m), Running(m).nC < ErrCCalls,
         \/ Last(m.cs).k \in {"jni", "exec"}
         \/ Last(m.cs).k = "cfun" /\ (Last(m.cs).f # "wrapped" \/ Last(m.cs).pc = "run")
         \/ Last(m.cs).k = "call" /\ Last(m.cs).pc = "enter"
  PROVE  Good(m)
<1>1. PICK d, e \in [DOMAIN m.cs -> Nat] : Inv(m, d, e)
  BY DEF Sound
<1>2. Running(m).nC = e[Len(m.cs)]
  BY <1>1, RunningFacts
<1>3. Rests(m, e)
  BY <1>2 DEF Rests
<1> QED
  BY <1>1, <1>3, GoodFrom

-----------------------------------------------------------------------------
(* luaD_call, luaG_errormsg, luaG_runerror                                 *)

LEMMA BeginCallGood ==
  ASSUME NEW m, Sound(m),
         \/ Last(m.cs).k \in {"pcall", "errormsg", "exec"}
         \/ Last(m.cs).k = "cfun" /\ Last(m.cs).f = "C",
         NEW t, t = Last(m.cs).t, NEW func, AboveAll(m, func), func <= Len(Running(m).stk),
         NEW want \in Result, Running(m).nC < ErrCCalls
  PROVE  Good(BeginCall(m, t, func, want))
<1> DEFINE b == [k |-> "call", t |-> t, pc |-> "enter", func |-> func, want |-> want]
           r == Enter(m, b)
<1>1. t \in Threads /\ func \in Nat /\ Len(Running(m).stk) \in Nat
  BY SoundFacts DEF AboveAll
<1>2. /\ b \in Activation /\ b.k = "call" /\ b.pc = "enter" /\ b.t = t /\ b.func = func
      /\ Owns(b) /\ Floor(b) = func
  BY <1>1 DEF Activation, Owns, Floor
<1> HIDE DEF b
<1>3. Above(Last(m.cs), b)
  BY <1>2 DEF Above
<1>4. Floor(b) <= Len(Running(m).stk) + 1
  BY <1>1, <1>2
<1>5. Sound(r) /\ Last(r.cs) = b /\ Running(r) = Running(m)
  BY <1>2, <1>3, <1>4, SoundPush
<1> HIDE DEF r
<1>6. Good(r)
  BY <1>2, <1>5, GoodTop
<1> QED
  BY <1>6 DEF BeginCall, r, b

LEMMA ErrorMsgGood ==
  ASSUME NEW m, Sound(m), Begun(m), Last(m.cs).k \in {"call", "exec", "cfun"},
         NEW t, t = Last(m.cs).t, AboveAll(m, Len(Running(m).stk)),
         Running(m).nC < ErrCCalls
  PROVE  Good(ErrorMsg(m, t))
<1> DEFINE T == Running(m)
           h == T.stk[T.ef]
           n == Len(T.stk)
           s == Front(T.stk) \o <<h, Last(T.stk)>>
           r == Update(m, t, [T EXCEPT !.stk = s])
           b == [k |-> "errormsg", t |-> t]
           r1 == Enter(r, b)
<1>1. /\ m \in State /\ t \in Threads /\ T = m.th[t] /\ T \in Thread /\ FramesInv(T)
      /\ T.stk \in Seq(Value) /\ n \in Nat /\ Low(Frame(T)) \in Nat \ {0}
  BY SoundFacts
<1>2. n > 0 /\ T.stk # <<>>
  <2>1. Low(Frame(T)) <= n
    BY DEF AboveAll
  <2>2. n > 0
    BY <1>1, <2>1
  <2> QED
    BY <1>1, <2>2, EmptySeq
<1>3. Last(T.stk) \in Value /\ Front(T.stk) = SubSeq(T.stk, 1, n - 1)
  BY <1>1, <1>2, LastOf
<1>4. ASSUME T.ef = 0 \/ ~IsFunction(h) PROVE Good(ErrorMsg(m, t))
  <2>1. Good(Throw(m, Last(T.stk)))
    BY <1>3, ThrowGood
  <2>2. Good(Throw(m, ErrErr))
    <3>1. ErrErr \in Value
      BY DEF Value
    <3> QED
      BY <3>1, ThrowGood
  <2>3. ErrorMsg(m, t) \in {Throw(m, Last(T.stk)), Throw(m, ErrErr)}
    BY <1>1, <1>4 DEF ErrorMsg
  <2> QED
    BY <2>1, <2>2, <2>3
<1>5. ASSUME T.ef # 0, IsFunction(h) PROVE Good(ErrorMsg(m, t))
  <2>1. h \in Value
    <3> HIDE DEF h
    <3> QED
      BY <1>5 DEF IsFunction, Value
  <2> HIDE DEF T, n
  <2> HIDE DEF h
  <2>3. s \in Seq(Value) /\ Len(s) = n + 1 /\ Keeps(T.stk, s, n - 1)
    <3>1. <<h, Last(T.stk)>> \in Seq(Value) /\ Len(<<h, Last(T.stk)>>) = 2
      BY <1>3, <2>1
    <3>2. /\ s \in Seq(Value) /\ Len(s) = Len(T.stk) - 1 + Len(<<h, Last(T.stk)>>)
          /\ Keeps(T.stk, s, Len(T.stk) - 1)
      BY <1>1, <1>2, <3>1, FrontConcat
    <3>3. Len(s) = n + 1
      BY <1>1, <3>1, <3>2 DEF n
    <3> QED
      BY <3>2, <3>3 DEF n
  <2> HIDE DEF s
  <2>5. /\ Sound(r) /\ Begun(r) /\ AboveAll(r, n) /\ r.cs = m.cs
        /\ Running(r).stk = s /\ Running(r).nC = T.nC
    BY <2>3, SoundStack DEF T, n
  <2> HIDE DEF r
  <2>6. b \in Activation /\ b.k = "errormsg" /\ b.t = t /\ ~Owns(b)
    BY <1>1 DEF Activation, Owns
  <2> HIDE DEF b
  <2>7. Above(Last(r.cs), b)
    BY <2>5, <2>6 DEF Above, Begun
  <2>8. /\ Sound(r1) /\ Last(r1.cs) = b /\ Running(r1) = Running(r) /\ AboveAll(r1, n)
    BY <2>5, <2>6, <2>7, SoundPush
  <2> HIDE DEF r1
  <2>9. Good(BeginCall(r1, t, n, 1))
    <3>1. n <= Len(Running(r1).stk) /\ 1 \in Result /\ Running(r1).nC < ErrCCalls
      BY <1>1, <2>3, <2>5, <2>8 DEF Result, T
    <3> QED
      BY <2>6, <2>8, <3>1, BeginCallGood
  <2>10. ErrorMsg(m, t) = BeginCall(r1, t, n, 1)
    <3>1. Top(T) - 1 = n
      BY <1>1 DEF Top, n
    <3> QED
      BY <1>1, <1>5, <3>1 DEF ErrorMsg, r1, b, r, s, h, T
  <2> QED
    BY <2>9, <2>10
<1> QED
  BY <1>4, <1>5

LEMMA RunErrorGood ==
  ASSUME NEW m, Sound(m), Begun(m), Last(m.cs).k \in {"call", "exec", "cfun"},
         NEW t, t = Last(m.cs).t, AboveAll(m, Len(Running(m).stk) + 1),
         Running(m).nC < ErrCCalls
  PROVE  Good(RunError(m, t))
<1> DEFINE T == Running(m)
           n == Len(T.stk)
           s == Append(T.stk, Message)
           r == Update(m, t, [T EXCEPT !.stk = s])
<1>1. /\ t \in Threads /\ T = m.th[t] /\ T.stk \in Seq(Value) /\ n \in Nat
  BY SoundFacts
<1>2. s \in Seq(Value) /\ Len(s) = n + 1 /\ Keeps(T.stk, s, n + 1 - 1)
  <2>1. Message \in Value
    BY DEF Value
  <2>2. n + 1 - 1 = n
    BY <1>1
  <2>3. s \in Seq(Value) /\ Len(s) = n + 1 /\ Keeps(T.stk, s, n)
    <3> HIDE DEF T
    <3> QED
      BY <1>1, <2>1, AppendKeeps
  <2> QED
    BY <2>2, <2>3
<1>3. RunError(m, t) = ErrorMsg(r, t)
  BY <1>1 DEF RunError, PushValueOf
<1> HIDE DEF s
<1>4. /\ Sound(r) /\ Begun(r) /\ AboveAll(r, n + 1) /\ r.cs = m.cs
      /\ Running(r).stk = s /\ Running(r).nC = T.nC
  BY <1>2, SoundStack
<1> HIDE DEF r
<1>5. Good(ErrorMsg(r, t))
  BY <1>2, <1>4, ErrorMsgGood
<1> QED
  BY <1>3, <1>5

LEMMA RunErrorRests ==
  ASSUME NEW m, Sound(m), Last(m.cs).k \in {"exec", "cfun"},
         NEW t, t = Last(m.cs).t, Running(m).nC < ErrCCalls
  PROVE  Good(RunError(m, t))
  BY RestAbove, RunErrorGood

=============================================================================
