----------------------------- MODULE LuaJavaProofs -----------------------------
(***************************************************************************)
(* Proofs about LuaJava, for any number of LuaObjects, userdata blocks,    *)
(* states and nested calls.                                                *)
(***************************************************************************)
EXTENDS LuaJavaInvariant, SequenceTheorems, FiniteSetTheorems,
        WellFoundedInduction, TLAPS

-----------------------------------------------------------------------------
(* Native calls                                                            *)

(* What a call carries, by its op.                                         *)
LEMMA EntryFacts ==
  ASSUME NEW x \in Entry
  PROVE  /\ x.op = "method" => x.locked \in BOOLEAN
         /\ x.op \in {"push", "ref"} => x.o \in Objects
         /\ x.op \in {"pcall", "lua"} => x.n \in {0, 1} /\ x.args \in {0, 1}
         /\ Makes(x) => "o" \in DOMAIN x /\ x.o \in Objects
         /\ x.op = "pcall" => [x EXCEPT !.op = "lua"] \in Entry
  BY DEF Entry, Makes

(* The entries methods are made of.                                        *)
LEMMA EntryKinds ==
  /\ \A op \in {"lock", "unlock", "loadString", "checkTable", "checkCallable", "fail",
                "getObject", "pushObjectValue", "pushResult", "pushJavaObject", "return", "error"} :
       Do(op) \in Entry
  /\ \A op \in {"pushValue", "pop", "getTable", "remove", "insert", "setTop"}, i \in Int :
       Index(op, i) \in Entry
  /\ \A op \in {"getGlobal", "setGlobal", "getField", "pushString"},
        v \in {"x", "function", "table", "string"} : Value(op, v) \in Entry
  /\ \A op \in {"push", "ref"}, o \in Objects : Of(op, o) \in Entry
  /\ \A b \in BOOLEAN : [op |-> "method", locked |-> b] \in Entry
  /\ [op |-> "pcall", args |-> 0, n |-> 0] \in Entry
  /\ \A n \in {0, 1}, o \in Objects : [op |-> "pcall", args |-> 1, n |-> n, o |-> o] \in Entry
  BY DEF Entry, Do, Index, Value, Of

LEMMA OneMore ==
  ASSUME NEW s \in Seq(Entry), NEW x \in Entry
  PROVE  /\ s \o <<x>> \in Seq(Entry) /\ Len(s \o <<x>>) = Len(s) + 1
         /\ (s \o <<x>>)[Len(s) + 1] = x
         /\ \A i \in 1 .. Len(s) : (s \o <<x>>)[i] = s[i]
  OBVIOUS

LEMMA Concat ==
  ASSUME NEW s \in Seq(Entry), NEW t \in Seq(Entry)
  PROVE  /\ s \o t \in Seq(Entry) /\ Len(s \o t) = Len(s) + Len(t)
         /\ DOMAIN (s \o t) = 1 .. Len(s) + Len(t)
         /\ \A i \in 1 .. Len(s) : (s \o t)[i] = s[i]
         /\ \A i \in 1 .. Len(t) : (s \o t)[i + Len(s)] = t[i]
<1> DEFINE r == s \o t
<1>1. /\ Len(s) \in Nat /\ DOMAIN s = 1 .. Len(s) /\ Len(t) \in Nat /\ DOMAIN t = 1 .. Len(t)
  BY LenProperties
<1>2. /\ r \in Seq(Entry) /\ Len(r) = Len(s) + Len(t) /\ DOMAIN r = 1 .. Len(r)
      /\ \A i \in 1 .. Len(s) : r[i] = s[i]
      /\ \A i \in 1 .. Len(t) : r[i + Len(s)] = t[i]
  BY <1>1, ConcatProperties, LenProperties
<1> QED
  BY <1>2

LEMMA Regroup ==
  ASSUME NEW s \in Seq(Entry), NEW t \in Seq(Entry), NEW u \in Seq(Entry)
  PROVE  (s \o t) \o u = s \o (t \o u)
  BY ConcatAssociative

-----------------------------------------------------------------------------
(* Depths                                                                  *)

(* What is left of a sequence when its first calls are gone.               *)
LEMMA SuffixBalanced ==
  ASSUME NEW s \in Seq(Entry), NEW d, Balanced(s, d), NEW k \in 1 .. Len(s) + 1
  PROVE  LET t == SubSeq(s, k, Len(s))
         IN  /\ t \in Seq(Entry) /\ Len(t) = Len(s) + 1 - k
             /\ \A i \in 1 .. Len(t) : t[i] = s[i + k - 1]
             /\ Balanced(t, [i \in 1 .. Len(t) + 1 |-> d[i + k - 1]])
<1> DEFINE t == SubSeq(s, k, Len(s))
           e == [i \in 1 .. Len(t) + 1 |-> d[i + k - 1]]
<1>1. /\ Len(s) \in Nat /\ DOMAIN s = 1 .. Len(s)
      /\ d \in [1 .. Len(s) + 1 -> Nat] /\ d[Len(s) + 1] = 0
  BY LenProperties DEF Balanced, Depths
<1>2. /\ t \in Seq(Entry) /\ Len(t) = Len(s) + 1 - k
      /\ \A i \in 1 .. Len(t) : t[i] = s[i + k - 1]
      /\ DOMAIN t = 1 .. Len(t)
  BY <1>1, SubSeqProperties
<1> HIDE DEF t
<1>3. e \in [1 .. Len(t) + 1 -> Nat] /\ \A i \in 1 .. Len(t) + 1 : e[i] = d[i + k - 1]
  BY <1>1, <1>2
<1> HIDE DEF e
<1>4. Depths(t, e)
  <2>1. e[Len(t) + 1] = 0
    BY <1>1, <1>2, <1>3
  <2>2. ASSUME NEW i \in 1 .. Len(t) PROVE e[i] = e[i + 1] + Change(t[i])
    <3>1. i + k - 1 \in 1 .. Len(s) /\ i \in 1 .. Len(t) + 1 /\ i + 1 \in 1 .. Len(t) + 1
      BY <1>1, <1>2
    <3>2. e[i] = d[i + k - 1] /\ e[i + 1] = d[(i + k - 1) + 1]
      <4>1. (i + 1) + k - 1 = (i + k - 1) + 1
        BY <1>1, <3>1
      <4> QED
        BY <1>3, <3>1, <4>1
    <3> QED
      BY <1>1, <1>2, <3>1, <3>2 DEF Balanced, Depths
  <2> QED
    BY <1>2, <1>3, <2>1, <2>2 DEF Depths
<1>5. ASSUME NEW j \in 1 .. Len(t), t[j].op = "lua", NEW i \in 1 .. j PROVE e[i] > 0
  <2>1. j + k - 1 \in DOMAIN s /\ s[j + k - 1].op = "lua" /\ i + k - 1 \in 1 .. j + k - 1
    BY <1>1, <1>2, <1>5
  <2>2. PICK m \in DOMAIN s : m = j + k - 1
    BY <2>1
  <2>3. PICK q \in 1 .. m : q = i + k - 1
    BY <2>1, <2>2
  <2>4. d[q] > 0
    BY <2>1, <2>2 DEF Balanced
  <2>5. i \in 1 .. Len(t) + 1
    BY <1>2
  <2> QED
    BY <1>3, <2>3, <2>4, <2>5
<1>6. ASSUME NEW i \in 1 .. Len(t), NEW op, NEW n, Finds(s, d, i + k - 1, op, n)
      PROVE  Finds(t, e, i, op, n)
  <2>1. PICK p \in (i + k - 1) + 1 .. Len(s) :
          /\ s[p].op = op /\ d[i + k - 1] = d[p] + n
          /\ \A m \in i + k - 1 .. p - 1 : s[m].op # op
    BY <1>6 DEF Finds
  <2>2. /\ p - k + 1 \in i + 1 .. Len(t) /\ t[p - k + 1] = s[p] /\ e[p - k + 1] = d[p]
        /\ e[i] = d[i + k - 1]
    BY <1>1, <1>2, <1>3
  <2>3. ASSUME NEW m \in i .. (p - k + 1) - 1 PROVE t[m].op # op
    <3>1. m \in 1 .. Len(t) /\ m + k - 1 \in i + k - 1 .. p - 1
      BY <1>1, <1>2
    <3> QED
      BY <1>2, <2>1, <3>1
  <2> QED
    BY <2>1, <2>2, <2>3 DEF Finds
<1>7. ASSUME NEW i \in 1 .. Len(t)
      PROVE  /\ t[i].op \in {"checkTable", "checkCallable", "fail", "getObject"} => Finds(t, e, i, "unlock", 0)
             /\ t[i].op = "method" => Finds(t, e, i, "lua", IF t[i].locked THEN 1 ELSE 0)
             /\ t[i].op = "error" => i < Len(t) /\ t[i + 1].op = "lua"
             /\ t[i].op = "loadString" => e[i] = 0
  <2>1. i + k - 1 \in DOMAIN s /\ t[i] = s[i + k - 1] /\ e[i] = d[i + k - 1]
    <3>1. i + k - 1 \in 1 .. Len(s) /\ i \in 1 .. Len(t) + 1
      BY <1>1, <1>2
    <3> QED
      BY <1>1, <1>2, <1>3, <3>1
  <2>2. /\ s[i + k - 1].op \in {"checkTable", "checkCallable", "fail", "getObject"} => Finds(s, d, i + k - 1, "unlock", 0)
        /\ s[i + k - 1].op = "method" => Finds(s, d, i + k - 1, "lua", IF s[i + k - 1].locked THEN 1 ELSE 0)
        /\ s[i + k - 1].op = "error" => i + k - 1 < Len(s) /\ s[i + k - 1 + 1].op = "lua"
        /\ s[i + k - 1].op = "loadString" => d[i + k - 1] = 0
    BY <2>1 DEF Balanced
  <2>3. t[i].op = "error" => i < Len(t) /\ t[i + 1].op = "lua"
    <3>1. SUFFICES ASSUME t[i].op = "error" PROVE i < Len(t) /\ t[i + 1].op = "lua"
      OBVIOUS
    <3>2. i + k - 1 < Len(s) /\ s[i + k - 1 + 1].op = "lua"
      BY <2>1, <2>2, <3>1
    <3>3. i < Len(t) /\ i + 1 \in 1 .. Len(t) /\ i + k - 1 + 1 = (i + 1) + k - 1
      BY <1>1, <1>2, <3>2
    <3> QED
      BY <1>2, <3>2, <3>3
  <2> QED
    BY <1>6, <2>1, <2>2, <2>3
<1>8. Balanced(t, e)
  BY <1>2, <1>4, <1>5, <1>7 DEF Balanced
<1> QED
  BY <1>2, <1>8 DEF t, e

(* Calls put in front, which come back to the depth they begin at.         *)
Joined(s, t, c, d) ==
  [i \in 1 .. Len(s) + Len(t) + 1 |-> IF i <= Len(s) THEN c[i] + d[1] ELSE d[i - Len(s)]]

LEMMA ConcatBalanced ==
  ASSUME NEW s \in Seq(Entry), NEW t \in Seq(Entry), NEW c, NEW d,
         Balanced(s, c), Balanced(t, d),
         \A i \in DOMAIN s : s[i].op = "loadString" => d[1] = 0
  PROVE  Balanced(s \o t, Joined(s, t, c, d))
<1> DEFINE r == s \o t
           e == Joined(s, t, c, d)
<1>1. /\ Len(s) \in Nat /\ DOMAIN s = 1 .. Len(s) /\ Len(t) \in Nat /\ DOMAIN t = 1 .. Len(t)
      /\ c \in [1 .. Len(s) + 1 -> Nat] /\ c[Len(s) + 1] = 0
      /\ d \in [1 .. Len(t) + 1 -> Nat] /\ d[Len(t) + 1] = 0
  BY LenProperties DEF Balanced, Depths
<1>0. d[1] \in Nat /\ \A i \in 1 .. Len(s) : c[i] \in Nat
  <2>1. 1 \in 1 .. Len(t) + 1 /\ \A i \in 1 .. Len(s) : i \in 1 .. Len(s) + 1
    BY <1>1
  <2> QED
    BY <1>1, <2>1
<1>2. /\ r \in Seq(Entry) /\ Len(r) = Len(s) + Len(t) /\ DOMAIN r = 1 .. Len(r)
      /\ \A i \in 1 .. Len(s) : r[i] = s[i]
      /\ \A i \in 1 .. Len(t) : r[i + Len(s)] = t[i]
  BY <1>1, ConcatProperties, LenProperties
<1> HIDE DEF r
<1>3. /\ e \in [1 .. Len(r) + 1 -> Nat]
      /\ \A i \in 1 .. Len(s) : e[i] = c[i] + d[1]
      /\ \A i \in 1 .. Len(t) + 1 : e[i + Len(s)] = d[i]
  <2>1. ASSUME NEW i \in 1 .. Len(s) PROVE e[i] = c[i] + d[1] /\ e[i] \in Nat
    <3>1. i \in 1 .. Len(s) + Len(t) + 1 /\ i <= Len(s) /\ c[i] \in Nat
      BY <1>0, <1>1
    <3>2. e[i] = c[i] + d[1]
      BY <3>1 DEF Joined
    <3> QED
      BY <1>0, <3>1, <3>2
  <2>2. ASSUME NEW i \in 1 .. Len(t) + 1 PROVE e[i + Len(s)] = d[i] /\ e[i + Len(s)] \in Nat
    <3>1. i + Len(s) \in 1 .. Len(s) + Len(t) + 1 /\ ~(i + Len(s) <= Len(s)) /\ (i + Len(s)) - Len(s) = i
      BY <1>1
    <3> QED
      BY <1>1, <3>1 DEF Joined
  <2>3. ASSUME NEW i \in 1 .. Len(r) + 1
        PROVE  i \in 1 .. Len(s) \/ \E j \in 1 .. Len(t) + 1 : i = j + Len(s)
    <3>1. CASE i <= Len(s)
      BY <1>1, <1>2, <3>1
    <3>2. CASE ~(i <= Len(s))
      <4>1. i - Len(s) \in 1 .. Len(t) + 1 /\ i = (i - Len(s)) + Len(s)
        BY <1>1, <1>2, <3>2
      <4> QED
        BY <4>1
    <3> QED
      BY <3>1, <3>2
  <2>4. DOMAIN e = 1 .. Len(r) + 1 /\ e = [i \in 1 .. Len(r) + 1 |-> e[i]]
    BY <1>2 DEF Joined
  <2>5. \A i \in 1 .. Len(r) + 1 : e[i] \in Nat
    BY <2>1, <2>2, <2>3
  <2> QED
    BY <2>1, <2>2, <2>4, <2>5
<1> HIDE DEF e
<1>4. ASSUME NEW i \in 1 .. Len(r)
      PROVE  i \in 1 .. Len(s) \/ \E j \in 1 .. Len(t) : i = j + Len(s)
  <2>1. CASE i <= Len(s)
    BY <1>1, <1>2, <2>1
  <2>2. CASE ~(i <= Len(s))
    <3>1. i - Len(s) \in 1 .. Len(t) /\ i = (i - Len(s)) + Len(s)
      BY <1>1, <1>2, <2>2
    <3> QED
      BY <3>1
  <2> QED
    BY <2>1, <2>2
<1>5. \A i \in 1 .. Len(s) + 1 : e[i] = c[i] + d[1]
  <2>1. e[Len(s) + 1] = c[Len(s) + 1] + d[1]
    <3>1. 1 \in 1 .. Len(t) + 1 /\ 1 + Len(s) = Len(s) + 1
      BY <1>1
    <3>2. d[1] \in Nat
      BY <1>0
    <3> QED
      BY <1>1, <1>3, <3>1, <3>2
  <2>2. \A i \in 1 .. Len(s) + 1 : i \in 1 .. Len(s) \/ i = Len(s) + 1
    BY <1>1
  <2> QED
    BY <1>3, <2>1, <2>2
<1>6. Depths(r, e)
  <2>1. ASSUME NEW i \in 1 .. Len(s) PROVE e[i] = e[i + 1] + Change(r[i])
    <3>1. /\ i + 1 \in 1 .. Len(s) + 1 /\ i \in 1 .. Len(s) + 1 /\ c[i] \in Nat /\ c[i + 1] \in Nat /\ d[1] \in Nat
          /\ Change(s[i]) \in Int
      BY <1>1 DEF Change
    <3>2. c[i] = c[i + 1] + Change(s[i])
      BY <1>1 DEF Balanced, Depths
    <3>3. e[i] = c[i] + d[1] /\ e[i + 1] = c[i + 1] + d[1] /\ r[i] = s[i]
      BY <1>2, <1>5, <3>1
    <3> QED
      BY <3>1, <3>2, <3>3
  <2>2. ASSUME NEW j \in 1 .. Len(t) PROVE e[j + Len(s)] = e[j + Len(s) + 1] + Change(r[j + Len(s)])
    <3>1. j \in 1 .. Len(t) + 1 /\ j + 1 \in 1 .. Len(t) + 1 /\ (j + 1) + Len(s) = j + Len(s) + 1
      BY <1>1
    <3>2. d[j] = d[j + 1] + Change(t[j])
      BY <1>1 DEF Balanced, Depths
    <3> QED
      BY <1>2, <1>3, <3>1, <3>2
  <2>3. e[Len(r) + 1] = 0
    <3>1. Len(t) + 1 \in 1 .. Len(t) + 1 /\ (Len(t) + 1) + Len(s) = Len(r) + 1
      BY <1>1, <1>2
    <3> QED
      BY <1>1, <1>3, <3>1
  <2>4. ASSUME NEW i \in DOMAIN r PROVE e[i] = e[i + 1] + Change(r[i])
    <3>1. CASE i \in 1 .. Len(s)
      BY <2>1, <3>1
    <3>2. CASE \E j \in 1 .. Len(t) : i = j + Len(s)
      BY <2>2, <3>2
    <3> QED
      BY <1>2, <1>4, <3>1, <3>2
  <2> QED
    BY <1>3, <2>3, <2>4 DEF Depths
<1>7. ASSUME NEW k \in 1 .. Len(r), r[k].op = "lua", NEW i \in 1 .. k PROVE e[i] > 0
  <2>1. CASE k \in 1 .. Len(s)
    <3>1. i \in 1 .. Len(s) /\ s[k].op = "lua" /\ k \in DOMAIN s
      BY <1>1, <1>2, <1>7, <2>1
    <3>2. c[i] > 0
      BY <3>1 DEF Balanced
    <3> QED
      BY <1>0, <1>3, <3>1, <3>2
  <2>2. CASE \E j \in 1 .. Len(t) : k = j + Len(s)
    <3>1. PICK j \in 1 .. Len(t) : k = j + Len(s)
      BY <2>2
    <3>2. t[j].op = "lua" /\ j \in DOMAIN t
      BY <1>1, <1>2, <1>7, <3>1
    <3>3. \A m \in 1 .. j : d[m] > 0
      BY <3>2 DEF Balanced
    <3>4. CASE i \in 1 .. Len(s)
      <4>1. 1 \in 1 .. j
        BY <1>1
      <4>2. d[1] > 0 /\ e[i] = c[i] + d[1] /\ c[i] \in Nat
        BY <1>0, <1>3, <3>3, <3>4, <4>1
      <4> QED
        BY <1>0, <4>2
    <3>5. CASE ~(i \in 1 .. Len(s))
      <4>1. i - Len(s) \in 1 .. j /\ i - Len(s) \in 1 .. Len(t) + 1 /\ (i - Len(s)) + Len(s) = i
        BY <1>1, <3>1, <3>5
      <4>2. e[i] = d[i - Len(s)]
        BY <1>3, <4>1
      <4> QED
        BY <3>3, <4>1, <4>2
    <3> QED
      BY <3>4, <3>5
  <2> QED
    BY <1>4, <2>1, <2>2
<1>8. ASSUME NEW i \in 1 .. Len(s), NEW op, NEW n \in Nat, Finds(s, c, i, op, n)
      PROVE  Finds(r, e, i, op, n)
  <2>1. PICK p \in i + 1 .. Len(s) :
          /\ s[p].op = op /\ c[i] = c[p] + n
          /\ \A m \in i .. p - 1 : s[m].op # op
    BY <1>8 DEF Finds
  <2>2. p \in 1 .. Len(s) /\ p \in i + 1 .. Len(r)
    BY <1>1, <1>2
  <2>3. r[p].op = op /\ e[i] = e[p] + n
    BY <1>0, <1>2, <1>3, <2>1, <2>2
  <2>4. ASSUME NEW m \in i .. p - 1 PROVE r[m].op # op
    <3>1. m \in 1 .. Len(s)
      BY <1>1, <2>2
    <3> QED
      BY <1>2, <2>1, <3>1
  <2> QED
    BY <2>2, <2>3, <2>4 DEF Finds
<1>9. ASSUME NEW j \in 1 .. Len(t), NEW op, NEW n, Finds(t, d, j, op, n)
      PROVE  Finds(r, e, j + Len(s), op, n)
  <2>1. PICK p \in j + 1 .. Len(t) :
          /\ t[p].op = op /\ d[j] = d[p] + n
          /\ \A m \in j .. p - 1 : t[m].op # op
    BY <1>9 DEF Finds
  <2>2. /\ p \in 1 .. Len(t) /\ p + Len(s) \in (j + Len(s)) + 1 .. Len(r)
        /\ p \in 1 .. Len(t) + 1 /\ j \in 1 .. Len(t) + 1
    BY <1>1, <1>2
  <2>3. r[p + Len(s)].op = op /\ e[j + Len(s)] = e[p + Len(s)] + n
    BY <1>2, <1>3, <2>1, <2>2
  <2>4. ASSUME NEW m \in j + Len(s) .. (p + Len(s)) - 1 PROVE r[m].op # op
    <3>1. m - Len(s) \in 1 .. Len(t) /\ m - Len(s) \in j .. p - 1 /\ (m - Len(s)) + Len(s) = m
      BY <1>1, <2>2
    <3>2. PICK q \in 1 .. Len(t) : q = m - Len(s)
      BY <3>1
    <3>3. q \in j .. p - 1 /\ q + Len(s) = m
      BY <3>1, <3>2
    <3>4. r[q + Len(s)] = t[q] /\ t[q].op # op
      BY <1>2, <2>1, <3>3
    <3> QED
      BY <3>3, <3>4
  <2> QED
    BY <2>2, <2>3, <2>4 DEF Finds
<1>10. ASSUME NEW i \in 1 .. Len(r)
       PROVE  /\ r[i].op \in {"checkTable", "checkCallable", "fail", "getObject"} => Finds(r, e, i, "unlock", 0)
              /\ r[i].op = "method" => Finds(r, e, i, "lua", IF r[i].locked THEN 1 ELSE 0)
              /\ r[i].op = "error" => i < Len(r) /\ r[i + 1].op = "lua"
              /\ r[i].op = "loadString" => e[i] = 0
  <2>1. CASE i \in 1 .. Len(s)
    <3>1. /\ s[i].op \in {"checkTable", "checkCallable", "fail", "getObject"} => Finds(s, c, i, "unlock", 0)
          /\ s[i].op = "method" => Finds(s, c, i, "lua", IF s[i].locked THEN 1 ELSE 0)
          /\ s[i].op = "error" => i < Len(s) /\ s[i + 1].op = "lua"
          /\ s[i].op = "loadString" => c[i] = 0
      BY <1>1, <2>1 DEF Balanced
    <3>2. s[i].op = "error" => i < Len(r) /\ i + 1 \in 1 .. Len(s) /\ r[i + 1].op = "lua"
      BY <1>1, <1>2, <2>1, <3>1
    <3>3. s[i].op = "loadString" => e[i] = 0
      BY <1>1, <1>3, <2>1, <3>1
    <3> QED
      BY <1>2, <1>8, <2>1, <3>1, <3>2, <3>3
  <2>2. CASE \E j \in 1 .. Len(t) : i = j + Len(s)
    <3>1. PICK j \in 1 .. Len(t) : i = j + Len(s)
      BY <2>2
    <3>2. /\ t[j].op \in {"checkTable", "checkCallable", "fail", "getObject"} => Finds(t, d, j, "unlock", 0)
          /\ t[j].op = "method" => Finds(t, d, j, "lua", IF t[j].locked THEN 1 ELSE 0)
          /\ t[j].op = "error" => j < Len(t) /\ t[j + 1].op = "lua"
          /\ t[j].op = "loadString" => d[j] = 0
      BY <1>1 DEF Balanced
    <3>3. r[i] = t[j] /\ e[i] = d[j]
      BY <1>1, <1>2, <1>3, <3>1
    <3>4. t[j].op = "error" => i < Len(r) /\ r[i + 1].op = "lua"
      <4>1. SUFFICES ASSUME t[j].op = "error" PROVE i < Len(r) /\ r[i + 1].op = "lua"
        OBVIOUS
      <4>2. j < Len(t) /\ t[j + 1].op = "lua"
        BY <3>2, <4>1
      <4>3. i < Len(r) /\ j + 1 \in 1 .. Len(t) /\ i + 1 = (j + 1) + Len(s)
        BY <1>1, <1>2, <3>1, <4>2
      <4> QED
        BY <1>2, <4>2, <4>3
    <3> QED
      BY <1>9, <3>1, <3>2, <3>3, <3>4
  <2> QED
    BY <1>4, <2>1, <2>2
<1>11. Balanced(r, e)
  BY <1>2, <1>6, <1>7, <1>10 DEF Balanced
<1> QED
  BY <1>11 DEF r, e

-----------------------------------------------------------------------------
(* Scripts                                                                 *)

(* Calls that have to do with the monitor.                                 *)
Special == {"lock", "unlock", "lua", "checkTable", "checkCallable", "fail", "getObject",
            "method", "error"}

LEMMA PlainBalanced ==
  ASSUME NEW s \in Seq(Entry), \A i \in DOMAIN s : s[i].op \notin Special
  PROVE  Balanced(s, [i \in 1 .. Len(s) + 1 |-> 0])
<1> DEFINE d == [i \in 1 .. Len(s) + 1 |-> 0]
<1>1. Len(s) \in Nat /\ DOMAIN s = 1 .. Len(s)
  BY LenProperties
<1>2. d \in [1 .. Len(s) + 1 -> Nat] /\ \A i \in 1 .. Len(s) + 1 : d[i] = 0
  OBVIOUS
<1> HIDE DEF d
<1>3. Depths(s, d)
  <2>1. ASSUME NEW i \in DOMAIN s PROVE d[i] = d[i + 1] + Change(s[i])
    <3>1. i \in 1 .. Len(s) + 1 /\ i + 1 \in 1 .. Len(s) + 1
      BY <1>1
    <3>2. Change(s[i]) = 0
      BY DEF Change, Special
    <3> QED
      BY <1>2, <3>1, <3>2
  <2>2. d[Len(s) + 1] = 0
    BY <1>1, <1>2
  <2> QED
    BY <1>2, <2>1, <2>2 DEF Depths
<1>4. \A i \in DOMAIN s : d[i] = 0
  BY <1>1, <1>2
<1>5. Balanced(s, d)
  BY <1>3, <1>4 DEF Balanced, Special
<1> QED
  BY <1>5 DEF d

(* A synchronized block of a method that Lua does not run.                 *)
BlockDepth(n) == [i \in 1 .. n + 3 |-> IF i = 1 \/ i = n + 3 THEN 0 ELSE 1]

LEMMA BlockBalanced ==
  ASSUME NEW body \in Seq(Entry),
         \A i \in DOMAIN body :
           body[i].op \notin {"lock", "unlock", "lua", "method", "error", "loadString"}
  PROVE  LET s == Synchronized(body)
         IN  /\ s \in Seq(Entry) /\ Len(s) = Len(body) + 2
             /\ Balanced(s, BlockDepth(Len(body)))
             /\ \A i \in DOMAIN s : i \in {1, Len(s)} \/ (i - 1 \in DOMAIN body /\ s[i] = body[i - 1])
             /\ s[1].op = "lock" /\ s[Len(s)].op = "unlock"
<1> DEFINE n == Len(body)
           s == Synchronized(body)
           d == BlockDepth(n)
<1>1. n \in Nat /\ DOMAIN body = 1 .. n
  BY LenProperties
<1>2. /\ <<Do("lock")>> \in Seq(Entry) /\ <<Do("unlock")>> \in Seq(Entry)
      /\ Do("lock").op = "lock" /\ Do("unlock").op = "unlock"
  BY EntryKinds DEF Do
<1>3. /\ <<Do("lock")>> \o body \in Seq(Entry) /\ Len(<<Do("lock")>> \o body) = n + 1
      /\ (<<Do("lock")>> \o body)[1] = Do("lock")
      /\ \A i \in 2 .. n + 1 : (<<Do("lock")>> \o body)[i] = body[i - 1]
  BY <1>1, <1>2
<1>4. /\ s \in Seq(Entry) /\ Len(s) = n + 2 /\ DOMAIN s = 1 .. n + 2
      /\ s[1] = Do("lock") /\ s[n + 2] = Do("unlock")
      /\ \A i \in 2 .. n + 1 : s[i] = body[i - 1]
  <2>1. s = (<<Do("lock")>> \o body) \o <<Do("unlock")>>
    BY DEF Synchronized
  <2> HIDE DEF s
  <2> QED
    BY <1>1, <1>2, <1>3, <2>1
<1>5. /\ d \in [1 .. n + 3 -> Nat] /\ d[1] = 0 /\ d[n + 3] = 0
      /\ \A i \in 2 .. n + 2 : d[i] = 1
  BY <1>1 DEF BlockDepth
<1> HIDE DEF s, d
<1>6. \A i \in 2 .. n + 1 : s[i].op \notin {"lock", "unlock", "lua", "method", "error", "loadString"}
  <2>1. \A i \in 2 .. n + 1 : i - 1 \in DOMAIN body
    BY <1>1
  <2> QED
    BY <1>4, <2>1
<1>7. \A i \in 1 .. n + 2 : i = 1 \/ i = n + 2 \/ i \in 2 .. n + 1
  BY <1>1
<1>8. Depths(s, d)
  <2>1. d[1] = d[1 + 1] + Change(s[1])
    <3>1. 1 + 1 \in 2 .. n + 2 /\ Change(s[1]) = -1
      BY <1>1, <1>2, <1>4 DEF Change
    <3> QED
      BY <1>5, <3>1
  <2>2. d[n + 2] = d[(n + 2) + 1] + Change(s[n + 2])
    <3>1. n + 2 \in 2 .. n + 2 /\ (n + 2) + 1 = n + 3 /\ Change(s[n + 2]) = 1
      BY <1>1, <1>2, <1>4 DEF Change
    <3> QED
      BY <1>5, <3>1
  <2>3. ASSUME NEW i \in 2 .. n + 1 PROVE d[i] = d[i + 1] + Change(s[i])
    <3>1. i \in 2 .. n + 2 /\ i + 1 \in 2 .. n + 2
      BY <1>1
    <3>2. Change(s[i]) = 0
      BY <1>6 DEF Change
    <3> QED
      BY <1>5, <3>1, <3>2
  <2>4. Len(s) + 1 = n + 3
    BY <1>1, <1>4
  <2> QED
    BY <1>4, <1>5, <1>7, <2>1, <2>2, <2>3, <2>4 DEF Depths
<1>9. ASSUME NEW i \in DOMAIN s
      PROVE  /\ s[i].op \in {"checkTable", "checkCallable", "fail", "getObject"} => Finds(s, d, i, "unlock", 0)
             /\ s[i].op \notin {"method", "error", "loadString", "lua"}
  <2>1. CASE i = 1
    BY <1>2, <1>4, <2>1
  <2>2. CASE i = n + 2
    BY <1>2, <1>4, <2>2
  <2>3. CASE i \in 2 .. n + 1
    <3>1. n + 2 \in i + 1 .. Len(s) /\ d[i] = d[n + 2] + 0
      <4>1. i \in 2 .. n + 2 /\ n + 2 \in 2 .. n + 2
        BY <1>1, <2>3
      <4> QED
        BY <1>1, <1>4, <1>5, <2>3, <4>1
    <3>2. \A m \in i .. (n + 2) - 1 : s[m].op # "unlock"
      <4>1. \A m \in i .. (n + 2) - 1 : m \in 2 .. n + 1
        BY <1>1, <2>3
      <4> QED
        BY <1>6, <4>1
    <3>3. Finds(s, d, i, "unlock", 0)
      BY <1>2, <1>4, <3>1, <3>2 DEF Finds
    <3> QED
      BY <1>6, <2>3, <3>3
  <2> QED
    BY <1>4, <1>7, <2>1, <2>2, <2>3
<1>10. Balanced(s, d)
  BY <1>8, <1>9 DEF Balanced
<1>11. \A i \in DOMAIN s : i \in {1, Len(s)} \/ (i - 1 \in DOMAIN body /\ s[i] = body[i - 1])
  <2>1. \A i \in 2 .. n + 1 : i - 1 \in DOMAIN body
    BY <1>1
  <2> QED
    BY <1>4, <1>7, <2>1
<1> QED
  BY <1>2, <1>4, <1>10, <1>11 DEF s, d

(* A method of LuaJavaAPI under the C function that calls it, the Lua code *)
(* x it returns to being next.                                             *)
CallbackDepth(n) == [i \in 1 .. n + 5 |-> IF i = n + 5 THEN 0 ELSE IF i \in 2 .. n + 2 THEN 2 ELSE 1]

Callback(body) == Synchronized(body) \o <<Do("return")>>

LEMMA CallbackBalanced ==
  ASSUME NEW body \in Seq(Entry), NEW x \in Entry, x.op = "lua",
         \A i \in DOMAIN body :
           /\ body[i].op \notin (Special \ {"method"}) \cup {"loadString"}
           /\ body[i].op = "method" => body[i].locked
  PROVE  LET s == Callback(body) \o <<x>>
         IN  /\ Callback(body) \in Seq(Entry)
             /\ s \in Seq(Entry) /\ Len(s) = Len(body) + 4
             /\ Balanced(s, CallbackDepth(Len(body)))
             /\ \A i \in DOMAIN s : s[i].op # "loadString"
             /\ \A i \in DOMAIN Callback(body) :
                  \/ i - 1 \in DOMAIN body /\ Callback(body)[i] = body[i - 1]
                  \/ Callback(body)[i] \in {Do("lock"), Do("unlock"), Do("return")}
<1> DEFINE n == Len(body)
           s == Callback(body) \o <<x>>
           d == CallbackDepth(n)
<1>1. n \in Nat /\ DOMAIN body = 1 .. n
  BY LenProperties
<1>2. /\ <<Do("lock")>> \in Seq(Entry) /\ <<Do("unlock")>> \in Seq(Entry)
      /\ <<Do("return")>> \in Seq(Entry) /\ <<x>> \in Seq(Entry)
      /\ Do("lock").op = "lock" /\ Do("unlock").op = "unlock" /\ Do("return").op = "return"
  BY EntryKinds DEF Do
<1>3. /\ <<Do("lock")>> \o body \in Seq(Entry) /\ Len(<<Do("lock")>> \o body) = n + 1
      /\ (<<Do("lock")>> \o body)[1] = Do("lock")
      /\ \A i \in 2 .. n + 1 : (<<Do("lock")>> \o body)[i] = body[i - 1]
  BY <1>1, <1>2
<1>4. /\ Synchronized(body) \in Seq(Entry) /\ Len(Synchronized(body)) = n + 2
      /\ Synchronized(body)[1] = Do("lock") /\ Synchronized(body)[n + 2] = Do("unlock")
      /\ \A i \in 2 .. n + 1 : Synchronized(body)[i] = body[i - 1]
  <2> DEFINE z == Synchronized(body)
  <2>1. z = (<<Do("lock")>> \o body) \o <<Do("unlock")>>
    BY DEF Synchronized
  <2> HIDE DEF z
  <2>2. /\ z \in Seq(Entry) /\ Len(z) = n + 2
        /\ z[1] = Do("lock") /\ z[n + 2] = Do("unlock")
        /\ \A i \in 2 .. n + 1 : z[i] = body[i - 1]
    BY <1>1, <1>2, <1>3, <2>1
  <2> QED
    BY <2>2 DEF z
<1>5. /\ Callback(body) \in Seq(Entry) /\ Len(Callback(body)) = n + 3
      /\ Callback(body)[1] = Do("lock") /\ Callback(body)[n + 2] = Do("unlock")
      /\ Callback(body)[n + 3] = Do("return")
      /\ \A i \in 2 .. n + 1 : Callback(body)[i] = body[i - 1]
  <2> DEFINE z == Callback(body)
             y == Synchronized(body)
  <2>1. z = y \o <<Do("return")>>
    BY DEF Callback
  <2>2. /\ y \in Seq(Entry) /\ Len(y) = n + 2
        /\ y[1] = Do("lock") /\ y[n + 2] = Do("unlock")
        /\ \A i \in 2 .. n + 1 : y[i] = body[i - 1]
    BY <1>4
  <2> HIDE DEF z, y
  <2>3. /\ z \in Seq(Entry) /\ Len(z) = Len(y) + 1 /\ z[Len(y) + 1] = Do("return")
        /\ \A i \in 1 .. Len(y) : z[i] = y[i]
    BY <2>1, <2>2, OneMore, EntryKinds
  <2>4. /\ 1 \in 1 .. Len(y) /\ n + 2 \in 1 .. Len(y) /\ \A i \in 2 .. n + 1 : i \in 1 .. Len(y)
        /\ Len(y) + 1 = n + 3
    BY <1>1, <2>2
  <2> QED
    BY <2>2, <2>3, <2>4 DEF z
<1>6. /\ s \in Seq(Entry) /\ Len(s) = n + 4 /\ DOMAIN s = 1 .. n + 4
      /\ s[1] = Do("lock") /\ s[n + 2] = Do("unlock")
      /\ s[n + 3] = Do("return") /\ s[n + 4] = x
      /\ \A i \in 2 .. n + 1 : s[i] = body[i - 1]
  <2> DEFINE y == Callback(body)
  <2>1. s = y \o <<x>>
    OBVIOUS
  <2>2. /\ y \in Seq(Entry) /\ Len(y) = n + 3
        /\ y[1] = Do("lock") /\ y[n + 2] = Do("unlock") /\ y[n + 3] = Do("return")
        /\ \A i \in 2 .. n + 1 : y[i] = body[i - 1]
    BY <1>5
  <2> HIDE DEF s, y
  <2> QED
    BY <1>1, <1>2, <2>1, <2>2
<1>7. /\ d \in [1 .. n + 5 -> Nat] /\ d[1] = 1 /\ d[n + 5] = 0 /\ d[n + 3] = 1 /\ d[n + 4] = 1
      /\ \A i \in 2 .. n + 2 : d[i] = 2
  BY <1>1 DEF CallbackDepth
<1> HIDE DEF s, d
<1>8. \A i \in 2 .. n + 1 :
        /\ s[i].op \notin (Special \ {"method"}) \cup {"loadString"}
        /\ s[i].op = "method" => s[i].locked
  <2>1. \A i \in 2 .. n + 1 : i - 1 \in DOMAIN body
    BY <1>1
  <2> QED
    BY <1>6, <2>1
<1>9. \A i \in 1 .. n + 4 : i = 1 \/ i = n + 2 \/ i = n + 3 \/ i = n + 4 \/ i \in 2 .. n + 1
  BY <1>1
<1>10. Depths(s, d)
  <2>1. d[1] = d[1 + 1] + Change(s[1])
    <3>1. 1 + 1 \in 2 .. n + 2 /\ Change(s[1]) = -1
      BY <1>1, <1>2, <1>6 DEF Change
    <3> QED
      BY <1>7, <3>1
  <2>2. d[n + 2] = d[(n + 2) + 1] + Change(s[n + 2])
    <3>1. n + 2 \in 2 .. n + 2 /\ (n + 2) + 1 = n + 3 /\ Change(s[n + 2]) = 1
      BY <1>1, <1>2, <1>6 DEF Change
    <3> QED
      BY <1>7, <3>1
  <2>3. d[n + 3] = d[(n + 3) + 1] + Change(s[n + 3])
    <3>1. (n + 3) + 1 = n + 4 /\ Change(s[n + 3]) = 0
      BY <1>1, <1>2, <1>6 DEF Change
    <3> QED
      BY <1>7, <3>1
  <2>4. d[n + 4] = d[(n + 4) + 1] + Change(s[n + 4])
    <3>1. (n + 4) + 1 = n + 5 /\ Change(s[n + 4]) = 1
      BY <1>1, <1>6 DEF Change
    <3> QED
      BY <1>7, <3>1
  <2>5. ASSUME NEW i \in 2 .. n + 1 PROVE d[i] = d[i + 1] + Change(s[i])
    <3>1. i \in 2 .. n + 2 /\ i + 1 \in 2 .. n + 2
      BY <1>1
    <3>2. Change(s[i]) = 0
      BY <1>8 DEF Change, Special
    <3> QED
      BY <1>7, <3>1, <3>2
  <2>6. Len(s) + 1 = n + 5
    BY <1>1, <1>6
  <2> QED
    BY <1>6, <1>7, <1>9, <2>1, <2>2, <2>3, <2>4, <2>5, <2>6 DEF Depths
<1>11. ASSUME NEW i \in DOMAIN s
       PROVE  /\ s[i].op = "method" => Finds(s, d, i, "lua", IF s[i].locked THEN 1 ELSE 0)
              /\ s[i].op \notin {"error", "loadString", "checkTable", "checkCallable", "fail", "getObject"}
              /\ s[i].op = "lua" => i = n + 4
  <2>1. CASE i \in {1, n + 2, n + 3, n + 4}
    BY <1>2, <1>6, <2>1
  <2>2. CASE i \in 2 .. n + 1
    <3>1. n + 4 \in i + 1 .. Len(s) /\ d[i] = d[n + 4] + 1
      <4>1. i \in 2 .. n + 2
        BY <1>1, <2>2
      <4> QED
        BY <1>1, <1>6, <1>7, <2>2, <4>1
    <3>2. ASSUME NEW m \in i .. (n + 4) - 1 PROVE s[m].op # "lua"
      <4>1. m \in 2 .. n + 1 \/ m = n + 2 \/ m = n + 3
        BY <1>1, <2>2
      <4> QED
        BY <1>2, <1>6, <1>8, <4>1 DEF Special
    <3>3. Finds(s, d, i, "lua", 1)
      BY <1>6, <3>1, <3>2 DEF Finds
    <3> QED
      BY <1>8, <2>2, <3>3 DEF Special
  <2> QED
    BY <1>6, <1>9, <2>1, <2>2
<1>12. \A i \in 1 .. n + 4 : d[i] > 0
  <2>1. \A i \in 1 .. n + 4 : i = 1 \/ i = n + 3 \/ i = n + 4 \/ i \in 2 .. n + 2
    BY <1>1
  <2> QED
    BY <1>7, <2>1
<1>13. Balanced(s, d)
  <2>1. \A k \in DOMAIN s : s[k].op = "lua" => \A i \in 1 .. k : d[i] > 0
    BY <1>6, <1>11, <1>12
  <2> QED
    BY <1>10, <1>11, <2>1 DEF Balanced
<1>14. \A i \in DOMAIN Callback(body) :
         \/ i - 1 \in DOMAIN body /\ Callback(body)[i] = body[i - 1]
         \/ Callback(body)[i] \in {Do("lock"), Do("unlock"), Do("return")}
  <2>1. \A i \in 2 .. n + 1 : i - 1 \in DOMAIN body
    BY <1>1
  <2>2. \A i \in 1 .. n + 3 : i = 1 \/ i = n + 2 \/ i = n + 3 \/ i \in 2 .. n + 1
    BY <1>1
  <2>3. DOMAIN Callback(body) = 1 .. n + 3
    BY <1>5, LenProperties
  <2> QED
    BY <1>5, <2>1, <2>2, <2>3
<1> QED
  BY <1>5, <1>6, <1>11, <1>13, <1>14 DEF s, d

(* A JavaFunction that Lua calls.                                          *)
LEMMA ExecuteBalanced ==
  ASSUME NEW x \in Entry, x.op = "lua"
  PROVE  LET s == Execute \o <<x>>
         IN  /\ Execute \in Seq(Entry) /\ s \in Seq(Entry) /\ Len(s) = 4
             /\ Balanced(s, [i \in 1 .. 5 |-> IF i = 5 THEN 0 ELSE 1])
             /\ \A i \in DOMAIN s : s[i].op # "loadString"
             /\ \A i \in DOMAIN Execute : Execute[i].op \in {"method", "pushResult", "return"}
<1> DEFINE s == Execute \o <<x>>
           d == [i \in 1 .. 5 |-> IF i = 5 THEN 0 ELSE 1]
           call == [op |-> "method", locked |-> FALSE]
<1>1. /\ Execute = <<call, Do("pushResult"), Do("return")>>
      /\ call \in Entry /\ Do("pushResult") \in Entry /\ Do("return") \in Entry
      /\ call.op = "method" /\ call.locked = FALSE
      /\ Do("pushResult").op = "pushResult" /\ Do("return").op = "return"
  BY EntryKinds DEF Execute, Do
<1> HIDE DEF call
<1>2. /\ Execute \in Seq(Entry) /\ Len(Execute) = 3
      /\ Execute[1] = call /\ Execute[2] = Do("pushResult") /\ Execute[3] = Do("return")
  BY <1>1
<1>3. /\ s \in Seq(Entry) /\ Len(s) = 4 /\ DOMAIN s = 1 .. 4
      /\ s[1] = call /\ s[2] = Do("pushResult") /\ s[3] = Do("return") /\ s[4] = x
  <2>1. /\ s \in Seq(Entry) /\ Len(s) = Len(Execute) + 1 /\ s[Len(Execute) + 1] = x
        /\ \A i \in 1 .. Len(Execute) : s[i] = Execute[i]
    BY <1>2, OneMore
  <2> HIDE DEF s
  <2>2. /\ Len(s) = 4 /\ s[4] = x /\ \A i \in 1 .. 3 : s[i] = Execute[i]
    BY <1>2, <2>1
  <2> QED
    BY <1>2, <2>1, <2>2
<1>4. d \in [1 .. 5 -> Nat] /\ d[1] = 1 /\ d[2] = 1 /\ d[3] = 1 /\ d[4] = 1 /\ d[5] = 0
  OBVIOUS
<1> HIDE DEF s, d
<1>5. Depths(s, d)
  BY <1>1, <1>3, <1>4 DEF Depths, Change
<1>6. Finds(s, d, 1, "lua", 0)
  <2>1. 4 \in 1 + 1 .. Len(s) /\ d[1] = d[4] + 0
    BY <1>3, <1>4
  <2>2. \A m \in 1 .. 4 - 1 : s[m].op # "lua"
    BY <1>1, <1>3
  <2> QED
    BY <1>3, <2>1, <2>2 DEF Finds
<1>7. Balanced(s, d)
  BY <1>1, <1>3, <1>4, <1>5, <1>6 DEF Balanced
<1>8. /\ \A i \in DOMAIN s : s[i].op # "loadString"
      /\ \A i \in DOMAIN Execute : Execute[i].op \in {"method", "pushResult", "return"}
  BY <1>1, <1>2, <1>3
<1> QED
  BY <1>2, <1>3, <1>7, <1>8 DEF s, d

(* An exception on its way out of a callback.                              *)
Thrown(b) == (IF b THEN <<Do("unlock")>> ELSE <<>>) \o <<Do("error")>>

LEMMA ThrownBalanced ==
  ASSUME NEW x \in Entry, x.op = "lua", NEW b \in BOOLEAN
  PROVE  LET s == Thrown(b) \o <<x>>
         IN  /\ Thrown(b) \in Seq(Entry) /\ s \in Seq(Entry)
             /\ \E d : Balanced(s, d) /\ d[1] = IF b THEN 2 ELSE 1
             /\ \A i \in DOMAIN s : s[i].op # "loadString"
             /\ \A i \in DOMAIN Thrown(b) : Thrown(b)[i].op \in {"unlock", "error"}
<1>1. /\ Do("unlock") \in Entry /\ Do("error") \in Entry
      /\ Do("unlock").op = "unlock" /\ Do("error").op = "error"
  BY EntryKinds DEF Do
<1>2. CASE b
  <2> DEFINE s == Thrown(b) \o <<x>>
             d == [i \in 1 .. 4 |-> IF i = 1 THEN 2 ELSE IF i = 4 THEN 0 ELSE 1]
  <2>1. Thrown(b) = <<Do("unlock")>> \o <<Do("error")>>
    BY <1>2 DEF Thrown
  <2>2. /\ Thrown(b) \in Seq(Entry) /\ Len(Thrown(b)) = 2
        /\ Thrown(b)[1] = Do("unlock") /\ Thrown(b)[2] = Do("error")
    <3>1. /\ <<Do("unlock")>> \in Seq(Entry) /\ Len(<<Do("unlock")>>) = 1
          /\ <<Do("unlock")>>[1] = Do("unlock")
      BY <1>1
    <3> QED
      BY <1>1, <2>1, <3>1, OneMore
  <2>3. /\ s \in Seq(Entry) /\ Len(s) = 3 /\ DOMAIN s = 1 .. 3
        /\ s[1] = Do("unlock") /\ s[2] = Do("error") /\ s[3] = x
    <3>1. /\ s \in Seq(Entry) /\ Len(s) = Len(Thrown(b)) + 1 /\ s[Len(Thrown(b)) + 1] = x
          /\ \A i \in 1 .. Len(Thrown(b)) : s[i] = Thrown(b)[i]
      BY <2>2, OneMore
    <3> HIDE DEF s
    <3>2. /\ Len(s) = 3 /\ s[3] = x /\ \A i \in 1 .. 2 : s[i] = Thrown(b)[i]
      BY <2>2, <3>1
    <3> QED
      BY <2>2, <3>1, <3>2
  <2>4. d \in [1 .. 4 -> Nat] /\ d[1] = 2 /\ d[2] = 1 /\ d[3] = 1 /\ d[4] = 0
    OBVIOUS
  <2> HIDE DEF s, d
  <2>5. Depths(s, d)
    BY <1>1, <2>3, <2>4 DEF Depths, Change
  <2>6. Balanced(s, d)
    BY <1>1, <2>3, <2>4, <2>5 DEF Balanced
  <2>7. /\ \A i \in DOMAIN s : s[i].op # "loadString"
        /\ \A i \in DOMAIN Thrown(b) : Thrown(b)[i].op \in {"unlock", "error"}
    BY <1>1, <2>2, <2>3
  <2> QED
    BY <1>2, <2>2, <2>3, <2>4, <2>6, <2>7 DEF s
<1>3. CASE ~b
  <2> DEFINE s == Thrown(b) \o <<x>>
             d == [i \in 1 .. 3 |-> IF i = 3 THEN 0 ELSE 1]
  <2>1. Thrown(b) = <<>> \o <<Do("error")>>
    BY <1>3 DEF Thrown
  <2>2. /\ Thrown(b) \in Seq(Entry) /\ Len(Thrown(b)) = 1 /\ Thrown(b)[1] = Do("error")
    <3>1. <<>> \in Seq(Entry) /\ Len(<<>>) = 0
      OBVIOUS
    <3> QED
      BY <1>1, <2>1, <3>1, OneMore
  <2>3. /\ s \in Seq(Entry) /\ Len(s) = 2 /\ DOMAIN s = 1 .. 2
        /\ s[1] = Do("error") /\ s[2] = x
    <3>1. /\ s \in Seq(Entry) /\ Len(s) = Len(Thrown(b)) + 1 /\ s[Len(Thrown(b)) + 1] = x
          /\ \A i \in 1 .. Len(Thrown(b)) : s[i] = Thrown(b)[i]
      BY <2>2, OneMore
    <3> HIDE DEF s
    <3>2. /\ Len(s) = 2 /\ s[2] = x /\ \A i \in 1 .. 1 : s[i] = Thrown(b)[i]
      BY <2>2, <3>1
    <3> QED
      BY <2>2, <3>1, <3>2
  <2>4. d \in [1 .. 3 -> Nat] /\ d[1] = 1 /\ d[2] = 1 /\ d[3] = 0
    OBVIOUS
  <2> HIDE DEF s, d
  <2>5. Depths(s, d)
    BY <1>1, <2>3, <2>4 DEF Depths, Change
  <2>6. Balanced(s, d)
    BY <1>1, <2>3, <2>4, <2>5 DEF Balanced
  <2>7. /\ \A i \in DOMAIN s : s[i].op # "loadString"
        /\ \A i \in DOMAIN Thrown(b) : Thrown(b)[i].op \in {"unlock", "error"}
    BY <1>1, <2>2, <2>3
  <2> QED
    BY <1>3, <2>2, <2>3, <2>4, <2>6, <2>7 DEF s
<1> QED
  BY <1>2, <1>3

(* Lua code under way.                                                     *)
LEMMA LuaBalanced ==
  ASSUME NEW x \in Entry, x.op = "lua"
  PROVE  <<x>> \in Seq(Entry) /\ \E d : Balanced(<<x>>, d) /\ d[1] = 1
<1> DEFINE d == [i \in 1 .. 2 |-> IF i = 2 THEN 0 ELSE 1]
           s == <<x>>
<1>1. s \in Seq(Entry) /\ Len(s) = 1 /\ DOMAIN s = 1 .. 1 /\ s[1] = x
  OBVIOUS
<1>2. d \in [1 .. 2 -> Nat] /\ d[1] = 1 /\ d[2] = 0
  OBVIOUS
<1> HIDE DEF s, d
<1>3. Depths(s, d)
  BY <1>1, <1>2 DEF Depths, Change
<1>4. Balanced(s, d)
  BY <1>1, <1>2, <1>3 DEF Balanced
<1> QED
  BY <1>1, <1>2, <1>4 DEF s

(* Calls put in front of what is left.                                     *)
LEMMA PutBefore ==
  ASSUME NEW s \in Seq(Entry), NEW a \in Seq(Entry), NEW d, NEW c,
         Balanced(s, d), Balanced(a, c), NEW k \in 1 .. Len(s) + 1,
         \A i \in DOMAIN a : a[i].op = "loadString" => d[k] = 0
  PROVE  /\ a \o SubSeq(s, k, Len(s)) \in Seq(Entry)
         /\ \E e : Balanced(a \o SubSeq(s, k, Len(s)), e) /\ e[1] = c[1] + d[k]
<1> DEFINE t == SubSeq(s, k, Len(s))
           f == [i \in 1 .. Len(t) + 1 |-> d[i + k - 1]]
           e == Joined(a, t, c, f)
<1>1. t \in Seq(Entry) /\ Balanced(t, f) /\ Len(s) \in Nat
  BY SuffixBalanced, LenProperties
<1> HIDE DEF t
<1>2. f[1] = d[k] /\ f[1] \in Nat
  <2>1. 1 \in 1 .. Len(t) + 1 /\ 1 + k - 1 = k
    BY <1>1, LenProperties
  <2> QED
    BY <1>1, <2>1 DEF Balanced, Depths
<1> HIDE DEF f
<1>3. Balanced(a \o t, e)
  BY <1>1, <1>2, ConcatBalanced
<1>4. e[1] = c[1] + d[k]
  <2>1. Len(a) \in Nat /\ Len(t) \in Nat /\ c[Len(a) + 1] = 0
    BY <1>1, LenProperties DEF Balanced, Depths
  <2>2. e[1] = IF 1 <= Len(a) THEN c[1] + f[1] ELSE f[1 - Len(a)]
    BY <2>1 DEF Joined
  <2>3. CASE Len(a) = 0
    BY <1>2, <2>1, <2>2, <2>3
  <2>4. CASE Len(a) # 0
    BY <1>2, <2>1, <2>2, <2>4
  <2> QED
    BY <2>3, <2>4
<1>5. a \o t \in Seq(Entry)
  BY <1>1
<1> QED
  BY <1>3, <1>4, <1>5 DEF t

-----------------------------------------------------------------------------
(* What a step of the main thread leaves alone                             *)

(* Operations of the stack touch nothing else of a state.                  *)
Rest(s, t) == t.reg = s.reg /\ t.free = s.free /\ t.index = s.index

LEMMA StackOps ==
  ASSUME NEW s, NEW v, NEW i, NEW u
  PROVE  /\ Rest(s, PushValueOf(s, v)) /\ PushValueOf(s, v).env = s.env
         /\ Rest(s, PushValue(s, i)) /\ PushValue(s, i).env = s.env
         /\ Rest(s, CutTo(s, i)) /\ CutTo(s, i).env = s.env
         /\ Rest(s, SetTop(s, i)) /\ SetTop(s, i).env = s.env
         /\ Rest(s, Pop(s, i)) /\ Pop(s, i).env = s.env
         /\ Rest(s, RemoveIndex(s, i)) /\ RemoveIndex(s, i).env = s.env
         /\ Rest(s, InsertIndex(s, i)) /\ InsertIndex(s, i).env = s.env
         /\ Rest(s, RawGetI(s, i)) /\ RawGetI(s, i).env = s.env
         /\ Rest(s, BeginFrame(s, i)) /\ BeginFrame(s, i).env = s.env
         /\ Rest(s, EndFrame(s, v)) /\ EndFrame(s, v).env = s.env
         /\ Rest(s, PushJava(s, u, v)) /\ PushJava(s, u, v).env = s.env
         /\ Rest(s, KeepClass(s)) /\ KeepClass(s).env = s.env
<1>1. /\ Rest(s, PushValueOf(s, v)) /\ PushValueOf(s, v).env = s.env
      /\ Rest(s, PushValue(s, i)) /\ PushValue(s, i).env = s.env
      /\ Rest(s, RawGetI(s, i)) /\ RawGetI(s, i).env = s.env
  BY DEF Rest, PushValueOf, PushValue, RawGetI
<1>2. /\ Rest(s, CutTo(s, i)) /\ CutTo(s, i).env = s.env
      /\ Rest(s, SetTop(s, i)) /\ SetTop(s, i).env = s.env
      /\ Rest(s, Pop(s, i)) /\ Pop(s, i).env = s.env
  BY DEF Rest, CutTo, SetTop, Pop
<1>3. /\ Rest(s, RemoveIndex(s, i)) /\ RemoveIndex(s, i).env = s.env
      /\ Rest(s, InsertIndex(s, i)) /\ InsertIndex(s, i).env = s.env
  BY DEF Rest, RemoveIndex, InsertIndex
<1>4. /\ Rest(s, BeginFrame(s, i)) /\ BeginFrame(s, i).env = s.env
      /\ Rest(s, EndFrame(s, v)) /\ EndFrame(s, v).env = s.env
  BY DEF Rest, BeginFrame, EndFrame, CutTo
<1>5. /\ Rest(s, PushJava(s, u, v)) /\ PushJava(s, u, v).env = s.env
      /\ Rest(s, KeepClass(s)) /\ KeepClass(s).env = s.env
  BY DEF Rest, PushJava, PushValueOf, KeepClass
<1> QED
  BY <1>1, <1>2, <1>3, <1>4, <1>5

LEMMA CallRests ==
  ASSUME NEW s, NEW j, NEW D
  PROVE  Rest(s, FromCPtr(s, j, D)) /\ FromCPtr(s, j, D).env = j
  BY DEF Rest, FromCPtr, Collected

LEMMA RestAfter ==
  ASSUME NEW j, NEW t, NEW D, Rest(S, t), S' = FromCPtr(t, j, D)
  PROVE  Rest(S, S') /\ S'.env = j
<1>1. Rest(t, S') /\ S'.env = j
  BY CallRests
<1> QED
  BY <1>1 DEF Rest

(* The finalizer thread stays where it is.                                 *)
FinalizerStays ==
  /\ made' = made /\ open' = open
  /\ todo'["finalizer"] = todo["finalizer"]
  /\ \A o \in Objects :
       /\ object'[o].st = "finalizing" <=> object[o].st = "finalizing"
       /\ object[o].st = "finalizing" => object'[o].of = object[o].of

LEMMA HoldsKept ==
  ASSUME FinalizerStays
  PROVE  \A g : FinalizerHolds(g)' <=> FinalizerHolds(g)
  BY DEF FinalizerStays, FinalizerHolds, Busy

LEMMA FinalizerKept ==
  ASSUME FinalizerStays, FinalizerInv
  PROVE  FinalizerInv'
  BY DEF FinalizerStays, FinalizerInv, Finalizes

(* The monitor of the current state is left alone, entered or left.        *)
LEMMA MonitorKept ==
  ASSUME FinalizerStays, NEW n, Held(n), monitor' = monitor
  PROVE  Held(n)'
  BY HoldsKept DEF Held, FinalizerStays

LEMMA MonitorEntered ==
  ASSUME FinalizerStays, NEW n \in Nat, Held(n), made \in 1 .. MaxStates,
         CanEnter("main", made), Enter(made, "main")
  PROVE  Held(n + 1)'
<1>1. \A g : FinalizerHolds(g)' <=> FinalizerHolds(g)
  BY HoldsKept
<1>2. ~FinalizerHolds(made)
  BY DEF Held, CanEnter, Nobody
<1>3. monitor[made] = IF n > 0 THEN [by |-> "main", n |-> n] ELSE [by |-> Nobody, n |-> 0]
  BY <1>2 DEF Held
<1>4. monitor' = [g \in 1 .. MaxStates |-> IF g = made THEN [by |-> "main", n |-> n + 1] ELSE monitor[g]]
  <2>1. monitor[made].n = n
    BY <1>3
  <2>2. DOMAIN monitor = 1 .. MaxStates
    BY DEF Held
  <2>3. monitor' = [monitor EXCEPT ![made] = [by |-> "main", n |-> n + 1]]
    BY <2>1 DEF Enter
  <2> QED
    BY <2>2, <2>3
<1>5. n + 1 > 0 /\ made' = made
  BY DEF FinalizerStays
<1>6. monitor' = [g \in 1 .. MaxStates |->
        IF g = made' /\ n + 1 > 0 THEN [by |-> "main", n |-> n + 1]
        ELSE IF FinalizerHolds(g)' THEN [by |-> "finalizer", n |-> 1]
        ELSE [by |-> Nobody, n |-> 0]]
  BY <1>1, <1>4, <1>5 DEF Held
<1> QED
  BY <1>1, <1>2, <1>5, <1>6 DEF Held

LEMMA MonitorExited ==
  ASSUME FinalizerStays, NEW n \in Nat, n > 0, Held(n), made \in 1 .. MaxStates, Exit(made)
  PROVE  Held(n - 1)'
<1>1. \A g : FinalizerHolds(g)' <=> FinalizerHolds(g)
  BY HoldsKept
<1>2. ~FinalizerHolds(made)
  BY DEF Held
<1>3. monitor[made] = [by |-> "main", n |-> n]
  BY DEF Held
<1>4. monitor' = [g \in 1 .. MaxStates |->
        IF g = made THEN [by |-> IF n = 1 THEN Nobody ELSE "main", n |-> n - 1] ELSE monitor[g]]
  BY <1>3 DEF Held, Exit
<1>5. made' = made /\ (n - 1 > 0 <=> n # 1)
  BY DEF FinalizerStays
<1>6. monitor' = [g \in 1 .. MaxStates |->
        IF g = made' /\ n - 1 > 0 THEN [by |-> "main", n |-> n - 1]
        ELSE IF FinalizerHolds(g)' THEN [by |-> "finalizer", n |-> 1]
        ELSE [by |-> Nobody, n |-> 0]]
  <2>1. ASSUME NEW g \in 1 .. MaxStates
        PROVE  monitor'[g] = IF g = made' /\ n - 1 > 0 THEN [by |-> "main", n |-> n - 1]
                             ELSE IF FinalizerHolds(g)' THEN [by |-> "finalizer", n |-> 1]
                             ELSE [by |-> Nobody, n |-> 0]
    <3>1. CASE g = made /\ n = 1
      BY <1>1, <1>2, <1>4, <1>5, <3>1
    <3>2. CASE g = made /\ n # 1
      BY <1>4, <1>5, <3>2
    <3>3. CASE g # made
      <4>1. monitor'[g] = monitor[g]
        BY <1>4, <3>3
      <4> QED
        BY <1>1, <1>5, <3>3, <4>1 DEF Held
    <3> QED
      BY <3>1, <3>2, <3>3
  <2> QED
    BY <1>4, <2>1
<1> QED
  BY <1>1, <1>2, <1>5, <1>6 DEF Held

(* The registry and the objects that hold its keys are left alone.         *)
LEMMA RegistryKept ==
  ASSUME FinalizerStays, RegInv, RefsKept, object' = object, Rest(S, S')
  PROVE  RegInv' /\ RefsKept'
<1>1. /\ S'.reg = S.reg /\ S'.free = S.free /\ made' = made /\ open' = open
      /\ todo'["finalizer"] = todo["finalizer"]
  BY DEF FinalizerStays, Rest
<1>2. Holding' = Holding /\ \A o : Pending(o)' <=> Pending(o)
  BY <1>1 DEF Holding, Pending
<1>3. RegInv'
  BY <1>1, <1>2 DEF RegInv, FreeList
<1>4. RefsKept'
  BY <1>1, <1>2 DEF RefsKept
<1> QED
  BY <1>3, <1>4

(* The finalizer never runs Lua.                                           *)
LEMMA FinalizerCalls ==
  ASSUME FinalizerInv
  PROVE  /\ ~InsideLua("finalizer")
         /\ Busy("finalizer") => Head(todo["finalizer"]).op \in {"lock", "ifOpen", "unref", "unlock"}
<1>1. CASE todo["finalizer"] = <<>>
  BY <1>1 DEF InsideLua, Busy
<1>2. ASSUME NEW o \in Objects, Finalizes(o)
      PROVE  /\ ~InsideLua("finalizer")
             /\ Head(todo["finalizer"]).op \in {"lock", "ifOpen", "unref", "unlock"}
  <2>2. todo["finalizer"] \in {<<Do("lock"), Of("ifOpen", o), Of("unref", o), Do("unlock")>>,
                               <<Of("ifOpen", o), Of("unref", o), Do("unlock")>>,
                               <<Of("unref", o), Do("unlock")>>, <<Do("unlock")>>}
    BY <1>2 DEF Finalizes
  <2>3. /\ Do("lock").op = "lock" /\ Of("ifOpen", o).op = "ifOpen"
        /\ Of("unref", o).op = "unref" /\ Do("unlock").op = "unlock"
    BY DEF Do, Of
  <2> QED
    BY <2>2, <2>3 DEF InsideLua
<1> QED
  BY <1>1, <1>2 DEF FinalizerInv

(* The main thread goes on with new.                                       *)
MainGoes(new) == todo' = [todo EXCEPT !["main"] = new]

LEMMA MainGone ==
  ASSUME ShapeInv, NEW new, MainGoes(new)
  PROVE  /\ todo'["main"] = new /\ todo'["finalizer"] = todo["finalizer"]
         /\ todo' = [j \in Threads |-> todo'[j]]
  BY DEF ShapeInv, MainGoes, Threads

(* What remains to show of a step of the main thread that makes, finalizes *)
(* and drops no LuaObject.                                                 *)
LEMMA GoesOn ==
  ASSUME IInv, NEW new \in Seq(Entry), MainGoes(new), new # <<>> => open,
         UNCHANGED <<states, made, open, stateId, object>>, Rest(S, S'),
         MonitorInv', MakesInv', InsideLua("main")' => S'.env = "main"
  PROVE  IInv'
<1>1. /\ todo'["main"] = new /\ todo'["finalizer"] = todo["finalizer"]
      /\ todo' = [j \in Threads |-> todo'[j]]
  BY MainGone DEF IInv
<1>2. FinalizerStays
  BY <1>1 DEF FinalizerStays
<1>3. FinalizerInv' /\ RegInv' /\ RefsKept'
  BY <1>2, FinalizerKept, RegistryKept DEF IInv
<1>4. ShapeInv'
  BY <1>1 DEF IInv, ShapeInv, Busy
<1>5. StatesInv'
  BY DEF IInv, StatesInv, Rest
<1>6. EnvIsRunning'
  <2>1. ~InsideLua("finalizer")'
    BY <1>3, FinalizerCalls, PTL
  <2> QED
    BY <2>1 DEF EnvIsRunning, Threads
<1> QED
  BY <1>3, <1>4, <1>5, <1>6 DEF IInv

(* How deep new is, compared with what the main thread had before it.      *)
LEMMA MonitorGoes ==
  ASSUME NEW e, Balanced(todo'["main"], e), Held(e[1])'
  PROVE  MonitorInv'
  BY DEF MonitorInv, Balanced, Depths

(* Calls put in front that make one LuaObject at most.                     *)
MakesOne(a, s, k) ==
  \A i \in DOMAIN a : Makes(a[i]) =>
    /\ object[a[i].o].st = "none"
    /\ \A m \in k .. Len(s) : Makes(s[m]) => s[m].o # a[i].o
    /\ \A j \in DOMAIN a : Makes(a[j]) => j = i

LEMMA MakesPut ==
  ASSUME ShapeInv, MakesInv, NEW a \in Seq(Entry), NEW k \in 1 .. Len(todo["main"]) + 1,
         MakesOne(a, todo["main"], k),
         MainGoes(a \o SubSeq(todo["main"], k, Len(todo["main"]))), object' = object
  PROVE  MakesInv'
<1> DEFINE s == todo["main"]
           t == SubSeq(s, k, Len(s))
           r == a \o t
<1>1. s \in Seq(Entry) /\ Len(s) \in Nat /\ DOMAIN s = 1 .. Len(s) /\ todo'["main"] = r
  BY MainGone, LenProperties DEF ShapeInv
<1>2. /\ t \in Seq(Entry) /\ Len(t) = Len(s) + 1 - k
      /\ \A i \in 1 .. Len(t) : t[i] = s[i + k - 1]
  BY <1>1, SubSeqProperties
<1>3. Len(a) \in Nat /\ DOMAIN a = 1 .. Len(a)
  BY LenProperties
<1> HIDE DEF t
<1>4. /\ r \in Seq(Entry) /\ Len(r) = Len(a) + Len(t)
      /\ \A i \in 1 .. Len(a) : r[i] = a[i]
      /\ \A i \in 1 .. Len(t) : r[i + Len(a)] = t[i]
  BY <1>2, Concat
<1> HIDE DEF r
<1>5. ASSUME NEW i \in 1 .. Len(r)
      PROVE  \/ i \in DOMAIN a /\ r[i] = a[i]
             \/ /\ i - Len(a) + k - 1 \in k .. Len(s) /\ i > Len(a)
                /\ r[i] = s[i - Len(a) + k - 1]
  <2>1. CASE i <= Len(a)
    BY <1>3, <1>4, <2>1
  <2>2. CASE ~(i <= Len(a))
    <3>1. i - Len(a) \in 1 .. Len(t) /\ (i - Len(a)) + Len(a) = i /\ i > Len(a)
      BY <1>1, <1>2, <1>3, <1>4, <2>2
    <3>2. i - Len(a) + k - 1 \in k .. Len(s)
      BY <1>1, <1>2, <1>3, <3>1
    <3>3. r[i] = t[i - Len(a)]
      BY <1>4, <3>1
    <3> QED
      BY <1>2, <3>1, <3>2, <3>3
  <2> QED
    BY <2>1, <2>2
<1>6. DOMAIN r = 1 .. Len(r) /\ Len(r) \in Nat
  BY <1>4, LenProperties
<1>7. \A m \in k .. Len(s) : m \in DOMAIN s
  BY <1>1
<1>8. ASSUME NEW i \in DOMAIN r, Makes(r[i])
      PROVE  /\ object[r[i].o].st = "none"
             /\ \A j \in DOMAIN r : Makes(r[j]) /\ j # i => r[j].o # r[i].o
  <2>1. object[r[i].o].st = "none"
    <3>1. CASE i \in DOMAIN a /\ r[i] = a[i]
      BY <1>8, <3>1 DEF MakesOne
    <3>2. CASE i - Len(a) + k - 1 \in k .. Len(s) /\ r[i] = s[i - Len(a) + k - 1]
      <4> DEFINE m == i - Len(a) + k - 1
      <4>1. m \in DOMAIN s /\ r[i] = s[m]
        BY <1>7, <3>2
      <4> HIDE DEF m
      <4> QED
        BY <1>1, <1>8, <4>1 DEF MakesInv
    <3> QED
      BY <1>5, <1>6, <3>1, <3>2
  <2>2. ASSUME NEW j \in DOMAIN r, Makes(r[j]), j # i PROVE r[j].o # r[i].o
    <3>1. CASE i \in DOMAIN a /\ r[i] = a[i]
      <4>1. CASE j \in DOMAIN a /\ r[j] = a[j]
        BY <1>8, <2>2, <3>1, <4>1 DEF MakesOne
      <4>2. CASE j - Len(a) + k - 1 \in k .. Len(s) /\ r[j] = s[j - Len(a) + k - 1]
        BY <1>8, <2>2, <3>1, <4>2 DEF MakesOne
      <4> QED
        BY <1>5, <1>6, <4>1, <4>2
    <3>2. CASE i - Len(a) + k - 1 \in k .. Len(s) /\ r[i] = s[i - Len(a) + k - 1]
      <4>1. CASE j \in DOMAIN a /\ r[j] = a[j]
        BY <1>8, <2>2, <3>2, <4>1 DEF MakesOne
      <4>2. CASE j - Len(a) + k - 1 \in k .. Len(s) /\ r[j] = s[j - Len(a) + k - 1]
        <5>1. j - Len(a) + k - 1 # i - Len(a) + k - 1
          BY <1>3, <1>6, <2>2
        <5> QED
          BY <1>1, <1>7, <1>8, <2>2, <3>2, <4>2, <5>1 DEF MakesInv
      <4> QED
        BY <1>5, <1>6, <4>1, <4>2
    <3> QED
      BY <1>5, <1>6, <3>1, <3>2
  <2> QED
    BY <2>1, <2>2
<1> QED
  BY <1>1, <1>8 DEF MakesInv

-----------------------------------------------------------------------------
(* What most steps of the main thread have in common                       *)

LEMMA TailIs ==
  ASSUME NEW s \in Seq(Entry), s # <<>>
  PROVE  /\ Len(s) \in Nat /\ 1 \in 1 .. Len(s) /\ 2 \in 1 .. Len(s) + 1
         /\ DOMAIN s = 1 .. Len(s) /\ Head(s) = s[1] /\ s[1] \in Entry
         /\ Tail(s) = SubSeq(s, 2, Len(s)) /\ Tail(s) \in Seq(Entry)
<1>1. Len(s) \in Nat /\ Len(s) # 0 /\ DOMAIN s = 1 .. Len(s)
  BY EmptySeq, LenProperties
<1>2. Tail(s) \in Seq(Entry) /\ Tail(s) = SubSeq(s, 2, Len(s))
  BY HeadTailProperties, TailIsSubSeq
<1> QED
  BY <1>1, <1>2

(* Calls put before a suffix, the first of the suffix being looked at with *)
(* them.                                                                   *)
LEMMA SplitHead ==
  ASSUME NEW a \in Seq(Entry), NEW s \in Seq(Entry), NEW k \in 1 .. Len(s)
  PROVE  a \o SubSeq(s, k, Len(s)) = (a \o <<s[k]>>) \o SubSeq(s, k + 1, Len(s))
<1>1. Len(s) \in Nat /\ Len(a) \in Nat /\ s[k] \in Entry
  BY LenProperties, ElementOfSeq
<1>2. /\ SubSeq(s, k, Len(s)) \in Seq(Entry) /\ SubSeq(s, k + 1, Len(s)) \in Seq(Entry)
      /\ <<s[k]>> \in Seq(Entry)
  BY <1>1, SubSeqProperties
<1> DEFINE y == SubSeq(s, k + 1, Len(s))
           x == <<s[k]>>
<1>3. SubSeq(s, k, Len(s)) = x \o y
  BY <1>1, SubSeqRecursiveFirst
<1> HIDE DEF x, y
<1>4. x \in Seq(Entry) /\ y \in Seq(Entry)
  BY <1>2 DEF x, y
<1>5. (a \o x) \o y = a \o (x \o y)
  BY <1>4, Regroup
<1> QED
  BY <1>3, <1>5 DEF x, y

(* Lua code is under way behind calls that are not Lua code, if it was.    *)
LEMMA InsidePut ==
  ASSUME ShapeInv, NEW a \in Seq(Entry), NEW k \in 1 .. Len(todo["main"]) + 1,
         MainGoes(a \o SubSeq(todo["main"], k, Len(todo["main"]))),
         \A i \in DOMAIN a : a[i].op # "lua", InsideLua("main")'
  PROVE  InsideLua("main")
<1> DEFINE s == todo["main"]
           t == SubSeq(s, k, Len(s))
           r == a \o t
<1>1. s \in Seq(Entry) /\ Len(s) \in Nat /\ DOMAIN s = 1 .. Len(s) /\ todo'["main"] = r
  BY MainGone, LenProperties DEF ShapeInv
<1>2. /\ t \in Seq(Entry) /\ Len(t) = Len(s) + 1 - k
      /\ \A i \in 1 .. Len(t) : t[i] = s[i + k - 1]
  BY <1>1, SubSeqProperties
<1>3. Len(a) \in Nat /\ DOMAIN a = 1 .. Len(a) /\ Len(t) \in Nat /\ DOMAIN t = 1 .. Len(t)
  BY <1>2, LenProperties
<1> HIDE DEF t
<1>4. /\ r \in Seq(Entry) /\ Len(r) = Len(a) + Len(t) /\ DOMAIN r = 1 .. Len(r)
      /\ \A i \in 1 .. Len(a) : r[i] = a[i]
      /\ \A i \in 1 .. Len(t) : r[i + Len(a)] = t[i]
  <2>1. /\ r \in Seq(Entry) /\ Len(r) = Len(a) + Len(t) /\ DOMAIN r = 1 .. Len(a) + Len(t)
        /\ \A i \in 1 .. Len(a) : r[i] = a[i]
        /\ \A i \in 1 .. Len(t) : r[i + Len(a)] = t[i]
    BY <1>2, Concat
  <2> HIDE DEF r
  <2> QED
    BY <2>1
<1> HIDE DEF r
<1>5. PICK i \in DOMAIN r : r[i].op = "lua"
  BY <1>1 DEF InsideLua
<1>6. ~(i <= Len(a))
  BY <1>3, <1>4, <1>5
<1>7. i - Len(a) \in 1 .. Len(t) /\ (i - Len(a)) + Len(a) = i
  BY <1>3, <1>4, <1>6
<1>8. i - Len(a) + k - 1 \in DOMAIN s /\ r[i] = s[i - Len(a) + k - 1]
  <2>1. i - Len(a) + k - 1 \in 1 .. Len(s)
    BY <1>1, <1>2, <1>3, <1>7
  <2>2. r[i] = t[i - Len(a)]
    BY <1>4, <1>7
  <2> QED
    BY <1>1, <1>2, <1>7, <2>1, <2>2
<1> QED
  BY <1>5, <1>8 DEF InsideLua

(* The environment stays the main thread's where it has to be.             *)
EnvKept(a) ==
  \/ S'.env = "main"
  \/ S'.env = S.env /\ (InsideLua("main") \/ \A i \in DOMAIN a : a[i].op # "lua")

(* The main thread goes on with a and what it had from k on.               *)
LEMMA MainPut ==
  ASSUME IInv, open, NEW d, Balanced(todo["main"], d), NEW a \in Seq(Entry), NEW c, Balanced(a, c),
         NEW k \in 1 .. Len(todo["main"]) + 1,
         \A i \in DOMAIN a : a[i].op = "loadString" => d[k] = 0,
         MainGoes(a \o SubSeq(todo["main"], k, Len(todo["main"]))), Held(c[1] + d[k])',
         MakesOne(a, todo["main"], k), EnvKept(a),
         UNCHANGED <<states, made, open, stateId, object>>, Rest(S, S')
  PROVE  IInv'
<1> DEFINE s == todo["main"]
           r == a \o SubSeq(s, k, Len(s))
<1>1. s \in Seq(Entry) /\ ShapeInv /\ todo'["main"] = r
  BY MainGone DEF IInv, ShapeInv
<1>2. r \in Seq(Entry) /\ \E e : Balanced(r, e) /\ e[1] = c[1] + d[k]
  <2>1. s \in Seq(Entry) /\ Balanced(s, d) /\ k \in 1 .. Len(s) + 1
    BY <1>1
  <2> HIDE DEF s
  <2> QED
    BY <2>1, PutBefore, SMTT(60)
<1>3. MakesInv'
  BY <1>1, MakesPut DEF IInv
<1>4. MonitorInv'
  BY <1>1, <1>2, MonitorGoes
<1>5. InsideLua("main")' => S'.env = "main"
  <2>1. InsideLua("main") => S.env = "main"
    BY DEF IInv, EnvIsRunning, Threads
  <2>2. CASE \A i \in DOMAIN a : a[i].op # "lua"
    BY <1>1, <2>1, <2>2, InsidePut DEF EnvKept
  <2> QED
    BY <2>1, <2>2 DEF EnvKept
<1>6. MainGoes(r) /\ Rest(S, S')
  OBVIOUS
<1> HIDE DEF r
<1> QED
  BY <1>2, <1>3, <1>4, <1>5, <1>6, GoesOn

(* Calls that are none of the monitor's, and make nothing.                 *)
Plain(a) == \A i \in DOMAIN a : a[i].op \notin Special \cup {"loadString"} /\ ~Makes(a[i])

LEMMA MainPutPlain ==
  ASSUME IInv, open, NEW d, Balanced(todo["main"], d), NEW a \in Seq(Entry), Plain(a),
         NEW k \in 1 .. Len(todo["main"]) + 1,
         MainGoes(a \o SubSeq(todo["main"], k, Len(todo["main"]))), Held(d[k])',
         S'.env \in {S.env, "main"},
         UNCHANGED <<states, made, open, stateId, object>>, Rest(S, S')
  PROVE  IInv'
<1> DEFINE c == [i \in 1 .. Len(a) + 1 |-> 0]
<1>1. Balanced(a, c)
  BY PlainBalanced DEF Plain
<1>2. c[1] + d[k] = d[k]
  <2>1. Len(a) \in Nat /\ Len(todo["main"]) + 1 \in Nat
    BY LenProperties DEF IInv, ShapeInv
  <2>2. c[1] = 0 /\ d[k] \in Nat
    BY <2>1 DEF Balanced, Depths
  <2> QED
    BY <2>2
<1> HIDE DEF c
<1>3. MakesOne(a, todo["main"], k) /\ EnvKept(a)
  BY DEF Plain, MakesOne, EnvKept, Special
<1>4. \A i \in DOMAIN a : a[i].op = "loadString" => d[k] = 0
  BY DEF Plain
<1>5. Held(c[1] + d[k])'
  BY <1>2
<1> QED
  BY <1>1, <1>3, <1>4, <1>5, MainPut

(* Nothing comes before what is left.                                      *)
LEMMA MainDrops ==
  ASSUME IInv, open, NEW d, Balanced(todo["main"], d), NEW k \in 1 .. Len(todo["main"]) + 1,
         MainGoes(SubSeq(todo["main"], k, Len(todo["main"]))), Held(d[k])',
         S'.env \in {S.env, "main"},
         UNCHANGED <<states, made, open, stateId, object>>, Rest(S, S')
  PROVE  IInv'
<1>1. <<>> \in Seq(Entry) /\ Plain(<<>>)
  BY DEF Plain
<1>2. <<>> \o SubSeq(todo["main"], k, Len(todo["main"])) = SubSeq(todo["main"], k, Len(todo["main"]))
  <2>1. SubSeq(todo["main"], k, Len(todo["main"])) \in Seq(Entry)
    BY SuffixBalanced DEF IInv, ShapeInv
  <2> QED
    BY <2>1, ConcatEmptySeq
<1>3. MainGoes(<<>> \o SubSeq(todo["main"], k, Len(todo["main"])))
  BY <1>2
<1> QED
  BY <1>1, <1>3, MainPutPlain

(* The call before the main thread.                                        *)
LEMMA AtHead ==
  ASSUME ShapeInv, Busy("main"), NEW d, Balanced(todo["main"], d)
  PROVE  /\ open /\ todo["main"] \in Seq(Entry)
         /\ Arg("main") = todo["main"][1] /\ Arg("main") \in Entry
         /\ Len(todo["main"]) \in Nat /\ DOMAIN todo["main"] = 1 .. Len(todo["main"])
         /\ 1 \in 1 .. Len(todo["main"]) /\ 2 \in 1 .. Len(todo["main"]) + 1
         /\ d[1] \in Nat /\ d[2] \in Nat /\ d[1] = d[2] + Change(Arg("main"))
         /\ Go("main") => MainGoes(SubSeq(todo["main"], 2, Len(todo["main"])))
         /\ \A a : Then("main", a) => MainGoes(a \o SubSeq(todo["main"], 2, Len(todo["main"])))
<1> DEFINE s == todo["main"]
<1>1. open /\ s \in Seq(Entry) /\ s # <<>>
  BY DEF ShapeInv, Busy
<1>2. /\ Len(s) \in Nat /\ 1 \in 1 .. Len(s) /\ 2 \in 1 .. Len(s) + 1 /\ DOMAIN s = 1 .. Len(s)
      /\ Head(s) = s[1] /\ s[1] \in Entry
      /\ Tail(s) = SubSeq(s, 2, Len(s)) /\ Tail(s) \in Seq(Entry)
  BY <1>1, TailIs
<1>3. \A a : Then("main", a) => MainGoes(a \o SubSeq(s, 2, Len(s)))
  BY <1>2 DEF Then, MainGoes
<1>4. Go("main") => MainGoes(SubSeq(s, 2, Len(s)))
  <2>1. <<>> \o Tail(s) = Tail(s)
    BY <1>2, ConcatEmptySeq
  <2> QED
    BY <1>2, <1>3, <2>1 DEF Go
<1>5. /\ d[1] \in Nat /\ d[2] \in Nat /\ d[1] = d[2] + Change(s[1])
  <2>1. 1 \in 1 .. Len(s) + 1 /\ 1 + 1 = 2
    BY <1>2
  <2> QED
    BY <1>2, <2>1 DEF Balanced, Depths
<1> QED
  BY <1>1, <1>2, <1>3, <1>4, <1>5 DEF Arg

LEMMA MonitorWitness ==
  ASSUME IInv
  PROVE  ShapeInv /\ \E d : Balanced(todo["main"], d) /\ Held(d[1])
  BY DEF IInv, MonitorInv

(* The finalizer thread is left alone by a step of the main thread that    *)
(* changes no LuaObject.                                                   *)
LEMMA MainStays ==
  ASSUME ShapeInv, NEW new, MainGoes(new), UNCHANGED <<made, open, object>>
  PROVE  FinalizerStays
  BY MainGone DEF FinalizerStays

(* A native call of the main thread that has nothing to do with the        *)
(* monitor, an exception or a LuaObject.                                   *)
LEMMA NativeGoes ==
  ASSUME IInv, Busy("main"), Arg("main").op \notin {"lock", "unlock", "lua"},
         NEW t, Rest(S, t), Native("main", t), Go("main"), object' = object
  PROVE  IInv'
<1>1. PICK d : Balanced(todo["main"], d) /\ Held(d[1])
  BY MonitorWitness
<1>2. /\ open /\ MainGoes(SubSeq(todo["main"], 2, Len(todo["main"])))
      /\ 2 \in 1 .. Len(todo["main"]) + 1 /\ d[1] = d[2]
  BY <1>1, AtHead DEF IInv, Change
<1>3. PICK D : UNCHANGED <<states, made, open, stateId, object, monitor>> /\ S' = FromCPtr(t, "main", D)
  BY DEF Native
<1>4. Rest(S, S') /\ S'.env = "main"
  BY <1>3, RestAfter
<1>5. Held(d[2])'
  BY <1>1, <1>2, <1>3, MainStays, MonitorKept DEF IInv
<1> QED
  BY <1>1, <1>2, <1>3, <1>4, <1>5, MainDrops

LEMMA NativeStepsKeep ==
  ASSUME IInv,
         \/ StackOp("main") \/ PushOp("main") \/ GetGlobal("main") \/ SetGlobal("main")
         \/ SetTopZero("main") \/ GetField("main")
         \/ \E v \in {"nil", "function"} : GetTable("main", v)
         \/ PushObject("main")
         \/ \E u \in FreeUserdata(S), kind \in {"object", "function"} : PushJavaObject("main", u, kind)
         \/ PushObjectValue("main")
  PROVE  IInv'
<1> DEFINE Goes(op, t) == Op("main", op) /\ Native("main", t) /\ Go("main") /\ object' = object
<1>1. ASSUME NEW op \in {"insert", "pushValue", "remove", "pop", "setTop", "pushString",
                         "getGlobal", "setGlobal", "getField", "getTable", "push",
                         "pushJavaObject", "pushObjectValue", "pushResult"},
             NEW t, Rest(S, t), Goes(op, t)
      PROVE  IInv'
  BY <1>1, NativeGoes DEF Op, Arg
<1>2. CASE StackOp("main")
  <2>1. \/ Goes("insert", InsertIndex(S, Arg("main").i)) \/ Goes("pushValue", PushValue(S, Arg("main").i))
        \/ Goes("remove", RemoveIndex(S, Arg("main").i)) \/ Goes("pop", Pop(S, Arg("main").i))
    BY <1>2 DEF StackOp
  <2> HIDE DEF Goes
  <2> QED
    BY <1>1, <2>1, StackOps
<1>3. CASE PushOp("main")
  BY <1>1, <1>3, StackOps DEF PushOp
<1>4. CASE GetGlobal("main")
  BY <1>1, <1>4, StackOps DEF GetGlobal
<1>5. CASE SetGlobal("main")
  <2> DEFINE s == [S EXCEPT !.x = Last(S.stk)]
  <2>1. Rest(S, s)
    BY DEF Rest
  <2>2. Goes("setGlobal", Pop(s, 1))
    BY <1>5 DEF SetGlobal
  <2> HIDE DEF s, Goes
  <2>3. Rest(S, Pop(s, 1))
    BY <2>1, StackOps DEF Rest
  <2> QED
    BY <1>1, <2>2, <2>3
<1>6. CASE SetTopZero("main")
  BY <1>1, <1>6, StackOps DEF SetTopZero
<1>7. CASE GetField("main")
  BY <1>1, <1>7, StackOps DEF GetField
<1>8. ASSUME NEW v \in {"nil", "function"}, GetTable("main", v) PROVE IInv'
  <2>1. Rest(S, PushValueOf(Pop(S, 1), v))
    <3> DEFINE s == Pop(S, 1)
    <3>1. Rest(S, s)
      BY StackOps
    <3> HIDE DEF s
    <3>2. Rest(s, PushValueOf(s, v))
      BY StackOps
    <3>3. Rest(S, PushValueOf(s, v))
      BY <3>1, <3>2 DEF Rest
    <3> QED
      BY <3>3 DEF s
  <2>2. Goes("getTable", PushValueOf(Pop(S, 1), v))
    BY <1>8 DEF GetTable
  <2> HIDE DEF Goes
  <2> QED
    BY <1>1, <2>1, <2>2
<1>9. CASE PushObject("main")
  <2>1. PICK k : k = object[Arg("main").o].ref
    OBVIOUS
  <2>2. Rest(S, RawGetI(S, k))
    BY StackOps
  <2>3. Goes("push", RawGetI(S, k))
    BY <1>9, <2>1 DEF PushObject
  <2> HIDE DEF Goes
  <2> QED
    BY <1>1, <2>2, <2>3
<1>10. ASSUME NEW u, NEW kind, PushJavaObject("main", u, kind) PROVE IInv'
  BY <1>1, <1>10, StackOps DEF PushJavaObject
<1>11. CASE PushObjectValue("main")
  <2>1. PICK t \in {PushValueOf(S, "number")} \cup {PushJava(S, u, "object") : u \in FreeUserdata(S)} :
          Goes("pushObjectValue", t) \/ Goes("pushResult", t)
    BY <1>11 DEF PushObjectValue
  <2>2. Rest(S, t)
    BY <2>1, StackOps
  <2> HIDE DEF Goes
  <2> QED
    BY <1>1, <2>1, <2>2
<1> QED
  BY <1>2, <1>3, <1>4, <1>5, <1>6, <1>7, <1>8, <1>9, <1>10, <1>11

(* Where an exception leaves a block, and where it finds Lua code.         *)
LEMMA FirstIs ==
  ASSUME NEW s \in Seq(Entry), NEW p \in 1 .. Len(s)
  PROVE  /\ s[p].op = "unlock" /\ (\A m \in 1 .. p - 1 : s[m].op # "unlock") =>
              UpToUnlock(s) = SubSeq(s, p, Len(s))
         /\ s[p].op = "lua" /\ (\A m \in 1 .. p - 1 : s[m].op # "lua") =>
              SelectInSeq(s, LAMBDA x : x.op = "lua") = p
<1>1. Len(s) \in Nat
  BY LenProperties
<1>2. ASSUME NEW op, s[p].op = op, \A m \in 1 .. p - 1 : s[m].op # op
      PROVE  LET I == {i \in 1 .. Len(s) : s[i].op = op} IN I # {} /\ Min(I) = p
  <2> DEFINE I == {i \in 1 .. Len(s) : s[i].op = op}
  <2>1. p \in I /\ \A i \in I : i \in Int /\ p <= i
    BY <1>1, <1>2
  <2> HIDE DEF I
  <2>2. \A q \in I : (\A i \in I : q <= i) => q = p
    BY <2>1
  <2>3. Min(I) = p
    BY <2>1, <2>2 DEF Min
  <2> QED
    BY <2>1, <2>3 DEF I
<1>3. ASSUME s[p].op = "unlock", \A m \in 1 .. p - 1 : s[m].op # "unlock"
      PROVE  UpToUnlock(s) = SubSeq(s, p, Len(s))
  BY <1>2, <1>3 DEF UpToUnlock, SelectInSeq
<1>4. ASSUME s[p].op = "lua", \A m \in 1 .. p - 1 : s[m].op # "lua"
      PROVE  SelectInSeq(s, LAMBDA x : x.op = "lua") = p
  BY <1>2, <1>4 DEF SelectInSeq
<1> QED
  BY <1>3, <1>4

-----------------------------------------------------------------------------
(* Steps of the main thread                                                *)

LEMMA LockKeeps ==
  ASSUME IInv, Lock("main")
  PROVE  IInv'
<1>1. PICK d : Balanced(todo["main"], d) /\ Held(d[1])
  BY MonitorWitness
<1>2. /\ Busy("main") /\ Arg("main").op = "lock" /\ CanEnter("main", made) /\ Enter(made, "main")
      /\ Go("main") /\ UNCHANGED <<states, made, open, stateId, S, object>>
  BY DEF Lock, Op, Arg, Holder
<1>3. /\ open /\ MainGoes(SubSeq(todo["main"], 2, Len(todo["main"])))
      /\ 2 \in 1 .. Len(todo["main"]) + 1 /\ d[1] \in Nat /\ d[2] = d[1] + 1
  BY <1>1, <1>2, AtHead DEF IInv, Change
<1>4. FinalizerStays /\ made \in 1 .. MaxStates
  BY <1>2, <1>3, MainStays DEF IInv, ShapeInv
<1>5. Held(d[2])'
  BY <1>1, <1>2, <1>3, <1>4, MonitorEntered
<1>6. Rest(S, S') /\ S'.env = S.env
  BY <1>2 DEF Rest
<1> QED
  BY <1>1, <1>2, <1>3, <1>5, <1>6, MainDrops

LEMMA UnlockKeeps ==
  ASSUME IInv, Unlock("main")
  PROVE  IInv'
<1>1. PICK d : Balanced(todo["main"], d) /\ Held(d[1])
  BY MonitorWitness
<1>2. /\ Busy("main") /\ Arg("main").op = "unlock" /\ Exit(made)
      /\ Go("main") /\ UNCHANGED <<states, made, open, stateId, S, object>>
  <2>1. object = [o \in Objects |-> object[o]]
    BY DEF IInv, ShapeInv
  <2> QED
    BY <2>1 DEF Unlock, Op, Arg, Holder
<1>3. /\ open /\ MainGoes(SubSeq(todo["main"], 2, Len(todo["main"])))
      /\ 2 \in 1 .. Len(todo["main"]) + 1 /\ d[1] \in Nat /\ d[1] > 0 /\ d[2] = d[1] - 1
  BY <1>1, <1>2, AtHead DEF IInv, Change
<1>4. FinalizerStays /\ made \in 1 .. MaxStates
  BY <1>2, <1>3, MainStays DEF IInv, ShapeInv
<1>5. Held(d[2])'
  BY <1>1, <1>2, <1>3, <1>4, MonitorExited
<1>6. Rest(S, S') /\ S'.env = S.env
  BY <1>2 DEF Rest
<1> QED
  BY <1>1, <1>2, <1>3, <1>5, <1>6, MainDrops

(* Queued code that does not compile ends there, with nothing held.        *)
LEMMA LoadStringKeeps ==
  ASSUME IInv, LoadString("main")
  PROVE  IInv'
<1>1. PICK d : Balanced(todo["main"], d) /\ Held(d[1])
  BY MonitorWitness
<1>2. Busy("main") /\ Arg("main").op = "loadString" /\ object' = object
  BY DEF LoadString, Op, Arg
<1>3. CASE Native("main", PushValueOf(S, "function")) /\ Go("main")
  <2>1. Rest(S, PushValueOf(S, "function"))
    BY StackOps
  <2> QED
    BY <1>2, <1>3, <2>1, NativeGoes
<1>4. CASE Native("main", PushValueOf(S, "string")) /\ todo' = [todo EXCEPT !["main"] = <<>>]
  <2> DEFINE s == todo["main"]
  <2>1. /\ open /\ s \in Seq(Entry) /\ Len(s) \in Nat /\ 1 \in 1 .. Len(s)
        /\ s[1].op = "loadString" /\ DOMAIN s = 1 .. Len(s)
    BY <1>1, <1>2, AtHead DEF IInv
  <2>2. PICK k \in 1 .. Len(s) + 1 : k = Len(s) + 1
    <3>1. \A n \in Nat : n + 1 \in 1 .. n + 1
      OBVIOUS
    <3> QED
      BY <2>1, <3>1
  <2>3. d[1] = 0 /\ d[k] = 0
    <3>1. Depths(s, d)
      BY <1>1 DEF Balanced
    <3>2. d[Len(s) + 1] = 0
      BY <3>1 DEF Depths
    <3>3. \A i \in DOMAIN s : s[i].op = "loadString" => d[i] = 0
      BY <1>1 DEF Balanced
    <3> HIDE DEF s
    <3> QED
      BY <2>1, <2>2, <3>2, <3>3
  <2>4. MainGoes(SubSeq(s, k, Len(s)))
    <3>1. SubSeq(s, k, Len(s)) = <<>>
      BY <2>1, <2>2, SubSeqEmpty
    <3> QED
      BY <1>4, <3>1 DEF MainGoes
  <2>5. PICK D : UNCHANGED <<states, made, open, stateId, object, monitor>> /\ S' = FromCPtr(PushValueOf(S, "string"), "main", D)
    BY <1>2, <1>4 DEF Native
  <2>6. Rest(S, S') /\ S'.env = "main"
    <3>1. Rest(S, PushValueOf(S, "string"))
      BY StackOps
    <3> QED
      BY <2>5, <3>1, RestAfter
  <2>7. Held(d[k])'
    <3>1. FinalizerStays
      BY <2>4, <2>5, MainStays DEF IInv
    <3> QED
      BY <1>1, <2>3, <2>5, <3>1, MonitorKept
  <2> QED
    BY <1>1, <2>1, <2>2, <2>4, <2>5, <2>6, <2>7, MainDrops
<1> QED
  BY <1>2, <1>3, <1>4 DEF LoadString

(* A method that throws goes on at the end of its block.                   *)
LEMMA BlockLeft ==
  ASSUME IInv, Busy("main"), Arg("main").op \in {"fail", "getObject"}, MainGoes(UpToUnlock(todo["main"])),
         NEW t, Rest(S, t), Native("main", t), object' = object
  PROVE  IInv'
<1> DEFINE s == todo["main"]
<1>1. PICK d : Balanced(s, d) /\ Held(d[1])
  BY MonitorWitness
<1>2. /\ open /\ s \in Seq(Entry) /\ Len(s) \in Nat /\ 1 \in 1 .. Len(s)
      /\ s[1].op \in {"fail", "getObject"} /\ DOMAIN s = 1 .. Len(s) /\ d[1] \in Nat
  BY <1>1, AtHead DEF IInv
<1>3. PICK p \in 1 + 1 .. Len(s) :
        s[p].op = "unlock" /\ d[1] = d[p] + 0 /\ \A m \in 1 .. p - 1 : s[m].op # "unlock"
  BY <1>1, <1>2 DEF Balanced, Finds
<1>4. p \in 1 .. Len(s) /\ p \in 1 .. Len(s) + 1 /\ d[p] \in Nat
  <2>1. p \in 1 .. Len(s) /\ p \in 1 .. Len(s) + 1
    BY <1>2
  <2> QED
    BY <1>1, <2>1 DEF Balanced, Depths
<1>5. d[1] = d[p]
  BY <1>3, <1>4
<1>6. MainGoes(SubSeq(s, p, Len(s)))
  <2>1. UpToUnlock(s) = SubSeq(s, p, Len(s))
    BY <1>2, <1>3, <1>4, FirstIs
  <2> QED
    BY <2>1
<1>7. PICK D : UNCHANGED <<states, made, open, stateId, object, monitor>> /\ S' = FromCPtr(t, "main", D)
  BY DEF Native
<1>8. Rest(S, S') /\ S'.env = "main"
  BY <1>7, RestAfter
<1>9. Held(d[p])'
  <2>1. FinalizerStays
    BY <1>6, <1>7, MainStays DEF IInv
  <2> QED
    BY <1>1, <1>5, <1>7, <2>1, MonitorKept
<1> QED
  BY <1>1, <1>2, <1>4, <1>6, <1>7, <1>8, <1>9, MainDrops

LEMMA LeaveBlockKeeps ==
  ASSUME IInv, LeaveBlock("main")
  PROVE  IInv'
<1>1. /\ Busy("main") /\ Arg("main").op = "fail" /\ object' = object
      /\ Native("main", Pop(S, 1)) /\ MainGoes(UpToUnlock(todo["main"]))
  BY DEF LeaveBlock, Op, Arg, MainGoes
<1>2. Rest(S, Pop(S, 1))
  BY StackOps
<1> QED
  BY <1>1, <1>2, BlockLeft

LEMMA GetObjectKeeps ==
  ASSUME IInv, GetObject("main")
  PROVE  IInv'
<1>1. /\ Busy("main") /\ Arg("main").op = "getObject" /\ object' = object /\ Native("main", S)
      /\ Go("main") \/ MainGoes(UpToUnlock(todo["main"]))
  BY DEF GetObject, Op, Arg, MainGoes
<1>2. Rest(S, S)
  BY DEF Rest
<1>3. CASE Go("main")
  BY <1>1, <1>2, <1>3, NativeGoes
<1>4. CASE MainGoes(UpToUnlock(todo["main"]))
  BY <1>1, <1>2, <1>4, BlockLeft
<1> QED
  BY <1>1, <1>3, <1>4

(* A check that fails: the exception takes its place.                      *)
LEMMA FailBalanced ==
  ASSUME NEW s \in Seq(Entry), NEW d, Balanced(s, d), 1 \in 1 .. Len(s),
         s[1].op \in {"checkTable", "checkCallable"}
  PROVE  LET r == <<Do("fail")>> \o SubSeq(s, 2, Len(s))
         IN  r \in Seq(Entry) /\ Balanced(r, d)
<1> DEFINE t == SubSeq(s, 2, Len(s))
           r == <<Do("fail")>> \o t
<1>1. Len(s) \in Nat /\ DOMAIN s = 1 .. Len(s) /\ Len(s) >= 1
  BY LenProperties
<1>2. t \in Seq(Entry) /\ Len(t) = Len(s) - 1 /\ \A i \in 1 .. Len(t) : t[i] = s[i + 1]
  BY <1>1, SubSeqProperties
<1> HIDE DEF t
<1>3. <<Do("fail")>> \in Seq(Entry) /\ Do("fail").op = "fail" /\ Do("fail") \in Entry
  BY EntryKinds DEF Do
<1>4. /\ r \in Seq(Entry) /\ Len(r) = Len(s) /\ DOMAIN r = 1 .. Len(s) /\ r[1].op = "fail"
      /\ \A i \in 2 .. Len(s) : r[i] = s[i]
  <2> DEFINE q == <<Do("fail")>>
  <2>1. q \in Seq(Entry) /\ Len(q) = 1 /\ q[1] = Do("fail")
    BY <1>3
  <2>2. r = q \o t
    OBVIOUS
  <2> HIDE DEF q, r
  <2>3. /\ r \in Seq(Entry) /\ Len(r) = 1 + Len(t) /\ DOMAIN r = 1 .. 1 + Len(t)
        /\ \A i \in 1 .. 1 : r[i] = q[i]
        /\ \A i \in 1 .. Len(t) : r[i + 1] = t[i]
    <3>1. /\ r \in Seq(Entry) /\ Len(r) = Len(q) + Len(t) /\ DOMAIN r = 1 .. Len(q) + Len(t)
          /\ \A i \in 1 .. Len(q) : r[i] = q[i]
          /\ \A i \in 1 .. Len(t) : r[i + Len(q)] = t[i]
      BY <1>2, <2>1, <2>2, Concat
    <3> QED
      BY <2>1, <3>1
  <2>4. \A i \in 2 .. Len(s) : i - 1 \in 1 .. Len(t) /\ (i - 1) + 1 = i
    BY <1>1, <1>2
  <2>5. ASSUME NEW i \in 2 .. Len(s) PROVE r[i] = s[i]
    <3>1. PICK m \in 1 .. Len(t) : m = i - 1 /\ m + 1 = i
      BY <2>4
    <3>2. r[m + 1] = t[m] /\ t[m] = s[m + 1]
      BY <1>2, <2>3
    <3> QED
      BY <3>1, <3>2
  <2> QED
    BY <1>1, <1>2, <1>3, <2>1, <2>3, <2>5
<1> HIDE DEF r
<1>5. \A i \in 1 .. Len(s) : i = 1 \/ i \in 2 .. Len(s)
  BY <1>1
<1>6. Depths(s, d) /\ Change(r[1]) = Change(s[1])
  BY <1>4 DEF Balanced, Change
<1>7. Depths(r, d)
  BY <1>1, <1>4, <1>5, <1>6 DEF Depths
<1>8. Finds(r, d, 1, "unlock", 0)
  <2>1. PICK p \in 1 + 1 .. Len(s) :
          s[p].op = "unlock" /\ d[1] = d[p] + 0 /\ \A m \in 1 .. p - 1 : s[m].op # "unlock"
    BY <1>1 DEF Balanced, Finds
  <2>2. p \in 2 .. Len(s) /\ r[p].op = "unlock" /\ p \in 1 + 1 .. Len(r)
    BY <1>4, <2>1
  <2>3. \A m \in 1 .. p - 1 : m \in 1 .. Len(s)
    BY <1>1, <2>2
  <2>4. \A m \in 1 .. p - 1 : r[m].op # "unlock"
    BY <1>4, <1>5, <2>1, <2>3
  <2> QED
    BY <2>1, <2>2, <2>4 DEF Finds
<1>9. ASSUME NEW i \in 2 .. Len(s), NEW op, NEW n, Finds(s, d, i, op, n)
      PROVE  Finds(r, d, i, op, n)
  <2>1. \A p \in i + 1 .. Len(s) : p \in 2 .. Len(s) /\ \A m \in i .. p - 1 : m \in 2 .. Len(s)
    BY <1>1
  <2> QED
    BY <1>4, <1>9, <2>1 DEF Finds
<1>10. ASSUME NEW k \in DOMAIN r, r[k].op = "lua", NEW i \in 1 .. k PROVE d[i] > 0
  <2>1. k \in DOMAIN s /\ s[k].op = "lua"
    BY <1>1, <1>4, <1>5, <1>10
  <2> QED
    BY <2>1 DEF Balanced
<1>11. ASSUME NEW i \in DOMAIN r
       PROVE  /\ r[i].op \in {"checkTable", "checkCallable", "fail", "getObject"} => Finds(r, d, i, "unlock", 0)
              /\ r[i].op = "method" => Finds(r, d, i, "lua", IF r[i].locked THEN 1 ELSE 0)
              /\ r[i].op = "error" => i < Len(r) /\ r[i + 1].op = "lua"
              /\ r[i].op = "loadString" => d[i] = 0
  <2>1. CASE i = 1
    BY <1>4, <1>8, <2>1
  <2>2. CASE i \in 2 .. Len(s)
    <3>1. i \in DOMAIN s /\ r[i] = s[i]
      BY <1>1, <1>4, <2>2
    <3>2. /\ s[i].op \in {"checkTable", "checkCallable", "fail", "getObject"} => Finds(s, d, i, "unlock", 0)
          /\ s[i].op = "method" => Finds(s, d, i, "lua", IF s[i].locked THEN 1 ELSE 0)
          /\ s[i].op = "error" => i < Len(s) /\ s[i + 1].op = "lua"
          /\ s[i].op = "loadString" => d[i] = 0
      BY <3>1 DEF Balanced
    <3>3. r[i].op = "error" => i < Len(r) /\ r[i + 1].op = "lua"
      <4>1. i < Len(s) => i + 1 \in 2 .. Len(s)
        BY <1>1, <2>2
      <4> QED
        BY <1>4, <3>1, <3>2, <4>1
    <3> QED
      BY <1>9, <2>2, <3>1, <3>2, <3>3
  <2> QED
    BY <1>4, <1>5, <2>1, <2>2
<1>12. Balanced(r, d)
  BY <1>7, <1>10, <1>11 DEF Balanced
<1> QED
  BY <1>4, <1>12 DEF r, t

LEMMA CheckKeeps ==
  ASSUME IInv, Check("main")
  PROVE  IInv'
<1> DEFINE s == todo["main"]
<1>1. PICK d : Balanced(s, d) /\ Held(d[1])
  BY MonitorWitness
<1>2. /\ Busy("main") /\ Arg("main").op \in {"checkTable", "checkCallable"}
      /\ Then("main", <<>>) \/ Then("main", <<Do("fail")>>)
      /\ Native("main", S) /\ object' = object
  BY DEF Check, Op, Arg
<1>3. CASE Then("main", <<>>)
  <2>1. Rest(S, S)
    BY DEF Rest
  <2> QED
    BY <1>2, <1>3, <2>1, NativeGoes DEF Go
<1>4. CASE Then("main", <<Do("fail")>>)
  <2> DEFINE a == <<Do("fail")>>
             r == a \o SubSeq(s, 2, Len(s))
  <2>1. /\ open /\ s \in Seq(Entry) /\ Len(s) \in Nat /\ 1 \in 1 .. Len(s)
        /\ s[1].op \in {"checkTable", "checkCallable"}
        /\ 2 \in 1 .. Len(s) + 1 /\ MainGoes(r)
    BY <1>1, <1>2, <1>4, AtHead DEF IInv
  <2>2. r \in Seq(Entry) /\ Balanced(r, d)
    BY <1>1, <2>1, FailBalanced
  <2>3. a \in Seq(Entry) /\ MakesOne(a, s, 2)
    BY EntryKinds DEF MakesOne, Makes, Do
  <2>4. PICK D : UNCHANGED <<states, made, open, stateId, object, monitor>> /\ S' = FromCPtr(S, "main", D)
    BY <1>2 DEF Native
  <2>5. Rest(S, S') /\ S'.env = "main"
    <3>1. Rest(S, S)
      BY DEF Rest
    <3> QED
      BY <2>4, <3>1, RestAfter
  <2>6. MakesInv' /\ todo'["main"] = r
    BY <2>1, <2>3, <2>4, MakesPut, MainGone DEF IInv
  <2>7. Held(d[1])'
    BY <1>1, <2>1, <2>4, MainStays, MonitorKept DEF IInv
  <2>8. MonitorInv'
    BY <2>2, <2>6, <2>7, MonitorGoes
  <2> HIDE DEF r
  <2> QED
    BY <2>1, <2>2, <2>4, <2>5, <2>6, <2>8, GoesOn
<1> QED
  BY <1>2, <1>3, <1>4

LEMMA PcallKeeps ==
  ASSUME IInv, Pcall("main")
  PROVE  IInv'
<1> DEFINE s == todo["main"]
           x == Arg("main")
           y == [x EXCEPT !.op = "lua"]
           a == <<y>>
<1>1. PICK d : Balanced(s, d) /\ Held(d[1])
  BY MonitorWitness
<1>2. /\ Busy("main") /\ x.op = "pcall" /\ CanEnter("main", made) /\ Enter(made, "main")
      /\ Then("main", a) /\ UNCHANGED <<states, made, open, stateId, object>>
  BY DEF Pcall, Op, Arg
<1> PICK D : S' = BeginFrame(FromCPtr(S, "main", D), x.args)
  BY DEF Pcall
<1>3. /\ open /\ s \in Seq(Entry) /\ Len(s) \in Nat /\ 1 \in 1 .. Len(s) /\ DOMAIN s = 1 .. Len(s)
      /\ x = s[1] /\ x \in Entry /\ 2 \in 1 .. Len(s) + 1
      /\ d[1] \in Nat /\ d[1] = d[2]
      /\ MainGoes(a \o SubSeq(s, 2, Len(s)))
  BY <1>1, <1>2, AtHead DEF IInv, Change
<1>4. /\ y \in Entry /\ y.op = "lua"
      /\ Makes(y) => Makes(x) /\ y.o = x.o
  BY <1>2, <1>3, EntryFacts DEF Makes, Entry
<1> HIDE DEF x, y
<1>5. a \in Seq(Entry) /\ Len(a) = 1 /\ DOMAIN a = 1 .. 1 /\ a[1] = y
  BY <1>4
<1>6. PICK c : Balanced(a, c) /\ c[1] = 1
  BY <1>4, LuaBalanced
<1>7. MakesOne(a, s, 2)
  <2>1. \A m \in 2 .. Len(s) : m \in DOMAIN s /\ m # 1
    BY <1>3
  <2>2. Makes(x) => object[x.o].st = "none" /\ \A m \in 2 .. Len(s) : Makes(s[m]) => s[m].o # x.o
    BY <1>3, <2>1 DEF IInv, MakesInv
  <2> QED
    BY <1>4, <1>5, <2>2 DEF MakesOne
<1>8. Held(c[1] + d[2])'
  <2>1. FinalizerStays /\ made \in 1 .. MaxStates
    BY <1>2, <1>3, MainStays DEF IInv, ShapeInv
  <2>2. c[1] + d[2] = d[1] + 1
    BY <1>3, <1>6
  <2> QED
    BY <1>1, <1>2, <1>3, <2>1, <2>2, MonitorEntered
<1>9. Rest(S, S') /\ S'.env = "main"
  <2> DEFINE t == FromCPtr(S, "main", D)
  <2>1. Rest(S, t) /\ t.env = "main"
    BY CallRests
  <2>2. S' = BeginFrame(t, x.args)
    OBVIOUS
  <2> HIDE DEF t
  <2>3. Rest(t, S') /\ S'.env = t.env
    BY <2>2, StackOps
  <2> QED
    BY <2>1, <2>3 DEF Rest
<1>10. EnvKept(a) /\ \A i \in DOMAIN a : a[i].op = "loadString" => d[2] = 0
  BY <1>4, <1>5, <1>9 DEF EnvKept
<1> HIDE DEF a
<1> QED
  BY <1>1, <1>2, <1>3, <1>5, <1>6, <1>7, <1>8, <1>9, <1>10, MainPut

(* What call() does with a result.                                         *)
Results(x, v) ==
  IF x.n = 0 THEN <<>>
  ELSE (IF v \in {"table", "function"} THEN <<Index("pushValue", -1), Of("ref", x.o)>> ELSE <<>>)
       \o <<Index("pop", 1)>>

LEMMA ResultsPlain ==
  ASSUME NEW x \in Entry, x.op = "lua", NEW v
  PROVE  /\ Results(x, v) \in Seq(Entry)
         /\ \A i \in DOMAIN Results(x, v) :
              /\ Results(x, v)[i].op \in {"pushValue", "pop", "ref"}
              /\ Makes(Results(x, v)[i]) => /\ i = 2 /\ Makes(x) /\ Results(x, v)[i].o = x.o
<1>1. /\ Index("pushValue", -1) \in Entry /\ Index("pop", 1) \in Entry
      /\ Index("pushValue", -1).op = "pushValue" /\ Index("pop", 1).op = "pop"
      /\ Of("ref", x.o).op = "ref" /\ Of("ref", x.o).o = x.o
  BY EntryKinds DEF Index, Of
<1>2. CASE x.n = 0
  BY <1>2 DEF Results
<1>3. CASE x.n # 0 /\ v \in {"table", "function"}
  <2> DEFINE b == <<Index("pushValue", -1), Of("ref", x.o)>>
             r == b \o <<Index("pop", 1)>>
  <2>1. x.n = 1 /\ Makes(x) /\ Of("ref", x.o) \in Entry
    BY <1>3, EntryFacts, EntryKinds DEF Makes
  <2>2. /\ b \in Seq(Entry) /\ Len(b) = 2
        /\ b[1] = Index("pushValue", -1) /\ b[2] = Of("ref", x.o)
    BY <1>1, <2>1
  <2> HIDE DEF b
  <2>3. /\ r \in Seq(Entry) /\ Len(r) = Len(b) + 1 /\ r[Len(b) + 1] = Index("pop", 1)
        /\ \A i \in 1 .. Len(b) : r[i] = b[i]
    BY <1>1, <2>2, OneMore
  <2> HIDE DEF r
  <2>4. DOMAIN r = 1 .. 3 /\ r[1] = Index("pushValue", -1) /\ r[2] = Of("ref", x.o) /\ r[3] = Index("pop", 1)
    BY <2>2, <2>3
  <2>5. Results(x, v) = r
    BY <1>3 DEF Results, r, b
  <2>6. ASSUME NEW i \in DOMAIN r
        PROVE  /\ r[i].op \in {"pushValue", "pop", "ref"}
               /\ Makes(r[i]) => i = 2 /\ Makes(x) /\ r[i].o = x.o
    <3>1. i = 1 \/ i = 2 \/ i = 3
      BY <2>4
    <3> QED
      BY <1>1, <2>1, <2>4, <3>1 DEF Makes
  <2> QED
    BY <2>3, <2>5, <2>6
<1>4. CASE x.n # 0 /\ v \notin {"table", "function"}
  <2> DEFINE r == <<>> \o <<Index("pop", 1)>>
  <2>1. r = <<Index("pop", 1)>>
    BY <1>1
  <2>2. Results(x, v) = <<Index("pop", 1)>>
    BY <1>4, <2>1 DEF Results
  <2>3. /\ <<Index("pop", 1)>> \in Seq(Entry) /\ DOMAIN <<Index("pop", 1)>> = 1 .. 1
        /\ <<Index("pop", 1)>>[1] = Index("pop", 1)
    BY <1>1
  <2> QED
    BY <1>1, <2>2, <2>3 DEF Makes
<1> QED
  BY <1>2, <1>3, <1>4

LEMMA LuaReturnsKeeps ==
  ASSUME IInv, NEW v, LuaReturns("main", v)
  PROVE  IInv'
<1> DEFINE s == todo["main"]
           x == Arg("main")
           a == Results(x, v)
<1>1. PICK d : Balanced(s, d) /\ Held(d[1])
  BY MonitorWitness
<1>2. /\ Busy("main") /\ x.op = "lua" /\ Exit(made)
      /\ S' = EndFrame(S, IF x.n = 0 THEN <<>> ELSE <<v>>) /\ Then("main", a)
      /\ UNCHANGED <<states, made, open, stateId, object>>
  BY DEF LuaReturns, Op, Arg, Results
<1>3. /\ open /\ s \in Seq(Entry) /\ Len(s) \in Nat /\ 1 \in 1 .. Len(s) /\ DOMAIN s = 1 .. Len(s)
      /\ x = s[1] /\ x \in Entry /\ 2 \in 1 .. Len(s) + 1
      /\ d[1] \in Nat /\ d[2] \in Nat /\ d[1] = d[2] + 1
      /\ MainGoes(a \o SubSeq(s, 2, Len(s)))
  BY <1>1, <1>2, AtHead DEF IInv, Change
<1>4. /\ a \in Seq(Entry)
      /\ \A i \in DOMAIN a : /\ a[i].op \in {"pushValue", "pop", "ref"}
                             /\ Makes(a[i]) => i = 2 /\ Makes(x) /\ a[i].o = x.o
  BY <1>2, <1>3, ResultsPlain
<1> HIDE DEF x, a
<1>5. PICK c : Balanced(a, c) /\ c[1] = 0
  <2> DEFINE z == [i \in 1 .. Len(a) + 1 |-> 0]
  <2>1. Len(a) \in Nat
    BY <1>4, LenProperties
  <2>2. \A i \in DOMAIN a : a[i].op \notin Special
    BY <1>4 DEF Special
  <2>3. Balanced(a, z) /\ z[1] = 0
    BY <1>4, <2>1, <2>2, PlainBalanced
  <2> HIDE DEF z
  <2> QED
    BY <2>3
<1>6. MakesOne(a, s, 2)
  <2>1. \A m \in 2 .. Len(s) : m \in DOMAIN s /\ m # 1
    BY <1>3
  <2>2. Makes(x) => object[x.o].st = "none" /\ \A m \in 2 .. Len(s) : Makes(s[m]) => s[m].o # x.o
    BY <1>3, <2>1 DEF IInv, MakesInv
  <2> QED
    BY <1>4, <2>2 DEF MakesOne
<1>7. Held(c[1] + d[2])'
  <2>1. FinalizerStays /\ made \in 1 .. MaxStates
    BY <1>2, <1>3, MainStays DEF IInv, ShapeInv
  <2>2. c[1] + d[2] = d[1] - 1 /\ d[1] > 0
    BY <1>3, <1>5
  <2> QED
    BY <1>1, <1>2, <1>3, <2>1, <2>2, MonitorExited
<1>8. Rest(S, S') /\ S'.env = S.env
  BY <1>2, StackOps
<1>9. EnvKept(a) /\ \A i \in DOMAIN a : a[i].op = "loadString" => d[2] = 0
  BY <1>4, <1>8 DEF EnvKept
<1> QED
  BY <1>1, <1>2, <1>3, <1>4, <1>5, <1>6, <1>7, <1>8, <1>9, MainPut

(* An error in Lua: the main thread goes on behind the pcall.              *)
LEMMA FailKeeps ==
  ASSUME IInv, Busy("main"), NEW d, Balanced(todo["main"], d), Held(d[1]),
         NEW k \in 1 .. Len(todo["main"]) + 1, d[1] > 0, d[k] = d[1] - 1,
         NEW p, NEW s, NEW v, Rest(S, s), s.env = S.env,
         Fail("main", p, SubSeq(todo["main"], k, Len(todo["main"])), s, v)
  PROVE  IInv'
<1> DEFINE a == IF p.args = 1 /\ v = "string" THEN <<Index("pop", 1)>> ELSE <<>>
<1>1. /\ S' = EndFrame(s, <<v>>) /\ Exit(made) /\ UNCHANGED <<states, made, open, stateId, object>>
      /\ MainGoes(a \o SubSeq(todo["main"], k, Len(todo["main"])))
  BY DEF Fail, MainGoes
<1>2. open /\ d[1] \in Nat /\ made \in 1 .. MaxStates
  BY AtHead DEF IInv, ShapeInv
<1>3. a \in Seq(Entry) /\ Plain(a)
  <2>1. Index("pop", 1) \in Entry /\ Index("pop", 1).op = "pop"
    BY EntryKinds DEF Index
  <2> QED
    BY <2>1 DEF Plain, Special, Makes
<1>4. Held(d[k])'
  BY <1>1, <1>2, MainStays, MonitorExited DEF IInv
<1>5. Rest(S, S') /\ S'.env = S.env
  <2>1. Rest(s, S') /\ S'.env = s.env
    BY <1>1, StackOps
  <2> QED
    BY <2>1 DEF Rest
<1> HIDE DEF a
<1> QED
  BY <1>1, <1>2, <1>3, <1>4, <1>5, MainPutPlain

LEMMA LuaFailsKeeps ==
  ASSUME IInv, NEW v, LuaFails("main", v)
  PROVE  IInv'
<1>1. PICK d : Balanced(todo["main"], d) /\ Held(d[1])
  BY MonitorWitness
<1>2. Busy("main") /\ Arg("main").op = "lua" /\ Fail("main", Arg("main"), Tail(todo["main"]), S, v)
  BY DEF LuaFails, Op, Arg
<1>3. /\ 2 \in 1 .. Len(todo["main"]) + 1 /\ d[1] > 0 /\ d[2] = d[1] - 1
      /\ Tail(todo["main"]) = SubSeq(todo["main"], 2, Len(todo["main"]))
  BY <1>1, <1>2, AtHead, TailIs DEF IInv, Change, Busy
<1>4. Rest(S, S)
  BY DEF Rest
<1> QED
  BY <1>1, <1>2, <1>3, <1>4, FailKeeps

LEMMA LuaErrorKeeps ==
  ASSUME IInv, LuaError("main")
  PROVE  IInv'
<1> DEFINE s == todo["main"]
<1>1. PICK d : Balanced(s, d) /\ Held(d[1])
  BY MonitorWitness
<1>2. /\ Busy("main") /\ Arg("main").op = "error"
      /\ Fail("main", s[2], SubSeq(s, 3, Len(s)), EndFrame(S, <<>>), "string")
  BY DEF LuaError, Op, Arg
<1>3. /\ Len(s) \in Nat /\ DOMAIN s = 1 .. Len(s) /\ 1 \in 1 .. Len(s) /\ s[1].op = "error"
      /\ d[1] \in Nat /\ d[2] \in Nat /\ d[1] = d[2]
  BY <1>1, <1>2, AtHead DEF IInv, Change
<1>4. 1 < Len(s) /\ s[1 + 1].op = "lua"
  BY <1>1, <1>3 DEF Balanced
<1>5. 3 \in 1 .. Len(s) + 1 /\ d[1] > 0 /\ d[3] = d[1] - 1
  <2>1. 2 \in DOMAIN s /\ 3 \in 1 .. Len(s) + 1 /\ Change(s[2]) = 1
    BY <1>3, <1>4 DEF Change
  <2>2. d[2] = d[2 + 1] + Change(s[2]) /\ d[3] \in Nat
    BY <1>1, <2>1 DEF Balanced, Depths
  <2> QED
    BY <1>3, <2>1, <2>2
<1>6. Rest(S, EndFrame(S, <<>>)) /\ EndFrame(S, <<>>).env = S.env
  BY StackOps
<1> QED
  BY <1>1, <1>2, <1>5, <1>6, FailKeeps

(* Calls put before Lua code that is under way.                            *)
LEMMA MainPutOver ==
  ASSUME IInv, NEW d, Balanced(todo["main"], d), NEW k \in 1 .. Len(todo["main"]),
         todo["main"][k].op = "lua",
         NEW a \in Seq(Entry), NEW c, Balanced(a \o <<todo["main"][k]>>, c),
         \A i \in DOMAIN (a \o <<todo["main"][k]>>) : (a \o <<todo["main"][k]>>)[i].op # "loadString",
         MainGoes(a \o SubSeq(todo["main"], k, Len(todo["main"]))),
         Held(c[1] + d[k + 1])', MakesOne(a, todo["main"], k), S'.env = S.env,
         UNCHANGED <<states, made, open, stateId, object>>, Rest(S, S')
  PROVE  IInv'
<1> DEFINE s == todo["main"]
           r == a \o SubSeq(s, k, Len(s))
           b == a \o <<s[k]>>
<1>1. /\ s \in Seq(Entry) /\ ShapeInv /\ todo'["main"] = r /\ Len(s) \in Nat /\ DOMAIN s = 1 .. Len(s)
      /\ s # <<>>
  <2>1. ShapeInv /\ MainGoes(r)
    BY DEF IInv
  <2>2. s \in Seq(Entry) /\ Len(s) \in Nat /\ DOMAIN s = 1 .. Len(s)
    BY <2>1, LenProperties DEF ShapeInv
  <2> HIDE DEF r
  <2>3. todo'["main"] = r
    BY <2>1, MainGone
  <2>4. s # <<>>
    <3>1. Len(s) # 0
      BY <2>2
    <3> QED
      BY <2>2, <3>1, EmptySeq
  <2> QED
    BY <2>1, <2>2, <2>3, <2>4
<1>2. open /\ InsideLua("main")
  BY <1>1 DEF ShapeInv, Busy, InsideLua
<1>3. r = b \o SubSeq(s, k + 1, Len(s))
  BY <1>1, SplitHead
<1>4. b \in Seq(Entry)
  BY <1>1, ElementOfSeq, OneMore
<1>5. Balanced(b, c) /\ \A i \in DOMAIN b : b[i].op # "loadString"
  OBVIOUS
<1>6. MainGoes(r)
  OBVIOUS
<1>7. k \in 1 .. Len(s) + 1 /\ k + 1 \in 1 .. Len(s) + 1
  BY <1>1
<1>8. MakesInv'
  BY <1>1, <1>7, MakesPut DEF IInv
<1> HIDE DEF b, r
<1>9. r \in Seq(Entry) /\ \E e : Balanced(r, e) /\ e[1] = c[1] + d[k + 1]
  <2>1. PICK m \in 1 .. Len(s) + 1 : m = k + 1
    BY <1>7
  <2>2. \A i \in DOMAIN b : b[i].op = "loadString" => d[m] = 0
    BY <1>5
  <2>3. Balanced(s, d) /\ s \in Seq(Entry) /\ Balanced(b, c)
    BY <1>1, <1>5
  <2> HIDE DEF s
  <2>4. /\ b \o SubSeq(s, m, Len(s)) \in Seq(Entry)
        /\ \E e : Balanced(b \o SubSeq(s, m, Len(s)), e) /\ e[1] = c[1] + d[m]
    BY <1>4, <2>2, <2>3, PutBefore, SMTT(60)
  <2> QED
    BY <1>3, <2>1, <2>4
<1>10. MonitorInv'
  BY <1>1, <1>9, MonitorGoes
<1>11. S'.env = "main"
  BY <1>2 DEF IInv, EnvIsRunning, Threads
<1> QED
  BY <1>2, <1>6, <1>8, <1>9, <1>10, <1>11, GoesOn

(* Calls that make a LuaObject no one has or is about to have.             *)
NewOnes(a) ==
  \A i \in DOMAIN a : Makes(a[i]) => Unused(a[i].o) /\ \A j \in DOMAIN a : Makes(a[j]) => j = i

LEMMA NewMakesOne ==
  ASSUME ShapeInv, NEW a, NewOnes(a), NEW k \in 1 .. Len(todo["main"]) + 1
  PROVE  MakesOne(a, todo["main"], k)
<1>1. todo["main"] \in Seq(Entry) /\ \A m \in k .. Len(todo["main"]) : m \in DOMAIN todo["main"]
  BY LenProperties DEF ShapeInv
<1>2. \A m \in DOMAIN todo["main"] : Makes(todo["main"][m]) => "o" \in DOMAIN todo["main"][m]
  BY <1>1, ElementOfSeq, LenProperties, EntryFacts
<1> QED
  BY <1>1, <1>2 DEF NewOnes, MakesOne, Unused, InUse

(* Lua calls a method of LuaJavaAPI.                                       *)
LEMMA CallBackKeeps ==
  ASSUME IInv, Op("main", "lua"), NEW args, NEW a \in Seq(Entry), NEW c,
         Balanced(a \o <<Arg("main")>>, c), c[1] = 1,
         \A i \in DOMAIN (a \o <<Arg("main")>>) : (a \o <<Arg("main")>>)[i].op # "loadString",
         NewOnes(a), CallBack("main", args, a)
  PROVE  IInv'
<1> DEFINE s == todo["main"]
           t == [S EXCEPT !.stk = @ \o <<"function">> \o args]
<1>1. PICK d : Balanced(s, d) /\ Held(d[1])
  BY MonitorWitness
<1>2. /\ Busy("main") /\ Arg("main").op = "lua" /\ S' = BeginFrame(t, Len(args))
      /\ UNCHANGED <<states, made, open, stateId, object, monitor>> /\ MainGoes(a \o s)
  BY DEF CallBack, Op, Arg, MainGoes
<1>3. /\ s \in Seq(Entry) /\ Len(s) \in Nat /\ 1 \in 1 .. Len(s) /\ Arg("main") = s[1]
      /\ 1 \in 1 .. Len(s) + 1 /\ d[1] \in Nat /\ d[2] \in Nat /\ d[1] = d[2] + 1
  BY <1>1, <1>2, AtHead DEF IInv, Change
<1>4. MainGoes(a \o SubSeq(s, 1, Len(s)))
  BY <1>2, <1>3, SubSeqFull
<1>5. Rest(S, S') /\ S'.env = S.env
  <2>1. Rest(S, t) /\ t.env = S.env
    BY DEF Rest
  <2> HIDE DEF t
  <2>2. Rest(t, S') /\ S'.env = t.env
    BY <1>2, StackOps
  <2> QED
    BY <2>1, <2>2 DEF Rest
<1>6. Held(c[1] + d[1 + 1])'
  <2>1. FinalizerStays
    BY <1>2, MainStays DEF IInv
  <2>2. c[1] + d[1 + 1] = d[1]
    BY <1>3
  <2> QED
    BY <1>1, <1>2, <2>1, <2>2, MonitorKept
<1>7. MakesOne(a, s, 1)
  BY <1>3, NewMakesOne DEF IInv
<1> HIDE DEF t
<1> QED
  BY <1>1, <1>2, <1>3, <1>4, <1>5, <1>6, <1>7, MainPutOver

LEMMA CallbackKeeps ==
  ASSUME IInv, Op("main", "lua"), NEW args, NEW body \in Seq(Entry),
         \A i \in DOMAIN body :
           /\ body[i].op \notin (Special \ {"method"}) \cup {"loadString"}
           /\ body[i].op = "method" => body[i].locked,
         NewOnes(body), CallBack("main", args, Callback(body))
  PROVE  IInv'
<1> DEFINE x == Arg("main")
           a == Callback(body)
           b == a \o <<x>>
           c == CallbackDepth(Len(body))
<1>1. x \in Entry /\ x.op = "lua"
  BY MonitorWitness, AtHead DEF IInv, Op, Arg
<1> HIDE DEF x
<1>2. /\ a \in Seq(Entry) /\ Balanced(b, c)
      /\ \A i \in DOMAIN b : b[i].op # "loadString"
      /\ \A i \in DOMAIN a : \/ i - 1 \in DOMAIN body /\ a[i] = body[i - 1]
                             \/ a[i] \in {Do("lock"), Do("unlock"), Do("return")}
  BY <1>1, CallbackBalanced
<1>3. c[1] = 1
  <2>1. Len(body) \in Nat
    BY LenProperties
  <2> QED
    BY <2>1 DEF CallbackDepth
<1>4. DOMAIN a = 1 .. Len(a) /\ Len(a) \in Nat
  BY <1>2, LenProperties
<1>5. NewOnes(a)
  <2>1. ASSUME NEW i \in DOMAIN a, Makes(a[i]) PROVE i - 1 \in DOMAIN body /\ a[i] = body[i - 1]
    BY <1>2, <2>1 DEF Makes, Do
  <2>2. ASSUME NEW i \in DOMAIN a, NEW j \in DOMAIN a, Makes(a[i]), Makes(a[j]) PROVE j = i
    <3>1. j - 1 = i - 1
      BY <2>1, <2>2 DEF NewOnes
    <3> QED
      BY <1>4, <3>1
  <2> QED
    BY <2>1, <2>2 DEF NewOnes
<1> HIDE DEF a, c
<1>6. CallBack("main", args, a)
  BY DEF a
<1>7. Balanced(a \o <<Arg("main")>>, c) /\ \A i \in DOMAIN (a \o <<Arg("main")>>) : (a \o <<Arg("main")>>)[i].op # "loadString"
  BY <1>2 DEF x
<1> QED
  BY <1>2, <1>3, <1>5, <1>6, <1>7, CallBackKeeps

LEMMA CallsFromLua ==
  ASSUME IInv,
         \/ \E u \in Userdata : ObjectIndex("main", u) \/ ObjectIndexReturn("main", u)
                                \/ JavaFunctionCall("main", u) \/ CollectUserdata("main", u)
         \/ JavaBindClass("main") \/ ClassIndex("main") \/ JavaNew("main")
         \/ JavaNewInstance("main") \/ JavaLoadLib("main")
         \/ \E o \in Objects : JavaCreateProxy("main", o)
  PROVE  IInv'
<1> DEFINE Calls(args, a) == Op("main", "lua") /\ CallBack("main", args, a)
           Alone == /\ Op("main", "lua") /\ Rest(S, S') /\ S'.env = S.env
                    /\ UNCHANGED <<states, made, open, stateId, object, todo, monitor>>
           call == [op |-> "method", locked |-> TRUE]
<1>1. /\ Do("pushResult") \in Entry /\ Do("pushJavaObject") \in Entry /\ call \in Entry
      /\ Do("pushResult").op = "pushResult" /\ Do("pushJavaObject").op = "pushJavaObject"
      /\ call.op = "method" /\ call.locked
  BY EntryKinds DEF Do
<1>2. ASSUME NEW args,
             \/ Calls(args, FieldValue) \/ Calls(args, InvokeMethod)
             \/ Calls(args, NewInstance) \/ Calls(args, LoadLib)
      PROVE  IInv'
  <2>1. \E body \in {<<Do("pushResult")>>, <<call, Do("pushResult")>>,
                     <<call, Do("pushJavaObject")>>, <<call>>} : Calls(args, Callback(body))
    BY <1>2 DEF FieldValue, InvokeMethod, NewInstance, LoadLib, Callback
  <2> HIDE DEF call
  <2>2. ASSUME NEW body \in {<<Do("pushResult")>>, <<call, Do("pushResult")>>,
                             <<call, Do("pushJavaObject")>>, <<call>>}
        PROVE  /\ body \in Seq(Entry)
               /\ \A i \in DOMAIN body : \/ body[i].op \in {"pushResult", "pushJavaObject"}
                                         \/ body[i].op = "method" /\ body[i].locked
    <3> DEFINE Good(x) == \/ x.op \in {"pushResult", "pushJavaObject"}
                          \/ x.op = "method" /\ x.locked
    <3>1. ASSUME NEW x \in Entry, Good(x)
          PROVE  <<x>> \in Seq(Entry) /\ \A i \in DOMAIN <<x>> : Good(<<x>>[i])
      <4> HIDE DEF Good
      <4> QED
        BY <3>1
    <3>2. ASSUME NEW x \in Entry, NEW y \in Entry, Good(x), Good(y)
          PROVE  <<x, y>> \in Seq(Entry) /\ \A i \in DOMAIN <<x, y>> : Good(<<x, y>>[i])
      <4> HIDE DEF Good
      <4>1. <<x, y>> \in Seq(Entry) /\ DOMAIN <<x, y>> = {1, 2} /\ <<x, y>>[1] = x /\ <<x, y>>[2] = y
        OBVIOUS
      <4> QED
        BY <3>2, <4>1
    <3>3. Good(Do("pushResult")) /\ Good(Do("pushJavaObject")) /\ Good(call)
      BY <1>1
    <3> HIDE DEF Good
    <3>4. body \in Seq(Entry) /\ \A i \in DOMAIN body : Good(body[i])
      <4>1. CASE body = <<Do("pushResult")>>
        BY <1>1, <3>1, <3>3, <4>1
      <4>2. CASE body = <<call, Do("pushResult")>>
        BY <1>1, <3>2, <3>3, <4>2
      <4>3. CASE body = <<call, Do("pushJavaObject")>>
        BY <1>1, <3>2, <3>3, <4>3
      <4>4. CASE body = <<call>>
        BY <1>1, <3>1, <3>3, <4>4
      <4> QED
        BY <4>1, <4>2, <4>3, <4>4
    <3> QED
      BY <3>4 DEF Good
  <2>3. ASSUME NEW body \in Seq(Entry), Calls(args, Callback(body)),
               \A i \in DOMAIN body : \/ body[i].op \in {"pushResult", "pushJavaObject"}
                                      \/ body[i].op = "method" /\ body[i].locked
        PROVE  IInv'
    <3>1. NewOnes(body)
      BY <2>3 DEF NewOnes, Makes
    <3>2. \A i \in DOMAIN body :
            /\ body[i].op \notin (Special \ {"method"}) \cup {"loadString"}
            /\ body[i].op = "method" => body[i].locked
      BY <2>3 DEF Special
    <3> QED
      BY <2>3, <3>1, <3>2, CallbackKeeps
  <2> QED
    BY <2>1, <2>2, <2>3
<1>3. ASSUME NEW args, Calls(args, Execute) PROVE IInv'
  <2> DEFINE c == [i \in 1 .. 5 |-> IF i = 5 THEN 0 ELSE 1]
  <2>1. Arg("main") \in Entry /\ Arg("main").op = "lua"
    BY <1>3, MonitorWitness, AtHead DEF IInv, Op, Arg
  <2>2. NewOnes(Execute)
    BY <2>1, ExecuteBalanced DEF NewOnes, Makes
  <2>3. c[1] = 1
    OBVIOUS
  <2>4. /\ Execute \in Seq(Entry) /\ Balanced(Execute \o <<Arg("main")>>, c)
        /\ \A i \in DOMAIN (Execute \o <<Arg("main")>>) : (Execute \o <<Arg("main")>>)[i].op # "loadString"
    BY <2>1, ExecuteBalanced
  <2> HIDE DEF c
  <2> QED
    BY <1>3, <2>2, <2>3, <2>4, CallBackKeeps
<1>4. ASSUME NEW args, NEW o \in Objects, Unused(o), Calls(args, CreateProxy(o)) PROVE IInv'
  <2> DEFINE body == <<Index("pushValue", 2), Of("ref", o), Do("pushJavaObject")>>
  <2>1. /\ Index("pushValue", 2) \in Entry /\ Of("ref", o) \in Entry
        /\ Index("pushValue", 2).op = "pushValue" /\ Of("ref", o).op = "ref" /\ Of("ref", o).o = o
    BY EntryKinds DEF Index, Of
  <2>2. /\ body \in Seq(Entry) /\ DOMAIN body = 1 .. 3 /\ body[1].op = "pushValue"
        /\ body[2] = Of("ref", o) /\ body[3].op = "pushJavaObject"
    BY <1>1, <2>1
  <2>3. Calls(args, Callback(body))
    BY <1>4 DEF CreateProxy, Callback
  <2> HIDE DEF body
  <2>4. NewOnes(body)
    BY <1>4, <2>1, <2>2 DEF NewOnes, Makes
  <2>5. \A i \in DOMAIN body :
          /\ body[i].op \notin (Special \ {"method"}) \cup {"loadString"}
          /\ body[i].op = "method" => body[i].locked
    BY <2>1, <2>2 DEF Special
  <2> QED
    BY <2>2, <2>3, <2>4, <2>5, CallbackKeeps
<1>5. ASSUME Alone PROVE IInv'
  <2> DEFINE s == todo["main"]
  <2>1. PICK d : Balanced(s, d) /\ Held(d[1])
    BY MonitorWitness
  <2>2. /\ open /\ s \in Seq(Entry) /\ todo' = [todo EXCEPT !["main"] = s]
    BY <1>5, <2>1, AtHead DEF IInv, ShapeInv, Op
  <2>3. SubSeq(s, 1, Len(s)) = s /\ 1 \in 1 .. Len(s) + 1
    BY <2>2, SubSeqFull, LenProperties
  <2>4. MainGoes(SubSeq(s, 1, Len(s)))
    BY <2>2, <2>3 DEF MainGoes
  <2>5. Held(d[1])'
    BY <1>5, <2>1, <2>4, MainStays, MonitorKept DEF IInv
  <2> QED
    BY <1>5, <2>1, <2>2, <2>3, <2>4, <2>5, MainDrops
<1>6. CASE \E u \in Userdata : CollectUserdata("main", u)
  BY <1>5, <1>6 DEF CollectUserdata, Collected, Rest
<1>7. CASE JavaBindClass("main")
  BY <1>5, <1>7, StackOps DEF JavaBindClass
<1>8. ASSUME NEW u \in Userdata, ObjectIndex("main", u) PROVE IInv'
  <2>1. CASE CallBack("main", <<u, "string">>, FieldValue)
    BY <1>2, <1>8, <2>1 DEF ObjectIndex, Named
  <2>2. CASE /\ S' = [S EXCEPT !.ud[u].called = TRUE]
             /\ UNCHANGED <<states, made, open, stateId, object, todo, monitor, left>>
    <3>1. Rest(S, S') /\ S'.env = S.env
      BY <2>2 DEF Rest
    <3> QED
      BY <1>5, <1>8, <2>2, <3>1 DEF ObjectIndex, Named
  <2> QED
    BY <1>8, <2>1, <2>2 DEF ObjectIndex
<1>9. CASE \E u \in Userdata : ObjectIndexReturn("main", u)
  BY <1>2, <1>9 DEF ObjectIndexReturn, Named
<1>10. CASE \E u \in Userdata : JavaFunctionCall("main", u)
  BY <1>3, <1>10 DEF JavaFunctionCall, Named
<1>11. CASE ClassIndex("main")
  BY <1>2, <1>11 DEF ClassIndex, NamedClass
<1>12. CASE JavaNew("main") \/ JavaNewInstance("main") \/ JavaLoadLib("main")
  BY <1>2, <1>12 DEF JavaNew, JavaNewInstance, JavaLoadLib, NamedClass
<1>13. CASE \E o \in Objects : JavaCreateProxy("main", o)
  BY <1>4, <1>13 DEF JavaCreateProxy
<1> QED
  BY <1>6, <1>7, <1>8, <1>9, <1>10, <1>11, <1>12, <1>13

LEMMA CallbackReturnsKeeps ==
  ASSUME IInv, CallbackReturns("main")
  PROVE  IInv'
<1>1. PICK d : Balanced(todo["main"], d) /\ Held(d[1])
  BY MonitorWitness
<1>2. /\ Busy("main") /\ Arg("main").op = "return" /\ Go("main")
      /\ UNCHANGED <<states, made, open, stateId, object, monitor>>
  BY DEF CallbackReturns, Op, Arg
<1>3. /\ open /\ MainGoes(SubSeq(todo["main"], 2, Len(todo["main"])))
      /\ 2 \in 1 .. Len(todo["main"]) + 1 /\ d[1] = d[2]
  BY <1>1, <1>2, AtHead DEF IInv, Change
<1>4. Held(d[2])'
  BY <1>1, <1>2, <1>3, MainStays, MonitorKept DEF IInv
<1>5. Rest(S, S') /\ S'.env = S.env
  <2> DEFINE t == EndFrame(S, <<>>)
  <2>1. Rest(S, t) /\ t.env = S.env
    BY StackOps
  <2>2. S' = t \/ S' = [t EXCEPT !.x = Last(S.stk)]
    BY DEF CallbackReturns
  <2> HIDE DEF t
  <2>3. Rest(t, S') /\ S'.env = t.env
    <3>1. CASE S' = t
      BY <3>1 DEF Rest
    <3>2. CASE S' = [t EXCEPT !.x = Last(S.stk)]
      BY <3>2 DEF Rest
    <3> QED
      BY <2>2, <3>1, <3>2
  <2> QED
    BY <2>1, <2>3 DEF Rest
<1> QED
  BY <1>1, <1>2, <1>3, <1>4, <1>5, MainDrops

(* An exception finds the Lua code that called the method.                 *)
LEMMA ThrowsKeeps ==
  ASSUME IInv, Throws("main")
  PROVE  IInv'
<1> DEFINE s == todo["main"]
           x == Arg("main")
           a == Thrown(x.locked)
<1>1. PICK d : Balanced(s, d) /\ Held(d[1])
  BY MonitorWitness
<1>2. /\ Busy("main") /\ x.op = "method"
      /\ MainGoes(a \o SubSeq(s, SelectInSeq(s, LAMBDA z : z.op = "lua"), Len(s)))
      /\ UNCHANGED <<states, made, open, stateId, S, object, monitor>>
  BY DEF Throws, Op, Arg, MainGoes, Thrown
<1>3. /\ s \in Seq(Entry) /\ Len(s) \in Nat /\ 1 \in 1 .. Len(s) /\ DOMAIN s = 1 .. Len(s)
      /\ x = s[1] /\ x \in Entry
  BY <1>1, <1>2, AtHead DEF IInv
<1>4. x.locked \in BOOLEAN
  BY <1>2, <1>3, EntryFacts
<1>5. PICK p \in 1 + 1 .. Len(s) :
        /\ s[p].op = "lua" /\ d[1] = d[p] + (IF x.locked THEN 1 ELSE 0)
        /\ \A m \in 1 .. p - 1 : s[m].op # "lua"
  BY <1>1, <1>2, <1>3 DEF Balanced, Finds
<1>6. p \in 1 .. Len(s) /\ s[p] \in Entry /\ p + 1 \in 1 .. Len(s) + 1
  <2>1. p \in 1 .. Len(s) /\ p + 1 \in 1 .. Len(s) + 1
    BY <1>3
  <2> QED
    BY <1>3, <2>1, ElementOfSeq
<1>7. MainGoes(a \o SubSeq(s, p, Len(s)))
  <2>1. SelectInSeq(s, LAMBDA z : z.op = "lua") = p
    BY <1>3, <1>5, <1>6, FirstIs
  <2> QED
    BY <1>2, <2>1
<1> HIDE DEF x
<1>8. /\ a \in Seq(Entry) /\ \A i \in DOMAIN (a \o <<s[p]>>) : (a \o <<s[p]>>)[i].op # "loadString"
      /\ \A i \in DOMAIN a : a[i].op \in {"unlock", "error"}
      /\ \E c : Balanced(a \o <<s[p]>>, c) /\ c[1] = IF x.locked THEN 2 ELSE 1
  BY <1>4, <1>5, <1>6, ThrownBalanced
<1>9. PICK c : Balanced(a \o <<s[p]>>, c) /\ c[1] = IF x.locked THEN 2 ELSE 1
  BY <1>8
<1>10. Held(c[1] + d[p + 1])'
  <2>1. FinalizerStays
    BY <1>2, <1>7, MainStays DEF IInv
  <2>2. Change(s[p]) = 1
    BY <1>5 DEF Change
  <2>3. d[p] = d[p + 1] + 1 /\ d[p] \in Nat /\ d[p + 1] \in Nat
    <3>1. p \in 1 .. Len(s) + 1
      BY <1>3, <1>6
    <3> QED
      BY <1>1, <1>3, <1>6, <2>2, <3>1 DEF Balanced, Depths
  <2>4. c[1] + d[p + 1] = d[1]
    BY <1>4, <1>5, <1>9, <2>3
  <2> QED
    BY <1>1, <1>2, <2>1, <2>4, MonitorKept
<1>11. MakesOne(a, s, p)
  BY <1>8 DEF MakesOne, Makes
<1>12. Rest(S, S') /\ S'.env = S.env
  BY <1>2 DEF Rest
<1> HIDE DEF a
<1> QED
  BY <1>1, <1>2, <1>5, <1>6, <1>7, <1>8, <1>9, <1>10, <1>11, <1>12, MainPutOver

LEMMA MethodReturnsKeeps ==
  ASSUME IInv, MethodReturns
  PROVE  IInv'
<1> DEFINE s == todo["main"]
<1>1. PICK d : Balanced(s, d) /\ Held(d[1])
  BY MonitorWitness
<1>2. /\ Busy("main") /\ Arg("main").op = "method"
      /\ UNCHANGED <<states, made, open, stateId, S, object, monitor>>
  BY DEF MethodReturns, Op, Arg
<1>3. /\ open /\ s \in Seq(Entry) /\ Len(s) \in Nat /\ 1 \in 1 .. Len(s) /\ DOMAIN s = 1 .. Len(s)
      /\ s[1].op = "method" /\ 2 \in 1 .. Len(s) + 1 /\ d[1] \in Nat /\ d[2] \in Nat /\ d[1] = d[2]
      /\ Go("main") => MainGoes(SubSeq(s, 2, Len(s)))
  BY <1>1, <1>2, AtHead DEF IInv, Change
<1>4. Rest(S, S') /\ S'.env = S.env
  BY <1>2 DEF Rest
<1>5. ASSUME NEW k \in 1 .. Len(s) + 1, d[k] = d[1], MainGoes(SubSeq(s, k, Len(s)))
      PROVE  IInv'
  <2>1. Held(d[k])'
    BY <1>1, <1>2, <1>5, MainStays, MonitorKept DEF IInv
  <2> QED
    BY <1>1, <1>2, <1>3, <1>4, <1>5, <2>1, MainDrops
<1>6. CASE Go("main")
  BY <1>3, <1>5, <1>6
<1>7. CASE s[2].op = "pushResult" /\ todo' = [todo EXCEPT !["main"] = SubSeq(@, 3, Len(@))]
  <2>1. \E p \in 1 + 1 .. Len(s) : TRUE
    BY <1>1, <1>3 DEF Balanced, Finds
  <2>2. 2 \in 1 .. Len(s) /\ 3 \in 1 .. Len(s) + 1 /\ 2 + 1 = 3
    BY <1>3, <2>1
  <2>3. Change(s[2]) = 0
    BY <1>7 DEF Change
  <2>4. d[3] \in Nat /\ d[2] = d[3] + Change(s[2])
    BY <1>1, <1>3, <2>2 DEF Balanced, Depths
  <2>5. MainGoes(SubSeq(s, 3, Len(s))) /\ d[3] = d[1]
    BY <1>3, <1>7, <2>3, <2>4 DEF MainGoes
  <2> QED
    BY <1>5, <2>2, <2>5
<1> QED
  BY <1>6, <1>7 DEF MethodReturns

-----------------------------------------------------------------------------
(* What Java code starts                                                   *)

LEMMA StartsKeeps ==
  ASSUME IInv, NEW a \in Seq(Entry), NEW c, Balanced(a, c), c[1] = 0, NewOnes(a),
         \A i \in DOMAIN a : a[i].op # "lua",
         Begins(a) \/ (Nested(a) /\ \A i \in DOMAIN a : a[i].op # "loadString"),
         UNCHANGED <<states, made, open, stateId, S, object, monitor>>
  PROVE  IInv'
<1> DEFINE s == todo["main"]
<1>1. PICK d : Balanced(s, d) /\ Held(d[1])
  BY MonitorWitness
<1>2. Rest(S, S') /\ EnvKept(a)
  BY DEF Rest, EnvKept
<1>3. ASSUME NEW k \in 1 .. Len(s) + 1, d[k] = d[1], open, MainGoes(a \o SubSeq(s, k, Len(s))),
             \A i \in DOMAIN a : a[i].op = "loadString" => d[k] = 0
      PROVE  IInv'
  <2>1. MakesOne(a, s, k)
    BY NewMakesOne DEF IInv
  <2>2. Len(s) + 1 \in Nat /\ 1 \in 1 .. Len(s) + 1
    BY LenProperties DEF IInv, ShapeInv
  <2>3. c[1] + d[k] = d[1]
    BY <1>1, <1>3, <2>2 DEF Balanced, Depths
  <2>4. Held(c[1] + d[k])'
    BY <1>1, <1>3, <2>3, MainStays, MonitorKept DEF IInv
  <2> QED
    BY <1>1, <1>2, <1>3, <2>1, <2>4, MainPut
<1>4. CASE Begins(a)
  <2>1. s = <<>> /\ open /\ MainGoes(a)
    BY <1>4 DEF Begins, Busy, MainGoes
  <2>2. Len(s) = 0 /\ SubSeq(s, 1, Len(s)) = <<>> /\ 1 \in 1 .. Len(s) + 1
    BY <2>1, SubSeqEmpty
  <2>3. d[1] = 0
    BY <1>1, <2>2 DEF Balanced, Depths
  <2>4. a \o SubSeq(s, 1, Len(s)) = a
    BY <2>2, ConcatEmptySeq
  <2> QED
    BY <1>3, <2>1, <2>2, <2>3, <2>4
<1>5. CASE Nested(a) /\ \A i \in DOMAIN a : a[i].op # "loadString"
  <2>1. Busy("main") /\ Arg("main").op = "method" /\ Then("main", a)
    BY <1>5 DEF Nested, Op, Arg
  <2>2. open /\ 2 \in 1 .. Len(s) + 1 /\ d[2] = d[1] /\ MainGoes(a \o SubSeq(s, 2, Len(s)))
    BY <1>1, <2>1, AtHead DEF IInv, Change
  <2> QED
    BY <1>3, <1>5, <2>2
<1> QED
  BY <1>4, <1>5

(* A synchronized method.                                                  *)
LEMMA BlockStarts ==
  ASSUME IInv, NEW body \in Seq(Entry),
         \A i \in DOMAIN body :
           body[i].op \notin {"lock", "unlock", "lua", "method", "error", "loadString"},
         NewOnes(body), Begins(Synchronized(body)) \/ Nested(Synchronized(body)),
         UNCHANGED <<states, made, open, stateId, S, object, monitor>>
  PROVE  IInv'
<1> DEFINE a == Synchronized(body)
           c == BlockDepth(Len(body))
<1>1. /\ a \in Seq(Entry) /\ Balanced(a, c) /\ Len(a) = Len(body) + 2
      /\ \A i \in DOMAIN a : i \in {1, Len(a)} \/ (i - 1 \in DOMAIN body /\ a[i] = body[i - 1])
      /\ a[1].op = "lock" /\ a[Len(a)].op = "unlock"
  BY BlockBalanced
<1>2. c[1] = 0 /\ DOMAIN a \subseteq Nat
  <2>1. Len(body) \in Nat /\ DOMAIN a = 1 .. Len(a)
    BY <1>1, LenProperties
  <2> QED
    BY <1>1, <2>1 DEF BlockDepth
<1> HIDE DEF a, c
<1>3. \A i \in DOMAIN a : a[i].op \notin {"lua", "loadString"}
  BY <1>1
<1>4. NewOnes(a)
  <2>1. ASSUME NEW i \in DOMAIN a, Makes(a[i]) PROVE i - 1 \in DOMAIN body /\ a[i] = body[i - 1]
    BY <1>1, <2>1 DEF Makes
  <2>2. ASSUME NEW i \in DOMAIN a, NEW j \in DOMAIN a, Makes(a[i]), Makes(a[j]) PROVE j = i
    <3>1. j - 1 = i - 1
      BY <2>1, <2>2 DEF NewOnes
    <3> QED
      BY <1>2, <3>1
  <2> QED
    BY <2>1, <2>2 DEF NewOnes
<1>5. Begins(a) \/ Nested(a)
  BY DEF a
<1> QED
  BY <1>1, <1>2, <1>3, <1>4, <1>5, StartsKeeps

(* Methods that are not synchronized as a whole.                           *)
LEMMA PlainStarts ==
  ASSUME IInv, NEW a \in Seq(Entry), \A i \in DOMAIN a : a[i].op \notin Special /\ ~Makes(a[i]),
         Begins(a), UNCHANGED <<states, made, open, stateId, S, object, monitor>>
  PROVE  IInv'
<1> DEFINE c == [i \in 1 .. Len(a) + 1 |-> 0]
<1>1. Balanced(a, c)
  BY PlainBalanced
<1>2. c[1] = 0
  <2>1. Len(a) \in Nat
    BY LenProperties
  <2> QED
    BY <2>1
<1>3. NewOnes(a) /\ \A i \in DOMAIN a : a[i].op # "lua"
  BY DEF NewOnes, Special
<1> HIDE DEF c
<1> QED
  BY <1>1, <1>2, <1>3, StartsKeeps

LEMMA StartKeeps ==
  ASSUME IInv, Start
  PROVE  IInv'
<1> DEFINE Starts(a) == Begins(a) \/ Nested(a)
           Fine(body) == \A i \in DOMAIN body :
             body[i].op \notin {"lock", "unlock", "lua", "method", "error", "loadString"}
<1>1. UNCHANGED <<states, made, open, stateId, S, object, monitor>>
  BY DEF Start
<1>2. ASSUME NEW o \in Objects, NEW g \in {"function", "x"}, Unused(o), Starts(OfGlobal(o, g))
      PROVE  IInv'
  <2> DEFINE body == <<Value("getGlobal", g), Index("pushValue", -1), Of("ref", o), Index("pop", 1)>>
  <2>1. /\ Value("getGlobal", g) \in Entry /\ Index("pushValue", -1) \in Entry
        /\ Of("ref", o) \in Entry /\ Index("pop", 1) \in Entry
        /\ Value("getGlobal", g).op = "getGlobal" /\ Index("pushValue", -1).op = "pushValue"
        /\ Of("ref", o).op = "ref" /\ Of("ref", o).o = o /\ Index("pop", 1).op = "pop"
    BY EntryKinds DEF Value, Index, Of
  <2>2. /\ body \in Seq(Entry) /\ DOMAIN body = 1 .. 4
        /\ body[1].op = "getGlobal" /\ body[2].op = "pushValue"
        /\ body[3] = Of("ref", o) /\ body[4].op = "pop"
    BY <2>1
  <2>3. Starts(Synchronized(body))
    BY <1>2 DEF OfGlobal
  <2> HIDE DEF body
  <2>4. NewOnes(body) /\ Fine(body)
    BY <1>2, <2>1, <2>2 DEF NewOnes, Makes
  <2> QED
    BY <1>1, <2>2, <2>3, <2>4, BlockStarts
<1>3. ASSUME NEW o \in Objects, NEW p \in Objects, Unused(o), Begins(OfField(o, p))
      PROVE  IInv'
  <2> DEFINE body == <<Of("push", p), Do("checkTable"), Index("pop", 1),
                       Of("push", p), Value("pushString", "string"), Index("getTable", -2),
                       Index("remove", -2), Index("pushValue", -1), Of("ref", o), Index("pop", 1)>>
  <2>1. /\ Of("push", p) \in Entry /\ Do("checkTable") \in Entry /\ Index("pop", 1) \in Entry
        /\ Value("pushString", "string") \in Entry /\ Index("getTable", -2) \in Entry
        /\ Index("remove", -2) \in Entry /\ Index("pushValue", -1) \in Entry /\ Of("ref", o) \in Entry
    BY EntryKinds
  <2>2. /\ Of("push", p).op = "push" /\ Do("checkTable").op = "checkTable" /\ Index("pop", 1).op = "pop"
        /\ Value("pushString", "string").op = "pushString" /\ Index("getTable", -2).op = "getTable"
        /\ Index("remove", -2).op = "remove" /\ Index("pushValue", -1).op = "pushValue"
        /\ Of("ref", o).op = "ref" /\ Of("ref", o).o = o
    BY DEF Of, Do, Index, Value
  <2>3. /\ body \in Seq(Entry) /\ DOMAIN body = 1 .. 10 /\ body[9] = Of("ref", o)
        /\ body[1].op = "push" /\ body[2].op = "checkTable" /\ body[3].op = "pop"
        /\ body[4].op = "push" /\ body[5].op = "pushString" /\ body[6].op = "getTable"
        /\ body[7].op = "remove" /\ body[8].op = "pushValue" /\ body[10].op = "pop"
    BY <2>1, <2>2
  <2>4. Starts(Synchronized(body))
    BY <1>3 DEF OfField
  <2> HIDE DEF body
  <2>5. \A i \in 1 .. 10 : i \in {1, 2, 3, 4, 5} \/ i \in {6, 7, 8, 9, 10}
    OBVIOUS
  <2>6. \A i \in DOMAIN body :
          \/ i = 9
          \/ body[i].op \in {"push", "checkTable", "pop", "pushString", "getTable", "remove", "pushValue"}
    BY <2>3, <2>5
  <2>7. Fine(body)
    BY <2>2, <2>3, <2>6
  <2>8. NewOnes(body)
    <3>1. \A i \in DOMAIN body : Makes(body[i]) => i = 9
      BY <2>6 DEF Makes
    <3>2. Unused(body[9].o)
      BY <1>3, <2>2, <2>3
    <3> QED
      BY <3>1, <3>2 DEF NewOnes
  <2> QED
    BY <1>1, <2>3, <2>4, <2>7, <2>8, BlockStarts
<1>4. ASSUME NEW o \in Objects, NEW n \in {0, 1}, NEW r \in Objects, n = 1 => Unused(r),
             Starts(CallOf(o, n, r))
      PROVE  IInv'
  <2> DEFINE call == [op |-> "pcall", args |-> 1, n |-> n, o |-> r]
             body == <<Of("push", o), Do("checkCallable"), Index("pop", 1),
                       Of("push", o), Do("pushObjectValue"), call>>
  <2>1. /\ Of("push", o) \in Entry /\ Do("checkCallable") \in Entry /\ Index("pop", 1) \in Entry
        /\ Do("pushObjectValue") \in Entry /\ call \in Entry
        /\ Of("push", o).op = "push" /\ Do("checkCallable").op = "checkCallable"
        /\ Index("pop", 1).op = "pop" /\ Do("pushObjectValue").op = "pushObjectValue"
        /\ call.op = "pcall" /\ call.n = n /\ call.o = r
    BY EntryKinds DEF Of, Do, Index
  <2>2. Starts(Synchronized(body))
    BY <1>4 DEF CallOf
  <2> HIDE DEF call
  <2>3. /\ body \in Seq(Entry) /\ DOMAIN body = 1 .. 6 /\ body[6] = call
        /\ body[1].op = "push" /\ body[2].op = "checkCallable" /\ body[3].op = "pop"
        /\ body[4].op = "push" /\ body[5].op = "pushObjectValue"
    BY <2>1
  <2> HIDE DEF body
  <2>4. NewOnes(body) /\ Fine(body)
    BY <1>4, <2>1, <2>3 DEF NewOnes, Makes
  <2> QED
    BY <1>1, <2>2, <2>3, <2>4, BlockStarts
<1>5. ASSUME NEW o \in Objects, Starts(GetObjectOf(o))
      PROVE  IInv'
  <2> DEFINE body == <<Of("push", o), Do("getObject"), Index("pop", 1)>>
  <2>1. /\ Of("push", o) \in Entry /\ Do("getObject") \in Entry /\ Index("pop", 1) \in Entry
        /\ Of("push", o).op = "push" /\ Do("getObject").op = "getObject" /\ Index("pop", 1).op = "pop"
    BY EntryKinds DEF Of, Do, Index
  <2>2. Starts(Synchronized(body))
    BY <1>5 DEF GetObjectOf
  <2>3. /\ body \in Seq(Entry) /\ DOMAIN body = 1 .. 3
        /\ body[1].op = "push" /\ body[2].op = "getObject" /\ body[3].op = "pop"
    BY <2>1
  <2> HIDE DEF body
  <2>4. NewOnes(body) /\ Fine(body)
    BY <2>3 DEF NewOnes, Makes
  <2> QED
    BY <1>1, <2>2, <2>3, <2>4, BlockStarts
<1>6. CASE Begins(GiveToLua)
  <2>1. /\ Do("pushJavaObject") \in Entry /\ Value("setGlobal", "x") \in Entry
        /\ Do("pushJavaObject").op = "pushJavaObject" /\ Value("setGlobal", "x").op = "setGlobal"
    BY EntryKinds DEF Do, Value
  <2>2. /\ GiveToLua \in Seq(Entry)
        /\ \A i \in DOMAIN GiveToLua : GiveToLua[i].op \notin Special /\ ~Makes(GiveToLua[i])
    BY <2>1 DEF GiveToLua, Special, Makes
  <2> QED
    BY <1>1, <1>6, <2>2, PlainStarts
<1>7. CASE Begins(RunQueuedCode)
  <2> DEFINE call == [op |-> "pcall", args |-> 0, n |-> 0]
             a == <<Index("setTop", 0), Do("loadString"), Value("getGlobal", "table"),
                    Value("getField", "function"), Index("remove", -2), Index("insert", -2), call>>
  <2>1. /\ Index("setTop", 0) \in Entry /\ Do("loadString") \in Entry /\ Value("getGlobal", "table") \in Entry
        /\ Value("getField", "function") \in Entry /\ Index("remove", -2) \in Entry
        /\ Index("insert", -2) \in Entry /\ call \in Entry
    BY EntryKinds
  <2>2. /\ Index("setTop", 0).op = "setTop" /\ Do("loadString").op = "loadString"
        /\ Value("getGlobal", "table").op = "getGlobal" /\ Value("getField", "function").op = "getField"
        /\ Index("remove", -2).op = "remove" /\ Index("insert", -2).op = "insert"
        /\ call.op = "pcall" /\ call.n = 0
    BY DEF Index, Do, Value
  <2>3. Begins(a)
    BY <1>7 DEF RunQueuedCode
  <2> HIDE DEF call
  <2>4. /\ a \in Seq(Entry) /\ DOMAIN a = 1 .. 7 /\ a[7] = call
        /\ a[1].op = "setTop" /\ a[2].op = "loadString" /\ a[3].op = "getGlobal"
        /\ a[4].op = "getField" /\ a[5].op = "remove" /\ a[6].op = "insert"
    BY <2>1, <2>2
  <2> HIDE DEF a
  <2>5. \A i \in DOMAIN a : \/ i = 7
                            \/ a[i].op \in {"setTop", "loadString", "getGlobal", "getField", "remove", "insert"}
    BY <2>4
  <2>6. \A i \in DOMAIN a : a[i].op \notin Special /\ ~Makes(a[i])
    BY <2>2, <2>4, <2>5 DEF Special, Makes
  <2> QED
    BY <1>1, <2>3, <2>4, <2>6, PlainStarts
<1> HIDE DEF Starts
<1>8. CASE \E o \in Objects, g \in {"function", "x"} :
             Unused(o) /\ (Begins(OfGlobal(o, g)) \/ Nested(OfGlobal(o, g)))
  BY <1>2, <1>8 DEF Starts
<1>9. CASE \E o \in Objects, p \in Objects : Unused(o) /\ Begins(OfField(o, p))
  BY <1>3, <1>9
<1>10. CASE \E o \in Objects, r \in Objects :
             Nested(CallOf(o, 0, o)) \/ (Unused(r) /\ Begins(CallOf(o, 1, r)))
  BY <1>4, <1>10 DEF Starts
<1>11. CASE \E o \in Objects : Begins(GetObjectOf(o)) \/ Nested(GetObjectOf(o))
  BY <1>5, <1>11 DEF Starts
<1> QED
  BY <1>6, <1>7, <1>8, <1>9, <1>10, <1>11 DEF Start

-----------------------------------------------------------------------------
(* The registry                                                            *)

(* Fewer LuaObjects hold the keys.                                         *)
LEMMA RegistryHeld ==
  ASSUME RegInv, RefsKept, Rest(S, S'),
         \A o \in Holding' : Pending(o)' =>
           /\ o \in Holding /\ Pending(o)
           /\ object'[o].ref = object[o].ref /\ object'[o].val = object[o].val
  PROVE  RegInv' /\ RefsKept'
<1>1. S'.reg = S.reg /\ S'.free = S.free
  BY DEF Rest
<1>2. RegInv'
  BY <1>1 DEF RegInv, FreeList
<1>3. RefsKept'
  BY <1>1 DEF RefsKept
<1> QED
  BY <1>2, <1>3

(* luaL_ref takes a key that is free, or a new one.                        *)
LEMMA RefTaken ==
  ASSUME RegInv, RefsKept, NEW o \in Objects, object[o].st = "none",
         object = [p \in Objects |-> object[p]],
         object' = [object EXCEPT ![o] =
           [st |-> "live", ref |-> RefKey(S), val |-> Last(S.stk), of |-> made]],
         Rest(Ref(S), S'), todo'["finalizer"] = todo["finalizer"], made' = made, open' = open
  PROVE  RegInv' /\ RefsKept'
<1> DEFINE v == Last(S.stk)
           k == RefKey(S)
           slot == [val |-> v, next |-> 0]
           n == Len(S.reg)
<1>1. PICK F \in SUBSET (1 .. n) :
        /\ FreeList(S, F)
        /\ \A p \in Holding : Pending(p) /\ object[p].val # NilValue => object[p].ref \in DOMAIN S.reg \ F
  BY DEF RegInv
<1>2. n \in Nat /\ DOMAIN S.reg = 1 .. n /\ S.reg = [i \in 1 .. n |-> S.reg[i]]
  BY DEF RegInv
<1>3. /\ object'[o].ref = k /\ object'[o].val = v /\ object'[o].st = "live"
      /\ \A p \in Objects \ {o} : object'[p] = object[p]
  OBVIOUS
<1>4. /\ Holding \subseteq Objects \ {o} /\ Holding' \subseteq Holding \cup {o}
      /\ \A p \in Objects \ {o} : Pending(p)' <=> Pending(p)
  BY <1>3 DEF Holding, Pending
<1>5. \A p \in Holding : Pending(p) =>
        IF object[p].val = NilValue THEN object[p].ref = RefNil
        ELSE object[p].ref \in (1 .. n) \ F /\ S.reg[object[p].ref].val = object[p].val
  BY <1>1, <1>2 DEF RefsKept
<1>6. S'.reg = Ref(S).reg /\ S'.free = Ref(S).free
  BY DEF Rest
<1>7. Rest(S, Pop(S, 1))
  BY StackOps
<1>8. ASSUME NEW m, NEW G \in SUBSET (1 .. m), m \in Nat, m >= n,
             S'.reg = [i \in 1 .. m |-> S'.reg[i]], Len(S'.reg) = m, FreeList(S', G), G \subseteq F,
             \A i \in (1 .. n) \ F : S'.reg[i] = S.reg[i],
             IF v = NilValue THEN k = RefNil
             ELSE k \in (1 .. m) \ G /\ k \notin (1 .. n) \ F /\ S'.reg[k].val = v
      PROVE  RegInv' /\ RefsKept'
  <2>1. \A p \in Holding' : Pending(p)' =>
          IF object'[p].val = NilValue THEN object'[p].ref = RefNil
          ELSE object'[p].ref \in (1 .. m) \ G /\ S'.reg[object'[p].ref].val = object'[p].val
    <3>1. ASSUME NEW p \in Holding, p # o, Pending(p)'
          PROVE  IF object'[p].val = NilValue THEN object'[p].ref = RefNil
                 ELSE object'[p].ref \in (1 .. m) \ G /\ S'.reg[object'[p].ref].val = object'[p].val
      <4>1. Pending(p) /\ object'[p] = object[p]
        BY <1>3, <1>4, <3>1
      <4>2. \A i \in (1 .. n) \ F : i \in (1 .. m) \ G /\ S'.reg[i] = S.reg[i]
        BY <1>2, <1>8
      <4>3. CASE object[p].val = NilValue
        BY <1>5, <4>1, <4>3
      <4>4. CASE object[p].val # NilValue
        BY <1>5, <4>1, <4>2, <4>4
      <4> QED
        BY <4>3, <4>4
    <3>2. IF object'[o].val = NilValue THEN object'[o].ref = RefNil
          ELSE object'[o].ref \in (1 .. m) \ G /\ S'.reg[object'[o].ref].val = object'[o].val
      BY <1>3, <1>8
    <3>3. \A p \in Holding' : p = o \/ (p \in Holding /\ p # o)
      BY <1>4
    <3> QED
      BY <3>1, <3>2, <3>3
  <2>2. \A p, q \in Holding' :
          Pending(p)' /\ Pending(q)' /\ p # q /\ object'[q].ref # RefNil => object'[q].ref # object'[p].ref
    <3>1. ASSUME NEW p \in Holding, NEW q \in Holding, p # q, Pending(p), Pending(q), object[q].ref # RefNil
          PROVE  object[q].ref # object[p].ref
      BY <3>1 DEF RefsKept
    <3>2. ASSUME NEW q \in Holding, Pending(q), object[q].ref # RefNil PROVE object[q].ref # k
      BY <1>5, <1>8, <3>2
    <3> QED
      BY <1>3, <1>4, <3>1, <3>2
  <2>3. RefsKept'
    BY <2>1, <2>2 DEF RefsKept
  <2>4. DOMAIN S'.reg = 1 .. m
    BY <1>8
  <2>5. RegInv'
    BY <1>8, <2>1, <2>4 DEF RegInv
  <2> QED
    BY <2>3, <2>5
<1>9. CASE v = NilValue
  <2>1. k = RefNil /\ Ref(S) = Pop(S, 1)
    BY <1>9 DEF RefKey, Ref
  <2>2. S'.reg = S.reg /\ S'.free = S.free
    BY <1>6, <1>7, <2>1 DEF Rest
  <2>3. FreeList(S', F)
    BY <1>1, <2>2 DEF FreeList
  <2>4. n >= n /\ S'.reg = [i \in 1 .. n |-> S'.reg[i]] /\ Len(S'.reg) = n
    BY <1>2, <2>2
  <2>5. \A i \in (1 .. n) \ F : S'.reg[i] = S.reg[i]
    BY <2>2
  <2> HIDE DEF k, v, n
  <2>6. F \subseteq F /\ F \in SUBSET (1 .. n) /\ n \in Nat
    BY <1>2
  <2> QED
    BY <1>8, <1>9, <2>1, <2>3, <2>4, <2>5, <2>6
<1>10. CASE v # NilValue /\ S.free # 0
  <2>1. k = S.free /\ k \in F /\ k \in 1 .. n /\ k # RefNil
    BY <1>1, <1>10 DEF RefKey, FreeList, RefNil
  <2>2. S'.free = S.reg[k].next /\ S'.reg = [S.reg EXCEPT ![k] = slot]
    <3> DEFINE s1 == Pop(S, 1)
    <3>1. Ref(S) = [s1 EXCEPT !.free = S.reg[k].next, !.reg[k] = slot]
      BY <2>1 DEF Ref
    <3> HIDE DEF s1
    <3>2. s1.reg = S.reg
      BY <1>7 DEF Rest, s1
    <3> QED
      BY <1>6, <3>1, <3>2
  <2> DEFINE G == F \ {k}
  <2>3. S'.reg = [i \in 1 .. n |-> IF i = k THEN slot ELSE S.reg[i]]
    BY <1>2, <2>1, <2>2
  <2>4. FreeList(S', G)
    BY <1>1, <2>1, <2>2, <2>3 DEF FreeList
  <2>5. Len(S'.reg) = n
    BY <1>2, <2>3
  <2>6. S'.reg = [i \in 1 .. n |-> S'.reg[i]] /\ S'.reg[k].val = v
    BY <2>1, <2>3
  <2>7. \A i \in (1 .. n) \ F : S'.reg[i] = S.reg[i]
    BY <2>1, <2>3
  <2> HIDE DEF k
  <2>8. k \in (1 .. n) \ G /\ k \notin (1 .. n) \ F /\ G \in SUBSET (1 .. n) /\ G \subseteq F
    BY <2>1
  <2>9. n \in Nat /\ n >= n
    BY <1>2
  <2> HIDE DEF n, G, v
  <2> QED
    BY <1>8, <1>10, <2>4, <2>5, <2>6, <2>7, <2>8, <2>9
<1>11. CASE v # NilValue /\ S.free = 0
  <2>1. k = n + 1 /\ k # RefNil /\ k # S.free
    BY <1>2, <1>11 DEF RefKey, RefNil
  <2>2. S'.free = S.free /\ S'.reg = Append(S.reg, slot)
    <3> DEFINE s1 == Pop(S, 1)
    <3>1. Ref(S) = [s1 EXCEPT !.reg = Append(@, slot)]
      BY <2>1 DEF Ref
    <3> HIDE DEF s1
    <3>2. s1.reg = S.reg /\ s1.free = S.free
      BY <1>7 DEF Rest, s1
    <3> QED
      BY <1>6, <3>1, <3>2
  <2> DEFINE T == {S.reg[i] : i \in 1 .. n} \cup {slot}
  <2>3. S.reg \in Seq(T) /\ slot \in T
    <3>1. S.reg \in [1 .. n -> T]
      BY <1>2
    <3> QED
      BY <1>2, <3>1
  <2> HIDE DEF T, slot
  <2>4. /\ S'.reg \in Seq(T) /\ Len(S'.reg) = n + 1
        /\ \A i \in 1 .. n : S'.reg[i] = S.reg[i]
        /\ S'.reg[n + 1] = slot
    BY <2>2, <2>3, AppendProperties
  <2>5. S'.reg = [i \in 1 .. n + 1 |-> S'.reg[i]]
    <3>1. S'.reg \in [1 .. Len(S'.reg) -> T]
      BY <2>4, LenProperties
    <3>2. Len(S'.reg) = n + 1
      BY <2>4
    <3> QED
      BY <3>1, <3>2
  <2>6. FreeList(S', F)
    BY <1>1, <2>2, <2>4 DEF FreeList
  <2>7. k \in (1 .. n + 1) \ F /\ k \notin (1 .. n) \ F /\ n + 1 >= n /\ n + 1 \in Nat /\ F \in SUBSET (1 .. n + 1)
    BY <1>2, <2>1
  <2>8. S'.reg[k].val = v
    BY <2>1, <2>4 DEF slot
  <2> QED
    BY <1>2, <1>8, <1>11, <2>4, <2>5, <2>6, <2>7, <2>8
<1> QED
  BY <1>9, <1>10, <1>11

LEMMA RegisterValueKeeps ==
  ASSUME IInv, RegisterValue("main")
  PROVE  IInv'
<1> DEFINE s == todo["main"]
           x == Arg("main")
           t == SubSeq(s, 2, Len(s))
<1>1. PICK d : Balanced(s, d) /\ Held(d[1])
  BY MonitorWitness
<1>2. /\ Busy("main") /\ x.op = "ref" /\ Go("main") /\ Native("main", Ref(S))
      /\ object' = [object EXCEPT ![x.o] =
           [st |-> "live", ref |-> RefKey(S), val |-> Last(S.stk), of |-> made]]
  BY DEF RegisterValue, Op, Arg
<1>3. /\ open /\ s \in Seq(Entry) /\ Len(s) \in Nat /\ 1 \in 1 .. Len(s) /\ DOMAIN s = 1 .. Len(s)
      /\ x = s[1] /\ x \in Entry /\ 2 \in 1 .. Len(s) + 1 /\ d[1] = d[2] /\ MainGoes(t)
  BY <1>1, <1>2, AtHead DEF IInv, Change
<1>4. x.o \in Objects /\ Makes(x)
  BY <1>2, <1>3, EntryFacts DEF Makes
<1>5. object[x.o].st = "none" /\ \A m \in 2 .. Len(s) : Makes(s[m]) => s[m].o # x.o
  <2>1. \A m \in 2 .. Len(s) : m \in DOMAIN s /\ m # 1
    BY <1>3
  <2> QED
    BY <1>3, <1>4, <2>1 DEF IInv, MakesInv
<1> HIDE DEF x
<1>6. PICK D : UNCHANGED <<states, made, open, stateId, monitor>> /\ S' = FromCPtr(Ref(S), "main", D)
  BY <1>2 DEF Native
<1>7. ShapeInv
  BY DEF IInv
<1>8. /\ todo'["main"] = t /\ todo'["finalizer"] = todo["finalizer"]
      /\ todo' = [j \in Threads |-> todo'[j]]
  BY <1>3, <1>7, MainGone
<1>9. /\ t \in Seq(Entry) /\ Len(t) = Len(s) - 1
      /\ \A i \in 1 .. Len(t) : t[i] = s[i + 1]
  <2>1. \A i \in 2 .. Len(s) : s[i] \in Entry
    BY <1>3
  <2> QED
    BY <1>3, <2>1, SubSeqProperties
<1>10. \E e : Balanced(t, e) /\ e[1] = d[2]
  <2>1. Balanced(t, [i \in 1 .. Len(t) + 1 |-> d[i + 2 - 1]])
    BY <1>1, <1>3, SuffixBalanced
  <2>2. [i \in 1 .. Len(t) + 1 |-> d[i + 2 - 1]][1] = d[2]
    <3>1. 1 \in 1 .. Len(t) + 1 /\ 1 + 2 - 1 = 2
      BY <1>9, LenProperties
    <3> QED
      BY <3>1
  <2> QED
    BY <2>1, <2>2
<1> HIDE DEF t
<1>11. /\ object = [o \in Objects |-> object[o]] /\ made \in 1 .. MaxStates
       /\ \A o \in Objects : /\ object[o].st \in {"none", "live", "finalizing"}
                             /\ object[o].of \in 1 .. made
  BY <1>7 DEF ShapeInv
<1>12. /\ object' = [o \in Objects |-> object'[o]]
       /\ object'[x.o] = [st |-> "live", ref |-> RefKey(S), val |-> Last(S.stk), of |-> made]
       /\ \A o \in Objects \ {x.o} : object'[o] = object[o]
  BY <1>2, <1>4, <1>11
<1>13. FinalizerStays
  BY <1>5, <1>6, <1>8, <1>12 DEF FinalizerStays
<1>14. FinalizerInv'
  BY <1>13, FinalizerKept DEF IInv
<1>15. ShapeInv'
  <2>1. \A o \in Objects : /\ object'[o].st \in {"none", "live", "finalizing"}
                           /\ object'[o].of \in 1 .. made
    BY <1>11, <1>12
  <2> QED
    BY <1>3, <1>6, <1>8, <1>9, <1>11, <1>12, <2>1 DEF ShapeInv, Busy
<1>16. MonitorInv'
  BY <1>1, <1>3, <1>6, <1>8, <1>10, <1>13, MonitorKept, MonitorGoes
<1>17. MakesInv'
  <2>1. ASSUME NEW i \in DOMAIN t
        PROVE  i + 1 \in DOMAIN s /\ i + 1 \in 2 .. Len(s) /\ t[i] = s[i + 1]
    BY <1>3, <1>9, LenProperties
  <2>2. ASSUME NEW i \in DOMAIN t, Makes(t[i])
        PROVE  object'[t[i].o].st = "none" /\ \A k \in DOMAIN t : Makes(t[k]) /\ k # i => t[k].o # t[i].o
    <3>1. t[i].o # x.o /\ t[i].o \in Objects /\ object[t[i].o].st = "none"
      <4>1. t[i] \in Entry /\ Makes(s[i + 1])
        BY <1>9, <2>1, <2>2
      <4>2. t[i].o \in Objects
        BY <2>2, <4>1, EntryFacts
      <4>3. t[i].o # x.o
        BY <1>5, <2>1, <4>1
      <4>4. object[s[i + 1].o].st = "none"
        BY <2>1, <4>1 DEF IInv, MakesInv
      <4> QED
        BY <2>1, <4>2, <4>3, <4>4
    <3>2. ASSUME NEW k \in DOMAIN t, Makes(t[k]), k # i PROVE t[k].o # t[i].o
      <4>1. k + 1 # i + 1
        BY <1>9, <3>2, LenProperties
      <4> QED
        BY <2>1, <2>2, <3>2, <4>1 DEF IInv, MakesInv
    <3> QED
      BY <1>12, <3>1, <3>2
  <2> QED
    BY <1>8, <2>2 DEF MakesInv
<1>18. Rest(Ref(S), S') /\ S'.env = "main"
  BY <1>6, CallRests
<1>19. RegInv' /\ RefsKept'
  BY <1>2, <1>4, <1>5, <1>6, <1>8, <1>11, <1>18, RefTaken DEF IInv
<1>20. StatesInv'
  <2>1. Rest(S, Pop(S, 1))
    BY StackOps
  <2>2. Ref(S).index = Pop(S, 1).index
    <3> DEFINE s1 == Pop(S, 1)
    <3>1. \/ Ref(S) = s1
          \/ \E k, v, slot : Ref(S) = [s1 EXCEPT !.free = v, !.reg[k] = slot]
          \/ \E slot : Ref(S) = [s1 EXCEPT !.reg = Append(@, slot)]
      BY DEF Ref
    <3> HIDE DEF s1
    <3>2. ASSUME NEW k, NEW v, NEW slot, Ref(S) = [s1 EXCEPT !.free = v, !.reg[k] = slot]
          PROVE  Ref(S).index = s1.index
      BY <3>2
    <3>3. ASSUME NEW slot, Ref(S) = [s1 EXCEPT !.reg = Append(@, slot)]
          PROVE  Ref(S).index = s1.index
      BY <3>3
    <3>4. Ref(S).index = s1.index
      BY <3>1, <3>2, <3>3
    <3> QED
      BY <3>4 DEF s1
  <2>3. S'.index = S.index
    BY <1>18, <2>1, <2>2 DEF Rest
  <2> QED
    BY <1>6, <2>3 DEF IInv, StatesInv
<1>21. EnvIsRunning'
  <2>1. ~InsideLua("finalizer")'
    BY <1>14, FinalizerCalls, PTL
  <2> QED
    BY <1>18, <2>1 DEF EnvIsRunning, Threads
<1> QED
  BY <1>14, <1>15, <1>16, <1>17, <1>19, <1>20, <1>21 DEF IInv

-----------------------------------------------------------------------------
(* The finalizer thread                                                    *)

(* luaL_unref gives the key back.                                          *)
LEMMA RefReleased ==
  ASSUME RegInv, RefsKept, NEW o \in Holding, Pending(o),
         LET t == Unref(S, object[o].ref) IN S'.reg = t.reg /\ S'.free = t.free,
         \A p \in Holding' : Pending(p)' => p \in Holding /\ Pending(p) /\ p # o,
         object' = object
  PROVE  RegInv' /\ RefsKept'
<1> DEFINE k == object[o].ref
           n == Len(S.reg)
<1>1. PICK F \in SUBSET (1 .. n) :
        /\ FreeList(S, F)
        /\ \A p \in Holding : Pending(p) /\ object[p].val # NilValue => object[p].ref \in DOMAIN S.reg \ F
  BY DEF RegInv
<1>2. n \in Nat /\ DOMAIN S.reg = 1 .. n /\ S.reg = [i \in 1 .. n |-> S.reg[i]]
  BY DEF RegInv
<1>3. IF object[o].val = NilValue THEN k = RefNil ELSE k \in (1 .. n) \ F
  BY <1>1, <1>2 DEF RefsKept
<1>4. CASE k = RefNil
  <2>1. S'.reg = S.reg /\ S'.free = S.free
    BY <1>4 DEF Unref, RefNil
  <2>2. \A p \in Holding' : Pending(p)' => p \in Holding /\ Pending(p)
    OBVIOUS
  <2>3. RegInv'
    <3>1. FreeList(S', F)
      BY <1>1, <2>1 DEF FreeList
    <3>2. \A p \in Holding' : Pending(p)' /\ object'[p].val # NilValue =>
            object'[p].ref \in DOMAIN S'.reg \ F
      BY <1>1, <2>1, <2>2
    <3>3. Len(S'.reg) \in Nat /\ S'.reg = [i \in 1 .. Len(S'.reg) |-> S'.reg[i]]
      BY <1>2, <2>1
    <3>4. F \in SUBSET (1 .. Len(S'.reg))
      BY <2>1
    <3> QED
      BY <3>1, <3>2, <3>3, <3>4 DEF RegInv
  <2>4. RefsKept'
    BY <2>1, <2>2 DEF RefsKept
  <2> QED
    BY <2>3, <2>4
<1>5. CASE k \in (1 .. n) \ F
  <2> DEFINE G == F \cup {k}
             slot == [val |-> "free", next |-> S.free]
  <2>1. S'.reg = [i \in 1 .. n |-> IF i = k THEN slot ELSE S.reg[i]] /\ S'.free = k
    <3>1. ~(k < 0)
      BY <1>2, <1>5
    <3>2. S'.reg = [S.reg EXCEPT ![k] = slot] /\ S'.free = k
      BY <3>1 DEF Unref
    <3> HIDE DEF k, slot
    <3> QED
      BY <1>2, <3>2
  <2>2. FreeList(S', G)
    <3>1. \A j \in F : S'.reg[j] = S.reg[j]
      BY <1>5, <2>1
    <3>2. S'.reg[k].next = S.free
      BY <1>5, <2>1
    <3>3. k # 0 /\ k \notin F
      BY <1>2, <1>5
    <3>4. /\ S.free \in F \cup {0}
          /\ \A j \in F : S.reg[j].next \in (F \ {S.free}) \cup {0}
          /\ \A j, m \in F : S.reg[j].next = S.reg[m].next /\ S.reg[j].next # 0 => j = m
      BY <1>1 DEF FreeList
    <3> HIDE DEF k
    <3>5. S'.free = k
      BY <2>1
    <3>6. \A j \in G : S'.reg[j].next \in (G \ {k}) \cup {0}
      BY <3>1, <3>2, <3>3, <3>4
    <3>7. \A j, m \in G : S'.reg[j].next = S'.reg[m].next /\ S'.reg[j].next # 0 => j = m
      <4>1. \A j \in F : S.reg[j].next # S.free \/ S.reg[j].next = 0
        BY <3>4
      <4> SUFFICES ASSUME NEW j \in G, NEW m \in G,
                          S'.reg[j].next = S'.reg[m].next, S'.reg[j].next # 0
                   PROVE  j = m
        OBVIOUS
      <4>2. CASE j \in F /\ m \in F
        BY <3>1, <3>4, <4>2
      <4>3. CASE j \in F /\ m = k
        BY <3>1, <3>2, <4>1, <4>3
      <4>4. CASE j = k /\ m \in F
        BY <3>1, <3>2, <4>1, <4>4
      <4> QED
        BY <4>2, <4>3, <4>4
    <3> QED
      BY <3>5, <3>6, <3>7 DEF FreeList
  <2>3. Len(S'.reg) = n /\ S'.reg = [i \in 1 .. n |-> S'.reg[i]] /\ DOMAIN S'.reg = 1 .. n
    BY <1>2, <2>1
  <2>4. ASSUME NEW p \in Holding', Pending(p)', object[p].val # NilValue
        PROVE  object[p].ref \in (1 .. n) \ G /\ S'.reg[object[p].ref].val = object[p].val
    <3>1. p \in Holding \ {o} /\ Pending(p)
      BY <2>4
    <3>2. object[p].ref \in (1 .. n) \ F /\ S.reg[object[p].ref].val = object[p].val
      BY <1>1, <1>2, <2>4, <3>1 DEF RefsKept
    <3>3. object[p].ref # RefNil
      BY <1>2, <3>2 DEF RefNil
    <3>4. object[p].ref # k
      BY <3>1, <3>3 DEF RefsKept
    <3> QED
      BY <2>1, <3>2, <3>4
  <2>5. RegInv'
    <3>1. G \in SUBSET (1 .. n)
      BY <1>5
    <3> HIDE DEF G
    <3> QED
      BY <1>2, <2>2, <2>3, <2>4, <3>1 DEF RegInv
  <2>6. RefsKept'
    BY <2>4 DEF RefsKept
  <2> QED
    BY <2>5, <2>6
<1> QED
  BY <1>3, <1>4, <1>5

(* Where the finalizer thread is in its block.                             *)
LEMMA FinalizerAt ==
  ASSUME FinalizerInv, Busy("finalizer")
  PROVE  \E o \in Objects :
           /\ Finalizes(o) /\ Holder("finalizer") = object[o].of
           /\ \/ /\ Op("finalizer", "lock")
                 /\ todo["finalizer"] = <<Do("lock"), Of("ifOpen", o), Of("unref", o), Do("unlock")>>
              \/ /\ Op("finalizer", "ifOpen")
                 /\ todo["finalizer"] = <<Of("ifOpen", o), Of("unref", o), Do("unlock")>>
              \/ /\ Op("finalizer", "unref")
                 /\ todo["finalizer"] = <<Of("unref", o), Do("unlock")>>
              \/ /\ Op("finalizer", "unlock")
                 /\ todo["finalizer"] = <<Do("unlock")>>
           /\ Head(todo["finalizer"]).op \in {"ifOpen", "unref"} => Arg("finalizer").o = o
           /\ \A g : FinalizerHolds(g) <=> Head(todo["finalizer"]).op # "lock" /\ g = object[o].of
<1>1. PICK o \in Objects : Finalizes(o)
  BY DEF FinalizerInv, Busy
<1>2. Holder("finalizer") = object[o].of
  <2>1. \A p \in Objects : object[p].st = "finalizing" <=> p = o
    BY <1>1 DEF Finalizes
  <2>2. (CHOOSE p \in Objects : object[p].st = "finalizing") = o
    BY <2>1
  <2> QED
    BY <2>2 DEF Holder
<1>3. /\ Do("lock").op = "lock" /\ Of("ifOpen", o).op = "ifOpen" /\ Of("ifOpen", o).o = o
      /\ Of("unref", o).op = "unref" /\ Of("unref", o).o = o /\ Do("unlock").op = "unlock"
  BY DEF Do, Of
<1>4. \/ /\ Op("finalizer", "lock")
         /\ todo["finalizer"] = <<Do("lock"), Of("ifOpen", o), Of("unref", o), Do("unlock")>>
      \/ /\ Op("finalizer", "ifOpen")
         /\ todo["finalizer"] = <<Of("ifOpen", o), Of("unref", o), Do("unlock")>>
      \/ /\ Op("finalizer", "unref")
         /\ todo["finalizer"] = <<Of("unref", o), Do("unlock")>>
      \/ /\ Op("finalizer", "unlock")
         /\ todo["finalizer"] = <<Do("unlock")>>
  BY <1>1, <1>3 DEF Finalizes, Op
<1>5. Head(todo["finalizer"]).op \in {"ifOpen", "unref"} => Arg("finalizer").o = o
  BY <1>3, <1>4 DEF Op, Arg
<1>6. \A g : FinalizerHolds(g) <=> Head(todo["finalizer"]).op # "lock" /\ g = object[o].of
  BY <1>1 DEF FinalizerHolds, Finalizes
<1> QED
  BY <1>1, <1>2, <1>4, <1>5, <1>6

(* What remains to show of a step of the finalizer thread.                 *)
FinalizerGoes(new) == todo' = [todo EXCEPT !["finalizer"] = new]

LEMMA FinalizerGone ==
  ASSUME ShapeInv, NEW new, FinalizerGoes(new)
  PROVE  /\ todo'["finalizer"] = new /\ todo'["main"] = todo["main"]
         /\ todo' = [j \in Threads |-> todo'[j]]
  BY DEF ShapeInv, FinalizerGoes, Threads

LEMMA FinalizerGoesOn ==
  ASSUME IInv, NEW new, FinalizerGoes(new), UNCHANGED <<states, made, open, stateId>>,
         S'.index = S.index, S'.env = S.env \/ ~InsideLua("main"),
         object' = [o \in Objects |-> object'[o]],
         \A o \in Objects :
           /\ object'[o].st \in {"none", "live", "finalizing"} /\ object'[o].of \in 1 .. made
           /\ object[o].st = "none" => object'[o].st = "none",
         NEW d, Balanced(todo["main"], d), Held(d[1])', FinalizerInv', RegInv', RefsKept'
  PROVE  IInv'
<1>1. ShapeInv
  BY DEF IInv
<1>2. /\ todo'["main"] = todo["main"] /\ todo' = [j \in Threads |-> todo'[j]]
  BY <1>1, FinalizerGone
<1>3. ShapeInv'
  BY <1>1, <1>2 DEF ShapeInv, Busy
<1>4. MonitorInv'
  BY <1>2, MonitorGoes
<1>5. StatesInv'
  BY DEF IInv, StatesInv
<1>6. MakesInv'
  <2>1. \A i \in DOMAIN todo["main"] : Makes(todo["main"][i]) => todo["main"][i].o \in Objects
    <3>1. todo["main"] \in Seq(Entry)
      BY <1>1 DEF ShapeInv
    <3> QED
      BY <3>1, ElementOfSeq, LenProperties, EntryFacts
  <2> QED
    BY <1>2, <2>1 DEF IInv, MakesInv
<1>7. EnvIsRunning'
  <2>1. ~InsideLua("finalizer")'
    BY FinalizerCalls, PTL
  <2>2. InsideLua("main")' <=> InsideLua("main")
    BY <1>2 DEF InsideLua
  <2> QED
    BY <2>1, <2>2 DEF IInv, EnvIsRunning, Threads
<1> QED
  BY <1>3, <1>4, <1>5, <1>6, <1>7 DEF IInv

(* The finalizer thread stands before call new of the block of o.          *)
LEMMA BlockOf ==
  ASSUME NEW o \in Objects,
         \A p \in Objects : object'[p].st = "finalizing" <=> p = o,
         object'[o].of = object[o].of, NEW new, todo'["finalizer"] = new,
         \/ new = <<Of("ifOpen", o), Of("unref", o), Do("unlock")>>
         \/ new = <<Of("unref", o), Do("unlock")>> /\ open' /\ object[o].of = made'
         \/ new = <<Do("unlock")>>
  PROVE  FinalizerInv' /\ \A g : FinalizerHolds(g)' <=> g = object[o].of
<1>1. /\ Of("ifOpen", o).op = "ifOpen" /\ Of("unref", o).op = "unref" /\ Do("unlock").op = "unlock"
  BY DEF Do, Of
<1>2. new # <<>> /\ Head(new).op \in {"ifOpen", "unref", "unlock"}
  BY <1>1
<1>3. Head(new).op = "unref" => open' /\ object[o].of = made'
  BY <1>1
<1>4. new \in {<<Do("lock"), Of("ifOpen", o), Of("unref", o), Do("unlock")>>,
               <<Of("ifOpen", o), Of("unref", o), Do("unlock")>>,
               <<Of("unref", o), Do("unlock")>>, <<Do("unlock")>>}
  OBVIOUS
<1>5. Finalizes(o)'
  BY <1>3, <1>4 DEF Finalizes
<1>6. FinalizerInv'
  BY <1>5 DEF FinalizerInv
<1>7. \A g : FinalizerHolds(g)' <=> g = object[o].of
  BY <1>2 DEF FinalizerHolds, Busy
<1> QED
  BY <1>6, <1>7

LEMMA FinalizerLocks ==
  ASSUME IInv, Lock("finalizer")
  PROVE  IInv'
<1>1. PICK d : Balanced(todo["main"], d) /\ Held(d[1])
  BY MonitorWitness
<1>2. /\ Op("finalizer", "lock") /\ CanEnter("finalizer", Holder("finalizer"))
      /\ Enter(Holder("finalizer"), "finalizer") /\ Go("finalizer")
      /\ UNCHANGED <<states, made, open, stateId, S, object>>
  BY DEF Lock
<1>3. PICK o \in Objects :
        /\ Finalizes(o) /\ Holder("finalizer") = object[o].of
        /\ todo["finalizer"] = <<Do("lock"), Of("ifOpen", o), Of("unref", o), Do("unlock")>>
        /\ \A g : ~FinalizerHolds(g)
  <2>1. Busy("finalizer") /\ Head(todo["finalizer"]).op = "lock"
    BY <1>2 DEF Op
  <2>2. FinalizerInv
    BY DEF IInv
  <2> QED
    BY <2>1, <2>2, FinalizerAt DEF Op
<1> DEFINE g0 == object[o].of
           new == <<Of("ifOpen", o), Of("unref", o), Do("unlock")>>
<1>4. FinalizerGoes(new)
  <2>1. Tail(todo["finalizer"]) = new
    BY <1>3
  <2>2. <<>> \o new = new
    BY ConcatEmptySeq
  <2> HIDE DEF new
  <2> QED
    BY <1>2, <2>1, <2>2 DEF Go, Then, FinalizerGoes
<1>5. ShapeInv /\ object = [p \in Objects |-> object[p]] /\ made \in 1 .. MaxStates /\ g0 \in 1 .. made
  BY DEF IInv, ShapeInv
<1>6. /\ todo'["finalizer"] = new /\ todo'["main"] = todo["main"]
  BY <1>4, <1>5, FinalizerGone
<1>7. FinalizerInv' /\ \A g : FinalizerHolds(g)' <=> g = g0
  BY <1>2, <1>3, <1>6, BlockOf DEF Finalizes
<1>8. d[1] \in Nat
  <2>1. 1 \in 1 .. Len(todo["main"]) + 1
    BY <1>5, LenProperties DEF ShapeInv
  <2> QED
    BY <1>1, <2>1 DEF Balanced, Depths
<1>9. Held(d[1])'
  <2>1. monitor = [g \in 1 .. MaxStates |-> IF g = made /\ d[1] > 0 THEN [by |-> "main", n |-> d[1]]
                                            ELSE [by |-> Nobody, n |-> 0]]
    BY <1>1, <1>3 DEF Held
  <2>2. g0 \in 1 .. MaxStates
    BY <1>5, LuaJavaAssumption
  <2>3. ~(g0 = made /\ d[1] > 0)
    BY <1>2, <1>3, <2>1, <2>2 DEF CanEnter, Nobody
  <2>4. monitor' = [monitor EXCEPT ![g0] = [by |-> "finalizer", n |-> 1]]
    <3>1. monitor[g0].n = 0
      BY <2>1, <2>2, <2>3
    <3>2. monitor' = [monitor EXCEPT ![g0] = [by |-> "finalizer", n |-> @.n + 1]]
      BY <1>2, <1>3 DEF Enter
    <3> QED
      BY <3>1, <3>2
  <2>5. monitor' = [g \in 1 .. MaxStates |->
          IF g = made' /\ d[1] > 0 THEN [by |-> "main", n |-> d[1]]
          ELSE IF FinalizerHolds(g)' THEN [by |-> "finalizer", n |-> 1]
          ELSE [by |-> Nobody, n |-> 0]]
    BY <1>2, <1>7, <2>1, <2>2, <2>3, <2>4
  <2> QED
    BY <1>2, <1>7, <2>3, <2>5 DEF Held
<1>10. RegInv' /\ RefsKept'
  <2>1. Rest(S, S')
    BY <1>2 DEF Rest
  <2>2. \A p : Pending(p)
    <3>1. todo["finalizer"][3].op = "unref" /\ 3 \in DOMAIN todo["finalizer"]
      BY <1>3 DEF Of
    <3> QED
      BY <3>1 DEF Pending
  <2>3. Holding' = Holding
    BY <1>2 DEF Holding
  <2> QED
    BY <1>2, <2>1, <2>2, <2>3, RegistryHeld DEF IInv
<1>11. \A p \in Objects : /\ object'[p].st \in {"none", "live", "finalizing"} /\ object'[p].of \in 1 .. made
                          /\ object[p].st = "none" => object'[p].st = "none"
  BY <1>2, <1>5 DEF ShapeInv
<1>12. object' = [p \in Objects |-> object'[p]] /\ S'.index = S.index /\ S'.env = S.env
  BY <1>2, <1>5
<1> HIDE DEF new
<1> QED
  BY <1>1, <1>2, <1>4, <1>7, <1>9, <1>10, <1>11, <1>12, FinalizerGoesOn

LEMMA FinalizerLooks ==
  ASSUME IInv, IfOpen("finalizer")
  PROVE  IInv'
<1>1. PICK d : Balanced(todo["main"], d) /\ Held(d[1])
  BY MonitorWitness
<1>2. /\ Op("finalizer", "ifOpen")
      /\ UNCHANGED <<states, made, open, stateId, S, object, monitor>>
  BY DEF IfOpen
<1>3. PICK o \in Objects :
        /\ Finalizes(o) /\ Arg("finalizer").o = o
        /\ todo["finalizer"] = <<Of("ifOpen", o), Of("unref", o), Do("unlock")>>
        /\ \A g : FinalizerHolds(g) <=> g = object[o].of
  <2>1. Busy("finalizer") /\ Head(todo["finalizer"]).op = "ifOpen"
    BY <1>2 DEF Op
  <2>2. FinalizerInv
    BY DEF IInv
  <2> QED
    BY <2>1, <2>2, FinalizerAt DEF Op
<1> DEFINE new == IF object[o].of = made /\ open THEN <<Of("unref", o), Do("unlock")>> ELSE <<Do("unlock")>>
<1>4. FinalizerGoes(new)
  <2> DEFINE s == todo["finalizer"]
             T == {Of("ifOpen", o), Of("unref", o), Do("unlock")}
  <2>1. /\ Of("ifOpen", o).op = "ifOpen" /\ Of("unref", o).op = "unref" /\ Do("unlock").op = "unlock"
    BY DEF Do, Of
  <2>2. Tail(s) = <<Of("unref", o), Do("unlock")>>
    BY <1>3
  <2>3. UpToUnlock(s) = <<Do("unlock")>>
    <3> DEFINE I == {i \in 1 .. Len(s) : s[i].op = "unlock"}
    <3>1. Len(s) = 3 /\ s[1].op = "ifOpen" /\ s[2].op = "unref" /\ s[3] = Do("unlock") /\ s \in Seq(T)
      BY <1>3, <2>1
    <3>2. \A i \in 1 .. 3 : i = 1 \/ i = 2 \/ i = 3
      OBVIOUS
    <3>3. I = {3}
      BY <2>1, <3>1, <3>2
    <3>4. Min(I) = 3
      BY <3>3 DEF Min
    <3>5. UpToUnlock(s) = SubSeq(s, 3, 3)
      BY <3>1, <3>3, <3>4 DEF UpToUnlock, SelectInSeq
    <3>6. SubSeq(s, 3, 3) \in Seq(T) /\ Len(SubSeq(s, 3, 3)) = 1 /\ SubSeq(s, 3, 3)[1] = Do("unlock")
      BY <3>1, SubSeqProperties
    <3> DEFINE r == SubSeq(s, 3, 3)
    <3>7. r \in Seq(T) /\ Len(r) = 1 /\ r[1] = Do("unlock")
      BY <3>6
    <3> HIDE DEF r, T
    <3>8. r = <<Do("unlock")>>
      BY <3>7
    <3> QED
      BY <3>5, <3>8 DEF r
  <2> QED
    BY <1>2, <1>3, <2>2, <2>3 DEF IfOpen, Target, FinalizerGoes
<1>5. ShapeInv /\ object = [p \in Objects |-> object[p]]
  BY DEF IInv, ShapeInv
<1>6. todo'["finalizer"] = new /\ todo'["main"] = todo["main"]
  BY <1>4, <1>5, FinalizerGone
<1>7. FinalizerInv' /\ \A g : FinalizerHolds(g)' <=> g = object[o].of
  <2>1. \/ new = <<Of("unref", o), Do("unlock")>> /\ open' /\ object[o].of = made'
        \/ new = <<Do("unlock")>>
    BY <1>2
  <2> HIDE DEF new
  <2> QED
    BY <1>2, <1>3, <1>6, <2>1, BlockOf DEF Finalizes
<1>8. Held(d[1])'
  BY <1>1, <1>2, <1>3, <1>7 DEF Held
<1>9. RegInv' /\ RefsKept'
  <2>1. Rest(S, S')
    BY <1>2 DEF Rest
  <2>2. \A p : Pending(p)
    <3>1. todo["finalizer"][2].op = "unref" /\ 2 \in DOMAIN todo["finalizer"]
      BY <1>3 DEF Of
    <3> QED
      BY <3>1 DEF Pending
  <2>3. Holding' = Holding
    BY <1>2 DEF Holding
  <2> QED
    BY <1>2, <2>1, <2>2, <2>3, RegistryHeld DEF IInv
<1>10. \A p \in Objects : /\ object'[p].st \in {"none", "live", "finalizing"} /\ object'[p].of \in 1 .. made
                          /\ object[p].st = "none" => object'[p].st = "none"
  BY <1>2, <1>5 DEF ShapeInv
<1>11. object' = [p \in Objects |-> object'[p]] /\ S'.index = S.index /\ S'.env = S.env
  BY <1>2, <1>5
<1> HIDE DEF new
<1> QED
  BY <1>1, <1>2, <1>4, <1>7, <1>8, <1>9, <1>10, <1>11, FinalizerGoesOn

LEMMA FinalizerReleases ==
  ASSUME IInv, UnRef("finalizer")
  PROVE  IInv'
<1>1. PICK d : Balanced(todo["main"], d) /\ Held(d[1])
  BY MonitorWitness
<1>2. PICK o \in Objects :
        /\ Finalizes(o) /\ Arg("finalizer").o = o
        /\ todo["finalizer"] = <<Of("unref", o), Do("unlock")>>
        /\ \A g : FinalizerHolds(g) <=> g = object[o].of
  <2>1. Busy("finalizer") /\ Head(todo["finalizer"]).op = "unref"
    BY DEF UnRef, Op
  <2>2. FinalizerInv
    BY DEF IInv
  <2> QED
    BY <2>1, <2>2, FinalizerAt DEF Op
<1> DEFINE t == Unref(S, object[o].ref)
           new == <<Do("unlock")>>
<1>3. /\ \E D : S' = FromCPtr(t, "finalizer", D)
      /\ Go("finalizer") /\ UNCHANGED <<states, made, open, stateId, object, monitor>>
  BY <1>2 DEF UnRef, Native
<1>4. FinalizerGoes(new)
  <2>1. Tail(todo["finalizer"]) = new
    BY <1>2
  <2>2. <<>> \o new = new
    BY ConcatEmptySeq
  <2> HIDE DEF new
  <2> QED
    BY <1>3, <2>1, <2>2 DEF Go, Then, FinalizerGoes
<1>5. ShapeInv /\ object = [p \in Objects |-> object[p]]
  BY DEF IInv, ShapeInv
<1>6. todo'["finalizer"] = new /\ todo'["main"] = todo["main"]
  BY <1>4, <1>5, FinalizerGone
<1>7. FinalizerInv' /\ \A g : FinalizerHolds(g)' <=> g = object[o].of
  BY <1>2, <1>3, <1>6, BlockOf DEF Finalizes
<1>8. open /\ object[o].of = made
  BY <1>2 DEF Finalizes, Of
<1>9. Held(d[1])'
  BY <1>1, <1>2, <1>3, <1>7 DEF Held
<1>10. ~InsideLua("main")
  <2>1. d[1] = 0
    <3>1. 1 \in 1 .. Len(todo["main"]) + 1
      BY <1>5, LenProperties DEF ShapeInv
    <3> QED
      BY <1>1, <1>2, <1>8, <3>1 DEF Held, Balanced, Depths
  <2>2. \A k \in DOMAIN todo["main"] : 1 \in 1 .. k
    BY <1>5, LenProperties DEF ShapeInv
  <2> QED
    BY <1>1, <2>1, <2>2 DEF InsideLua, Balanced
<1>11. S'.reg = t.reg /\ S'.free = t.free /\ S'.index = S.index
  <2>1. S'.reg = t.reg /\ S'.free = t.free /\ S'.index = t.index
    BY <1>3, CallRests DEF Rest
  <2>2. t.index = S.index
    BY DEF Unref
  <2> QED
    BY <2>1, <2>2
<1>12. RegInv' /\ RefsKept'
  <2>1. Holding' = Holding /\ o \in Holding
    BY <1>2, <1>3, <1>8 DEF Holding, Finalizes
  <2>2. \A p : Pending(p)
    <3>1. todo["finalizer"][1].op = "unref" /\ 1 \in DOMAIN todo["finalizer"]
      BY <1>2 DEF Of
    <3> QED
      BY <3>1 DEF Pending
  <2>3. ~Pending(o)'
    <3>1. object[o].st = "finalizing"
      BY <1>2 DEF Finalizes
    <3> QED
      BY <1>3, <1>6, <3>1 DEF Pending, Do
  <2> QED
    BY <1>3, <1>11, <2>1, <2>2, <2>3, RefReleased DEF IInv
<1>13. \A p \in Objects : /\ object'[p].st \in {"none", "live", "finalizing"} /\ object'[p].of \in 1 .. made
                          /\ object[p].st = "none" => object'[p].st = "none"
  BY <1>3, <1>5 DEF ShapeInv
<1>14. object' = [p \in Objects |-> object'[p]]
  BY <1>3, <1>5
<1> HIDE DEF new, t
<1> QED
  BY <1>1, <1>3, <1>4, <1>7, <1>9, <1>10, <1>11, <1>12, <1>13, <1>14, FinalizerGoesOn

LEMMA FinalizerUnlocks ==
  ASSUME IInv, Unlock("finalizer")
  PROVE  IInv'
<1>1. PICK d : Balanced(todo["main"], d) /\ Held(d[1])
  BY MonitorWitness
<1>2. PICK o \in Objects :
        /\ Finalizes(o) /\ Holder("finalizer") = object[o].of
        /\ todo["finalizer"] = <<Do("unlock")>>
        /\ \A g : FinalizerHolds(g) <=> g = object[o].of
  <2>1. Busy("finalizer") /\ Head(todo["finalizer"]).op = "unlock"
    BY DEF Unlock, Op
  <2>2. FinalizerInv
    BY DEF IInv
  <2> QED
    BY <2>1, <2>2, FinalizerAt DEF Op
<1>3. \A p \in Objects : object[p].st = "finalizing" <=> p = o
  BY <1>2 DEF Finalizes
<1>4. /\ Exit(object[o].of) /\ Go("finalizer")
      /\ object' = [p \in Objects |-> IF p = o THEN NoObject ELSE object[p]]
      /\ UNCHANGED <<states, made, open, stateId, S>>
  BY <1>2, <1>3 DEF Unlock
<1>5. FinalizerGoes(<<>>)
  <2>1. Tail(todo["finalizer"]) = <<>>
    BY <1>2
  <2>2. <<>> \o <<>> = <<>>
    BY ConcatEmptySeq
  <2> QED
    BY <1>4, <2>1, <2>2 DEF Go, Then, FinalizerGoes
<1>6. ShapeInv /\ made \in 1 .. MaxStates /\ object[o].of \in 1 .. made
  BY DEF IInv, ShapeInv
<1>7. todo'["finalizer"] = <<>> /\ todo'["main"] = todo["main"]
  BY <1>5, <1>6, FinalizerGone
<1>8. /\ \A p \in Objects : /\ object'[p].st \in {"none", "live", "finalizing"}
                            /\ object'[p].of \in 1 .. made
                            /\ object'[p].st # "finalizing"
                            /\ object[p].st = "none" => object'[p].st = "none"
      /\ object' = [p \in Objects |-> object'[p]]
  <2>1. NoObject.st = "none" /\ NoObject.of = 1 /\ 1 \in 1 .. made
    BY <1>6 DEF NoObject
  <2> QED
    BY <1>3, <1>4, <1>6, <2>1 DEF ShapeInv
<1>9. FinalizerInv' /\ \A g : ~FinalizerHolds(g)'
  BY <1>7, <1>8 DEF FinalizerInv, FinalizerHolds, Busy
<1>10. Held(d[1])'
  <2> DEFINE g0 == object[o].of
  <2>1. g0 \in 1 .. MaxStates /\ ~(g0 = made /\ d[1] > 0)
    <3>1. g0 \in 1 .. MaxStates
      BY <1>6, LuaJavaAssumption
    <3>2. d[1] > 0 => ~FinalizerHolds(made)
      BY <1>1 DEF Held
    <3> QED
      BY <1>2, <3>1, <3>2
  <2>2. monitor = [g \in 1 .. MaxStates |->
          IF g = made /\ d[1] > 0 THEN [by |-> "main", n |-> d[1]]
          ELSE IF g = g0 THEN [by |-> "finalizer", n |-> 1]
          ELSE [by |-> Nobody, n |-> 0]]
    BY <1>1, <1>2 DEF Held
  <2>3. monitor' = [monitor EXCEPT ![g0] = [by |-> Nobody, n |-> 0]]
    <3>1. monitor[g0].n = 1
      BY <2>1, <2>2
    <3>2. monitor' = [monitor EXCEPT ![g0] = [by |-> IF @.n = 1 THEN Nobody ELSE @.by, n |-> @.n - 1]]
      BY <1>4 DEF Exit
    <3> QED
      BY <3>1, <3>2
  <2> HIDE DEF g0
  <2>4. monitor' = [g \in 1 .. MaxStates |->
          IF g = made' /\ d[1] > 0 THEN [by |-> "main", n |-> d[1]]
          ELSE [by |-> Nobody, n |-> 0]]
    BY <1>4, <2>1, <2>2, <2>3
  <2> QED
    BY <1>9, <2>4 DEF Held
<1>11. RegInv' /\ RefsKept'
  <2>1. Rest(S, S') /\ S'.index = S.index /\ S'.env = S.env
    BY <1>4 DEF Rest
  <2>2. ASSUME NEW p \in Holding', Pending(p)'
        PROVE  /\ p \in Holding /\ Pending(p)
               /\ object'[p].ref = object[p].ref /\ object'[p].val = object[p].val
    <3>1. p \in Objects /\ object'[p].st = "live"
      BY <1>7, <2>2 DEF Holding, Pending
    <3>2. p # o
      BY <1>4, <3>1 DEF NoObject
    <3>3. object'[p] = object[p]
      BY <1>4, <3>1, <3>2
    <3> QED
      BY <1>4, <2>2, <3>1, <3>3 DEF Holding, Pending
  <2> QED
    BY <2>1, <2>2, RegistryHeld DEF IInv
<1>12. S'.index = S.index /\ S'.env = S.env
  BY <1>4
<1> QED
  BY <1>1, <1>4, <1>5, <1>8, <1>9, <1>10, <1>11, <1>12, FinalizerGoesOn

(* Java drops a LuaObject.                                                 *)
LEMMA FinalizeKeeps ==
  ASSUME IInv, NEW o \in Objects, Finalize(o)
  PROVE  IInv'
<1>1. PICK d : Balanced(todo["main"], d) /\ Held(d[1])
  BY MonitorWitness
<1> DEFINE new == <<Do("lock"), Of("ifOpen", o), Of("unref", o), Do("unlock")>>
<1>2. /\ object[o].st = "live" /\ ~Busy("finalizer")
      /\ object' = [object EXCEPT ![o].st = "finalizing"]
      /\ todo' = [todo EXCEPT !["finalizer"] = FinalizeOf(o)]
      /\ UNCHANGED <<states, made, open, stateId, S, monitor>>
  BY DEF Finalize
<1>3. ShapeInv /\ object = [p \in Objects |-> object[p]]
  BY DEF IInv, ShapeInv
<1>4. FinalizeOf(o) = new
  <2> DEFINE T == {Do("lock"), Of("ifOpen", o), Of("unref", o), Do("unlock")}
             a == <<Do("lock")>>
             b == <<Of("ifOpen", o), Of("unref", o)>>
             c == <<Do("unlock")>>
             z == (a \o b) \o c
  <2>1. /\ Do("lock") \in T /\ Of("ifOpen", o) \in T /\ Of("unref", o) \in T /\ Do("unlock") \in T
    OBVIOUS
  <2>2. FinalizeOf(o) = z
    BY DEF FinalizeOf, Synchronized
  <2> HIDE DEF T
  <2>3. /\ z \in Seq(T) /\ Len(z) = 4 /\ z[1] = Do("lock") /\ z[2] = Of("ifOpen", o)
        /\ z[3] = Of("unref", o) /\ z[4] = Do("unlock")
    BY <2>1
  <2> HIDE DEF z
  <2>4. z = new
    BY <2>1, <2>3
  <2> QED
    BY <2>2, <2>4
<1>5. FinalizerGoes(new)
  BY <1>2, <1>4 DEF FinalizerGoes
<1>6. todo'["finalizer"] = new /\ todo'["main"] = todo["main"]
  BY <1>3, <1>5, FinalizerGone
<1>7. object' = [p \in Objects |-> IF p = o THEN [object[o] EXCEPT !.st = "finalizing"] ELSE object[p]]
  BY <1>2, <1>3
<1>8. /\ object'[o].st = "finalizing"
      /\ object'[o].of = object[o].of /\ object'[o].ref = object[o].ref /\ object'[o].val = object[o].val
      /\ \A p \in Objects \ {o} : object'[p] = object[p]
  <2>1. object'[o] = [object[o] EXCEPT !.st = "finalizing"]
    BY <1>7
  <2>2. \A p \in Objects \ {o} : object'[p] = object[p]
    BY <1>7
  <2>3. [object[o] EXCEPT !.st = "finalizing"].st = "finalizing"
    OBVIOUS
  <2> QED
    BY <2>1, <2>2, <2>3
<1>9. todo["finalizer"] = <<>> /\ \A p \in Objects : object[p].st # "finalizing"
  BY <1>2 DEF IInv, FinalizerInv, Finalizes, Busy
<1>10. new # <<>> /\ Head(new).op = "lock"
  BY DEF Do
<1>11. FinalizerInv'
  <2>1. \A p \in Objects : object'[p].st = "finalizing" <=> p = o
    BY <1>8, <1>9
  <2>2. Finalizes(o)'
    BY <1>6, <1>10, <2>1 DEF Finalizes
  <2> QED
    BY <2>2 DEF FinalizerInv
<1> HIDE DEF new
<1>12. Held(d[1])'
  <2>1. \A g : ~FinalizerHolds(g) /\ ~FinalizerHolds(g)'
    BY <1>6, <1>9, <1>10 DEF FinalizerHolds
  <2> QED
    BY <1>1, <1>2, <2>1 DEF Held
<1>13. RegInv' /\ RefsKept'
  <2>1. Rest(S, S')
    BY <1>2 DEF Rest
  <2>2. ASSUME NEW p \in Holding'
        PROVE  /\ p \in Holding /\ Pending(p)
               /\ object'[p].ref = object[p].ref /\ object'[p].val = object[p].val
    <3>1. p \in Objects /\ object'[p].st # "none" /\ object'[p].of = made /\ open
      BY <1>2 DEF Holding
    <3>2. CASE p = o
      BY <1>2, <1>8, <3>1, <3>2 DEF Holding, Pending
    <3>3. CASE p # o
      <4>1. object'[p] = object[p]
        BY <1>8, <3>1, <3>3
      <4>2. object[p].st = "live"
        BY <1>3, <1>9, <3>1, <4>1 DEF ShapeInv
      <4> QED
        BY <3>1, <4>1, <4>2 DEF Holding, Pending
    <3> QED
      BY <3>2, <3>3
  <2> QED
    BY <2>1, <2>2, RegistryHeld DEF IInv
<1>14. /\ \A p \in Objects : /\ object'[p].st \in {"none", "live", "finalizing"}
                             /\ object'[p].of \in 1 .. made
                             /\ object[p].st = "none" => object'[p].st = "none"
       /\ object' = [p \in Objects |-> object'[p]]
  <2>1. \A p \in Objects : object[p].st \in {"none", "live", "finalizing"} /\ object[p].of \in 1 .. made
    BY <1>3 DEF ShapeInv
  <2>2. object' = [p \in Objects |-> object'[p]]
    BY <1>7
  <2> QED
    BY <1>2, <1>8, <2>1, <2>2
<1>15. S'.index = S.index /\ S'.env = S.env
  BY <1>2
<1> QED
  BY <1>1, <1>2, <1>5, <1>11, <1>12, <1>13, <1>14, <1>15, FinalizerGoesOn

(* What the finalizer thread does.                                         *)
LEMMA FinalizerMoves ==
  ASSUME IInv, NativeStep("finalizer")
  PROVE  Lock("finalizer") \/ Unlock("finalizer") \/ IfOpen("finalizer") \/ UnRef("finalizer")
<1>1. Busy("finalizer") => Head(todo["finalizer"]).op \in {"lock", "ifOpen", "unref", "unlock"}
  BY FinalizerCalls DEF IInv
<1>2. ~StackOp("finalizer") /\ ~PushOp("finalizer") /\ ~GetGlobal("finalizer") /\ ~SetGlobal("finalizer")
  BY <1>1 DEF StackOp, PushOp, GetGlobal, SetGlobal, Op
<1>3. /\ ~SetTopZero("finalizer") /\ ~LoadString("finalizer") /\ ~GetField("finalizer")
      /\ \A v : ~GetTable("finalizer", v)
  BY <1>1 DEF SetTopZero, LoadString, GetField, GetTable, Op
<1>4. /\ ~PushObject("finalizer") /\ ~Check("finalizer") /\ ~LeaveBlock("finalizer")
      /\ ~GetObject("finalizer") /\ \A u, kind : ~PushJavaObject("finalizer", u, kind)
  BY <1>1 DEF PushObject, Check, LeaveBlock, GetObject, PushJavaObject, Op
<1>5. ~PushObjectValue("finalizer") /\ ~RegisterValue("finalizer") /\ ~Pcall("finalizer")
  BY <1>1 DEF PushObjectValue, RegisterValue, Pcall, Op
<1> QED
  BY <1>2, <1>3, <1>4, <1>5 DEF NativeStep

LEMMA FinalizerKeeps ==
  ASSUME IInv, NativeStep("finalizer")
  PROVE  IInv'
  BY FinalizerMoves, FinalizerLocks, FinalizerUnlocks, FinalizerLooks, FinalizerReleases

-----------------------------------------------------------------------------
(* Closing a state and making the next                                     *)

LEMMA Least ==
  ASSUME NEW I \in SUBSET Nat, I # {}
  PROVE  Min(I) \in I
<1> DEFINE R == OpToRel(<, Nat)
<1>1. IsWellFoundedOn(R, Nat)
  BY NatLessThanWellFounded
<1>2. \A x, y \in Nat : <<x, y>> \in R <=> x < y
  BY DEF OpToRel
<1> HIDE DEF R
<1>3. PICK m \in I : \A k \in I : ~(<<k, m>> \in R)
  BY <1>1, WFMin
<1>4. ASSUME NEW k \in I PROVE m <= k
  <2>1. ~(k < m)
    BY <1>2, <1>3
  <2> QED
    BY <2>1
<1>5. \E x \in I : \A y \in I : x <= y
  BY <1>4
<1> QED
  BY <1>5 DEF Min

(* What InsertAt puts where.                                               *)
LEMMA Inserted ==
  ASSUME NEW s \in Seq(Nat), NEW q \in 1 .. Len(s) + 1, NEW x \in Nat
  PROVE  /\ InsertAt(s, q, x) \in Seq(Nat) /\ q \in DOMAIN InsertAt(s, q, x)
         /\ InsertAt(s, q, x)[q] = x
<1> DEFINE a == SubSeq(s, 1, q - 1)
           b == SubSeq(s, q, Len(s))
<1>1. Len(s) \in Nat /\ \A i \in 1 .. Len(s) : s[i] \in Nat
  BY LenProperties, ElementOfSeq
<1>2. a \in Seq(Nat) /\ Len(a) = q - 1
  BY <1>1, SubSeqProperties
<1>3. b \in Seq(Nat)
  BY <1>1, SubSeqProperties
<1> HIDE DEF a, b
<1> DEFINE c == a \o <<x>>
<1>4. c \in Seq(Nat) /\ Len(c) = q /\ c[q] = x
  BY <1>2
<1> HIDE DEF c
<1>5. /\ c \o b \in Seq(Nat) /\ Len(c \o b) = q + Len(b) /\ Len(b) \in Nat
      /\ (c \o b)[q] = x
  BY <1>3, <1>4
<1>6. InsertAt(s, q, x) = c \o b
  BY DEF InsertAt, a, b, c
<1> HIDE DEF c
<1> QED
  BY <1>5, <1>6

(* The list of states has room at the next index.                          *)
LEMMA NextIndex ==
  ASSUME states \in Seq(Nat)
  PROVE  NextStateIndex + 1 \in 1 .. Len(states) + 1 /\ NextStateIndex \in Nat
<1> DEFINE s == states \o <<0>>
           I == {i \in 1 .. Len(s) : s[i] = 0}
<1>1. Len(states) \in Nat /\ Len(s) = Len(states) + 1 /\ s[Len(states) + 1] = 0
  OBVIOUS
<1> HIDE DEF s
<1>2. Len(states) + 1 \in I /\ I \in SUBSET Nat
  BY <1>1
<1>3. Min(I) \in I
  BY <1>2, Least
<1>4. NextStateIndex = Min(I) - 1
  BY <1>2 DEF NextStateIndex, SelectInSeq, s
<1>5. Min(I) \in 1 .. Len(states) + 1
  BY <1>1, <1>3
<1> HIDE DEF I
<1> QED
  BY <1>1, <1>4, <1>5

(* Between methods the main thread holds nothing.                          *)
LEMMA AtRest ==
  ASSUME IInv, ~Busy("main")
  PROVE  \E d : Balanced(todo["main"], d) /\ Held(d[1]) /\ d[1] = 0
<1>1. PICK d : Balanced(todo["main"], d) /\ Held(d[1])
  BY MonitorWitness
<1>2. Len(todo["main"]) = 0
  BY DEF Busy
<1>3. d[1] = 0
  BY <1>1, <1>2 DEF Balanced, Depths
<1> QED
  BY <1>1, <1>3

LEMMA CloseKeeps ==
  ASSUME IInv, Close
  PROVE  IInv'
<1>1. PICK d : Balanced(todo["main"], d) /\ Held(d[1]) /\ d[1] = 0
  BY AtRest DEF Close
<1>2. /\ open /\ ~Busy("main") /\ CanEnter("main", made) /\ open' = FALSE
      /\ states' = InsertAt(states, stateId + 1, 0)
      /\ S' = [S EXCEPT !.ud = <<>>, !.stk = <<>>]
      /\ UNCHANGED <<made, stateId, object, todo, monitor>>
  BY DEF Close, RemoveLuaState
<1>3. ShapeInv /\ FinalizerInv /\ StatesInv /\ RegInv /\ MakesInv
  BY DEF IInv
<1>4. ~FinalizerHolds(made)
  <2>1. made \in 1 .. MaxStates
    BY <1>3 DEF ShapeInv
  <2>2. monitor[made].by = IF FinalizerHolds(made) THEN "finalizer" ELSE Nobody
    BY <1>1, <2>1 DEF Held
  <2> QED
    BY <1>2, <2>2 DEF CanEnter, Nobody
<1>5. FinalizerInv'
  <2>1. ASSUME NEW o \in Objects, Finalizes(o) PROVE Finalizes(o)'
    <3>1. Head(todo["finalizer"]).op # "unref"
      BY <1>4, <2>1 DEF Finalizes, FinalizerHolds, Busy
    <3> QED
      BY <1>2, <2>1, <3>1 DEF Finalizes
  <2> QED
    BY <1>2, <1>3, <2>1 DEF FinalizerInv
<1>6. MonitorInv'
  <2>1. \A g : FinalizerHolds(g)' <=> FinalizerHolds(g)
    BY <1>2 DEF FinalizerHolds, Busy
  <2>2. Held(d[1])'
    BY <1>1, <1>2, <2>1 DEF Held
  <2> QED
    BY <1>1, <1>2, <2>2, MonitorGoes
<1>7. ShapeInv'
  BY <1>2, <1>3 DEF ShapeInv, Busy
<1>8. S'.reg = S.reg /\ S'.free = S.free /\ S'.index = S.index
  BY <1>2
<1>9. Holding' = {}
  BY <1>2 DEF Holding
<1>10. RegInv' /\ RefsKept'
  <2>1. \A F : FreeList(S', F) <=> FreeList(S, F)
    BY <1>8 DEF FreeList
  <2>2. RegInv'
    BY <1>3, <1>8, <1>9, <2>1 DEF RegInv
  <2> QED
    BY <1>9, <2>2 DEF RefsKept
<1>11. StatesInv'
  <2>1. PICK q \in 1 .. Len(states) + 1 : q = stateId + 1
    BY <1>2, <1>3 DEF StatesInv
  <2>2. InsertAt(states, q, 0) \in Seq(Nat)
    BY <1>3, Inserted DEF StatesInv
  <2> QED
    BY <1>2, <1>3, <1>8, <2>1, <2>2 DEF StatesInv
<1>12. MakesInv'
  BY <1>2, <1>3 DEF MakesInv
<1>13. EnvIsRunning'
  <2>1. ~InsideLua("finalizer")'
    BY <1>5, FinalizerCalls, PTL
  <2>2. ~InsideLua("main")'
    BY <1>2 DEF InsideLua, Busy
  <2> QED
    BY <2>1, <2>2 DEF EnvIsRunning, Threads
<1> QED
  BY <1>5, <1>6, <1>7, <1>10, <1>11, <1>12, <1>13 DEF IInv

LEMMA NewLuaStateKeeps ==
  ASSUME IInv, NewLuaState
  PROVE  IInv'
<1>1. PICK d : Balanced(todo["main"], d) /\ Held(d[1]) /\ d[1] = 0
  BY AtRest DEF NewLuaState
<1>2. /\ ~open /\ ~Busy("main") /\ made < MaxStates /\ made' = made + 1 /\ open' = TRUE
      /\ stateId' = NextStateIndex /\ states' = InsertAt(states, NextStateIndex + 1, made + 1)
      /\ S' = NewState("main", NextStateIndex)
      /\ UNCHANGED <<object, todo, monitor>>
  BY DEF NewLuaState, Add
<1>3. ShapeInv /\ FinalizerInv /\ StatesInv /\ MakesInv
  BY DEF IInv
<1>4. made \in 1 .. MaxStates /\ made' \in 1 .. MaxStates /\ made \in Nat /\ made' # made
  BY <1>2, <1>3, LuaJavaAssumption DEF ShapeInv
<1>5. \A o \in Objects : object[o].of \in 1 .. made /\ object[o].of \in 1 .. made' /\ object[o].of # made'
  BY <1>2, <1>3, <1>4 DEF ShapeInv
<1>6. FinalizerInv'
  <2>1. ASSUME NEW o \in Objects, Finalizes(o) PROVE Finalizes(o)'
    BY <1>2, <2>1 DEF Finalizes
  <2> QED
    BY <1>2, <1>3, <2>1 DEF FinalizerInv
<1>7. MonitorInv'
  <2>1. \A g : FinalizerHolds(g)' <=> FinalizerHolds(g)
    BY <1>2 DEF FinalizerHolds, Busy
  <2>2. monitor = [g \in 1 .. MaxStates |-> IF FinalizerHolds(g) THEN [by |-> "finalizer", n |-> 1]
                                            ELSE [by |-> Nobody, n |-> 0]]
    BY <1>1 DEF Held
  <2>3. Held(d[1])'
    BY <1>1, <1>2, <2>1, <2>2 DEF Held
  <2> QED
    BY <1>1, <1>2, <2>3, MonitorGoes
<1>8. ShapeInv'
  BY <1>2, <1>3, <1>4, <1>5 DEF ShapeInv, Busy
<1>9. S'.reg = <<>> /\ S'.free = 0 /\ S'.index = NextStateIndex /\ S'.env = "main"
  BY <1>2 DEF NewState
<1>10. Holding' = {}
  BY <1>2, <1>5 DEF Holding
<1>11. RegInv' /\ RefsKept'
  <2>1. Len(S'.reg) = 0 /\ S'.reg = [k \in 1 .. 0 |-> S'.reg[k]]
    BY <1>9
  <2>2. FreeList(S', {})
    BY <1>9 DEF FreeList
  <2>3. RegInv'
    BY <1>10, <2>1, <2>2 DEF RegInv
  <2> QED
    BY <1>10, <2>3 DEF RefsKept
<1>12. StatesInv'
  <2>1. PICK q \in 1 .. Len(states) + 1 : q = NextStateIndex + 1
    BY <1>3, NextIndex DEF StatesInv
  <2>2. made + 1 \in Nat
    BY <1>4
  <2>3. PICK x \in Nat : x = made + 1
    BY <2>2
  <2>4. /\ InsertAt(states, q, x) \in Seq(Nat) /\ q \in DOMAIN InsertAt(states, q, x)
        /\ InsertAt(states, q, x)[q] = x
    BY <1>3, Inserted, ZenonT(60) DEF StatesInv
  <2>5. states' = InsertAt(states, q, x)
    BY <1>2, <2>1, <2>3
  <2> QED
    BY <1>2, <1>9, <2>1, <2>3, <2>4, <2>5 DEF StatesInv
<1>13. MakesInv'
  BY <1>2, <1>3 DEF MakesInv
<1>14. EnvIsRunning'
  <2>1. ~InsideLua("finalizer")'
    BY <1>6, FinalizerCalls, PTL
  <2> QED
    BY <1>9, <2>1 DEF EnvIsRunning, Threads
<1> QED
  BY <1>6, <1>7, <1>8, <1>11, <1>12, <1>13, <1>14 DEF IInv

-----------------------------------------------------------------------------
(* The invariant                                                           *)

LEMMA InitHolds ==
  ASSUME Init
  PROVE  IInv
<1>1. /\ made = 1 /\ open = TRUE /\ stateId = 0 /\ states = <<1>> /\ S = NewState("main", 0)
      /\ object = [o \in Objects |-> NoObject] /\ todo = [j \in Threads |-> <<>>]
      /\ monitor = [g \in 1 .. MaxStates |-> [by |-> Nobody, n |-> 0]]
  BY DEF Init
<1>2. /\ todo["main"] = <<>> /\ todo["finalizer"] = <<>>
      /\ \A o \in Objects : object[o].st = "none" /\ object[o].of = 1
  BY <1>1 DEF Threads, NoObject
<1>3. ShapeInv
  <2>1. made \in 1 .. MaxStates /\ 1 \in 1 .. made
    BY <1>1, LuaJavaAssumption
  <2>2. todo = [j \in Threads |-> todo[j]] /\ object = [o \in Objects |-> object[o]]
    BY <1>1
  <2>3. todo["main"] \in Seq(Entry)
    BY <1>2
  <2> QED
    BY <1>1, <1>2, <2>1, <2>2, <2>3 DEF ShapeInv, Busy
<1>4. FinalizerInv
  BY <1>2 DEF FinalizerInv
<1>5. MonitorInv
  <2> DEFINE d == [i \in 1 .. 1 |-> 0]
  <2>1. Len(todo["main"]) = 0 /\ DOMAIN todo["main"] = {}
    BY <1>2
  <2>2. d \in [1 .. 0 + 1 -> Nat] /\ d[1] = 0 /\ d[0 + 1] = 0
    OBVIOUS
  <2> HIDE DEF d
  <2>3. Balanced(todo["main"], d)
    BY <2>1, <2>2 DEF Balanced, Depths
  <2>4. \A g : ~FinalizerHolds(g)
    BY <1>2 DEF FinalizerHolds, Busy
  <2>5. Held(d[1])
    BY <1>1, <2>2, <2>4 DEF Held
  <2> QED
    BY <2>1, <2>2, <2>3, <2>5 DEF MonitorInv
<1>6. S.reg = <<>> /\ S.free = 0 /\ S.index = 0 /\ S.env = "main"
  BY <1>1 DEF NewState
<1>7. StatesInv
  BY <1>1, <1>6 DEF StatesInv
<1>8. MakesInv
  BY <1>2 DEF MakesInv
<1>9. Holding = {}
  BY <1>2 DEF Holding
<1>10. RegInv
  <2>1. Len(S.reg) = 0 /\ S.reg = [k \in 1 .. 0 |-> S.reg[k]]
    BY <1>6
  <2>2. FreeList(S, {})
    BY <1>6 DEF FreeList
  <2> QED
    BY <1>9, <2>1, <2>2 DEF RegInv
<1>11. RefsKept /\ EnvIsRunning
  BY <1>2, <1>9 DEF RefsKept, EnvIsRunning, InsideLua, Threads
<1> QED
  BY <1>3, <1>4, <1>5, <1>7, <1>8, <1>10, <1>11 DEF IInv

LEMMA MainNever ==
  ASSUME IInv
  PROVE  ~IfOpen("main") /\ ~UnRef("main")
<1>1. Busy("main") => Head(todo["main"]).op \notin {"ifOpen", "unref"}
  <2>1. todo["main"] \in Seq(Entry)
    BY DEF IInv, ShapeInv
  <2>2. \A x \in Entry : x.op \notin {"ifOpen", "unref"}
    BY DEF Entry
  <2> QED
    BY <2>1, <2>2, TailIs DEF Busy
<1> QED
  BY <1>1 DEF IfOpen, UnRef, Op

LEMMA MainKeeps ==
  ASSUME IInv, NativeStep("main") \/ LuaStep("main")
  PROVE  IInv'
<1>1. CASE \/ StackOp("main") \/ PushOp("main") \/ GetGlobal("main") \/ SetGlobal("main")
           \/ SetTopZero("main") \/ GetField("main")
           \/ \E v \in {"nil", "function"} : GetTable("main", v)
           \/ PushObject("main")
           \/ \E u \in FreeUserdata(S), kind \in {"object", "function"} : PushJavaObject("main", u, kind)
           \/ PushObjectValue("main")
  BY <1>1, NativeStepsKeep
<1>2. CASE \/ Lock("main") \/ Unlock("main") \/ LoadString("main") \/ Check("main")
           \/ LeaveBlock("main") \/ GetObject("main")
  BY <1>2, LockKeeps, UnlockKeeps, LoadStringKeeps, CheckKeeps, LeaveBlockKeeps, GetObjectKeeps
<1>3. CASE RegisterValue("main") \/ Pcall("main")
  BY <1>3, RegisterValueKeeps, PcallKeeps
<1>4. ~IfOpen("main") /\ ~UnRef("main")
  BY MainNever
<1>5. ASSUME NativeStep("main") PROVE IInv'
  BY <1>1, <1>2, <1>3, <1>4, <1>5 DEF NativeStep
<1>6. ASSUME NEW v, LuaReturns("main", v) \/ LuaFails("main", v) PROVE IInv'
  BY <1>6, LuaReturnsKeeps, LuaFailsKeeps
<1>7. CASE \/ \E u \in Userdata : ObjectIndex("main", u) \/ ObjectIndexReturn("main", u)
                                  \/ JavaFunctionCall("main", u) \/ CollectUserdata("main", u)
           \/ JavaBindClass("main") \/ ClassIndex("main") \/ JavaNew("main")
           \/ JavaNewInstance("main") \/ JavaLoadLib("main")
           \/ \E o \in Objects : JavaCreateProxy("main", o)
  BY <1>7, CallsFromLua
<1>8. CASE CallbackReturns("main") \/ Throws("main") \/ LuaError("main")
  BY <1>8, CallbackReturnsKeeps, ThrowsKeeps, LuaErrorKeeps
<1>9. ASSUME LuaStep("main") PROVE IInv'
  BY <1>6, <1>7, <1>8, <1>9 DEF LuaStep
<1> QED
  BY <1>5, <1>9

LEMMA Stutters ==
  ASSUME IInv, UNCHANGED vars
  PROVE  IInv'
<1>1. UNCHANGED <<states, made, open, stateId, S, object, todo, monitor>>
  BY DEF vars
<1>2. ShapeInv'
  BY <1>1 DEF IInv, ShapeInv, Busy
<1>3. FinalizerInv'
  <2>1. \A o \in Objects : Finalizes(o) => Finalizes(o)'
    BY <1>1 DEF Finalizes
  <2> QED
    BY <1>1, <2>1 DEF IInv, FinalizerInv
<1>4. StatesInv' /\ MakesInv'
  BY <1>1 DEF IInv, StatesInv, MakesInv
<1>5. MonitorInv'
  <2>1. PICK d : Balanced(todo["main"], d) /\ Held(d[1])
    BY MonitorWitness
  <2>2. \A g : FinalizerHolds(g)' <=> FinalizerHolds(g)
    BY <1>1 DEF FinalizerHolds, Busy
  <2>3. Held(d[1])'
    BY <1>1, <2>1, <2>2 DEF Held
  <2> QED
    BY <1>1, <2>1, <2>3, MonitorGoes
<1>6. /\ S'.reg = S.reg /\ S'.free = S.free /\ S'.env = S.env
      /\ Holding' = Holding /\ \A o : Pending(o)' <=> Pending(o)
  BY <1>1 DEF Holding, Pending
<1>7. RegInv' /\ RefsKept'
  <2>1. \A F : FreeList(S', F) <=> FreeList(S, F)
    BY <1>6 DEF FreeList
  <2>2. RegInv'
    BY <1>1, <1>6, <2>1 DEF IInv, RegInv
  <2>3. RefsKept'
    BY <1>1, <1>6 DEF IInv, RefsKept
  <2> QED
    BY <2>2, <2>3
<1>8. EnvIsRunning'
  BY <1>1 DEF IInv, EnvIsRunning, InsideLua
<1> QED
  BY <1>2, <1>3, <1>4, <1>5, <1>7, <1>8 DEF IInv

(* The invariant holds in every state the bridge can reach.                *)
THEOREM BridgeInvariance == Spec => []IInv
<1>1. Init => IInv
  BY InitHolds
<1>2. IInv /\ [Next]_vars => IInv'
  <2> SUFFICES ASSUME IInv, [Next]_vars PROVE IInv'
    OBVIOUS
  <2>1. CASE \E j \in Threads : NativeStep(j)
    BY <2>1, MainKeeps, FinalizerKeeps DEF Threads
  <2>2. CASE LuaStep("main")
    BY <2>2, MainKeeps
  <2>3. CASE Start
    BY <2>3, StartKeeps
  <2>4. CASE MethodReturns
    BY <2>4, MethodReturnsKeeps
  <2>5. CASE Close
    BY <2>5, CloseKeeps
  <2>6. CASE NewLuaState
    BY <2>6, NewLuaStateKeeps
  <2>7. CASE \E o \in Objects : Finalize(o)
    BY <2>7, FinalizeKeeps
  <2>8. CASE UNCHANGED vars
    BY <2>8, Stutters
  <2> QED
    BY <2>1, <2>2, <2>3, <2>4, <2>5, <2>6, <2>7, <2>8 DEF Next
<1> QED
  BY <1>1, <1>2, PTL DEF Spec

-----------------------------------------------------------------------------
(* Operations of the stack and its height                                  *)

(* U is T with n slots and the same frames.                                *)
Resized(T, U, n) == Slotted(U) /\ U.ci = T.ci /\ U.base = T.base /\ Len(U.stk) = n

LEMMA SlotsAre ==
  ASSUME NEW V, NEW r \in Seq(V)
  PROVE  r \in Seq({r[i] : i \in DOMAIN r}) /\ Len(r) \in Nat
<1>1. Len(r) \in Nat /\ r \in [1 .. Len(r) -> V] /\ DOMAIN r = 1 .. Len(r)
  BY LenProperties
<1> DEFINE W == {r[i] : i \in DOMAIN r}
<1>2. r \in [1 .. Len(r) -> W]
  BY <1>1
<1> HIDE DEF W
<1>3. r \in Seq(W)
  BY <1>1, <1>2
<1> QED
  BY <1>1, <1>3 DEF W

(* A sequence over some values is one over more.                           *)
LEMMA SeqOfMore ==
  ASSUME NEW V, NEW W, V \subseteq W, NEW r \in Seq(V)
  PROVE  r \in Seq(W)
  OBVIOUS

LEMMA WithSlots ==
  ASSUME NEW T, {"stk", "ci", "base"} \subseteq DOMAIN T, NEW V, NEW r \in Seq(V),
         NEW U, U = [T EXCEPT !.stk = r]
  PROVE  Resized(T, U, Len(r))
<1>1. r \in Seq({r[i] : i \in DOMAIN r})
  BY SlotsAre
<1> QED
  BY <1>1 DEF Slotted, Resized

LEMMA SlotsOf ==
  ASSUME NEW T, Slotted(T)
  PROVE  /\ {"stk", "ci", "base"} \subseteq DOMAIN T /\ Len(T.stk) \in Nat
         /\ \E V : T.stk \in Seq(V)
  BY LenProperties DEF Slotted

LEMMA Pushed ==
  ASSUME NEW T, Slotted(T), NEW v
  PROVE  Resized(T, PushValueOf(T, v), Len(T.stk) + 1)
<1>1. PICK V : T.stk \in Seq(V)
  BY SlotsOf
<1>2. T.stk \in Seq(V \cup {v}) /\ v \in V \cup {v}
  BY <1>1, SeqOfMore
<1> DEFINE W == V \cup {v}
           r == Append(T.stk, v)
<1> HIDE DEF W
<1>3. r \in Seq(W) /\ Len(r) = Len(T.stk) + 1
  BY <1>2 DEF W
<1>4. PushValueOf(T, v) = [T EXCEPT !.stk = r]
  BY DEF PushValueOf
<1> HIDE DEF r
<1>5. Resized(T, PushValueOf(T, v), Len(r))
  BY <1>3, <1>4, WithSlots, SlotsOf
<1> QED
  BY <1>3, <1>5

LEMMA NilsAre ==
  ASSUME NEW n \in Int
  PROVE  Nils(n) \in Seq({NilValue}) /\ Len(Nils(n)) = IF n > 0 THEN n ELSE 0
<1>1. CASE n > 0
  <2>1. Nils(n) = [i \in 1 .. n |-> NilValue]
    BY <1>1 DEF Nils
  <2> QED
    BY <1>1, <2>1
<1>2. CASE ~(n > 0)
  BY <1>2 DEF Nils
<1> QED
  BY <1>1, <1>2

(* What stays below a position.                                            *)
LEMMA Cut ==
  ASSUME NEW T, Slotted(T), NEW top \in Int
  PROVE  /\ Slotted(CutTo(T, top)) /\ CutTo(T, top).ci = T.ci /\ CutTo(T, top).base = T.base
         /\ top > 0 => Resized(T, CutTo(T, top), top - 1)
<1>1. PICK V : T.stk \in Seq(V)
  BY SlotsOf
<1>2. Len(T.stk) \in Nat
  BY SlotsOf
<1> DEFINE W == V \cup {NilValue}
<1>3. T.stk \in Seq(W) /\ {NilValue} \subseteq W
  BY <1>1, SeqOfMore
<1> HIDE DEF W
<1>4. ASSUME NEW r \in Seq(W), CutTo(T, top) = [T EXCEPT !.stk = r], top > 0 => Len(r) = top - 1
      PROVE  /\ Slotted(CutTo(T, top)) /\ CutTo(T, top).ci = T.ci /\ CutTo(T, top).base = T.base
             /\ top > 0 => Resized(T, CutTo(T, top), top - 1)
  <2>1. Resized(T, CutTo(T, top), Len(r))
    BY <1>4, WithSlots, SlotsOf
  <2> QED
    BY <1>4, <2>1 DEF Resized
<1>5. CASE top > Len(T.stk)
  <2>1. PICK n \in Nat : n = top - 1 - Len(T.stk)
    <3>1. PICK m \in Nat : m = Len(T.stk)
      BY <1>2
    <3>2. top - 1 - m \in Nat
      BY <1>5, <3>1
    <3> QED
      BY <3>1, <3>2
  <2>2. Nils(n) \in Seq({NilValue}) /\ Len(Nils(n)) = n
    <3>1. n \in Int /\ (IF n > 0 THEN n ELSE 0) = n
      OBVIOUS
    <3> QED
      BY <3>1, NilsAre
  <2>3. Nils(n) \in Seq(W)
    BY <1>3, <2>2, SeqOfMore
  <2>4. T.stk \o Nils(n) \in Seq(W) /\ Len(T.stk \o Nils(n)) = Len(T.stk) + n
    <3>1. PICK r \in Seq(W), q \in Seq(W) : r = T.stk /\ q = Nils(n)
      BY <1>3, <2>3
    <3>2. Len(q) = n
      BY <2>2, <3>1
    <3>3. r \o q \in Seq(W) /\ Len(r \o q) = Len(r) + n
      BY <3>2
    <3> QED
      BY <3>1, <3>3
  <2>5. CutTo(T, top) = [T EXCEPT !.stk = T.stk \o Nils(n)]
    BY <1>5, <2>1 DEF CutTo
  <2>6. Len(T.stk \o Nils(n)) = top - 1
    <3>1. PICK m \in Nat : m = Len(T.stk)
      BY <1>2
    <3>2. m + n = top - 1
      BY <2>1, <3>1
    <3> QED
      BY <2>4, <3>1, <3>2
  <2> QED
    BY <1>4, <2>4, <2>5, <2>6
<1>6. CASE ~(top > Len(T.stk))
  <2>1. SubSeq(T.stk, 1, top - 1) \in Seq(W)
    BY <1>2, <1>3, <1>6
  <2>2. top > 0 => Len(SubSeq(T.stk, 1, top - 1)) = top - 1
    BY <1>2, <1>3, <1>6, SubSeqProperties
  <2>3. CutTo(T, top) = [T EXCEPT !.stk = SubSeq(T.stk, 1, top - 1)]
    BY <1>6 DEF CutTo
  <2> QED
    BY <1>4, <2>1, <2>2, <2>3
<1> QED
  BY <1>5, <1>6

(* lua_pop of one value.                                                   *)
LEMMA PoppedOne ==
  ASSUME NEW T, Slotted(T)
  PROVE  /\ Slotted(Pop(T, 1)) /\ Pop(T, 1).ci = T.ci /\ Pop(T, 1).base = T.base
         /\ Len(T.stk) > 0 => Resized(T, Pop(T, 1), Len(T.stk) - 1)
<1>1. Len(T.stk) \in Nat
  BY SlotsOf
<1>2. Pop(T, 1) = CutTo(T, Len(T.stk))
  <2>1. ~(-1 - 1 >= 0)
    OBVIOUS
  <2>2. Pop(T, 1) = CutTo(T, Top(T) + (-1 - 1) + 1)
    BY <2>1 DEF Pop, SetTop
  <2>3. Top(T) + (-1 - 1) + 1 = Len(T.stk)
    BY <1>1 DEF Top
  <2> QED
    BY <2>2, <2>3
<1>3. PICK n \in Int : n = Len(T.stk)
  BY <1>1
<1>4. /\ Slotted(CutTo(T, n)) /\ CutTo(T, n).ci = T.ci /\ CutTo(T, n).base = T.base
      /\ n > 0 => Resized(T, CutTo(T, n), n - 1)
  BY Cut
<1> QED
  BY <1>2, <1>3, <1>4

(* lua_remove and lua_insert of the slot below the top.                    *)
LEMMA Moved ==
  ASSUME NEW T, Slotted(T), Len(T.stk) > 1
  PROVE  /\ Resized(T, RemoveIndex(T, -2), Len(T.stk) - 1)
         /\ Resized(T, InsertIndex(T, -2), Len(T.stk))
<1>1. PICK V : T.stk \in Seq(V)
  BY SlotsOf
<1> DEFINE s == T.stk
           n == Len(s)
<1>2. s \in Seq(V) /\ n \in Nat /\ n > 1
  BY <1>1, SlotsOf
<1> HIDE DEF n
<1>3. Address(T, -2) = n - 1
  BY <1>2 DEF Address, Top, n
<1>4. /\ SubSeq(s, 1, n - 2) \in Seq(V) /\ Len(SubSeq(s, 1, n - 2)) = n - 2
      /\ SubSeq(s, n, n) \in Seq(V) /\ Len(SubSeq(s, n, n)) = 1
  BY <1>2, SubSeqProperties DEF n
<1>5. Resized(T, RemoveIndex(T, -2), n - 1)
  <2> DEFINE r == SubSeq(s, 1, n - 2) \o SubSeq(s, n, n)
  <2>1. r \in Seq(V) /\ Len(r) = n - 1
    BY <1>2, <1>4, ConcatProperties
  <2>2. RemoveAt(s, n - 1) = r
    BY <1>2 DEF RemoveAt, n
  <2>3. RemoveIndex(T, -2) = [T EXCEPT !.stk = r]
    BY <1>3, <2>2 DEF RemoveIndex
  <2> HIDE DEF r
  <2>4. Resized(T, RemoveIndex(T, -2), Len(r))
    BY <2>1, <2>3, WithSlots, SlotsOf
  <2> QED
    BY <2>1, <2>4
<1>6. Resized(T, InsertIndex(T, -2), n)
  <2> DEFINE q == Front(s)
             x == Last(s)
  <2>1. q \in Seq(V) /\ Len(q) = n - 1 /\ x \in V
    <3>1. s # <<>>
      BY <1>2 DEF n
    <3>2. q = SubSeq(s, 1, n - 1) /\ x = s[n]
      BY <1>2 DEF Front, Last, n
    <3> QED
      BY <1>2, <3>2, SubSeqProperties, ElementOfSeq DEF n
  <2>2. InsertIndex(T, -2) = [T EXCEPT !.stk = InsertAt(q, n - 1, x)]
    BY <1>3 DEF InsertIndex
  <2> HIDE DEF q, x
  <2> DEFINE b == SubSeq(q, 1, n - 2)
             e == SubSeq(q, n - 1, n - 1)
  <2>3. b \in Seq(V) /\ Len(b) = n - 2 /\ e \in Seq(V) /\ Len(e) = 1
    BY <1>2, <2>1, SubSeqProperties
  <2>4. InsertAt(q, n - 1, x) = (b \o <<x>>) \o e
    BY <1>2, <2>1 DEF InsertAt
  <2> HIDE DEF b, e
  <2>5. b \o <<x>> \in Seq(V) /\ Len(b \o <<x>>) = n - 1
    BY <1>2, <2>1, <2>3
  <2> DEFINE c == b \o <<x>>
  <2> HIDE DEF c
  <2>6. c \o e \in Seq(V) /\ Len(c \o e) = n
    <3>1. c \in Seq(V) /\ Len(c) = n - 1
      BY <2>5 DEF c
    <3>2. c \o e \in Seq(V) /\ Len(c \o e) = Len(c) + Len(e)
      BY <2>3, <3>1, ConcatProperties
    <3> QED
      BY <1>2, <2>3, <3>1, <3>2
  <2>7. InsertIndex(T, -2) = [T EXCEPT !.stk = c \o e]
    BY <2>2, <2>4 DEF c
  <2>8. Resized(T, InsertIndex(T, -2), Len(c \o e))
    BY <2>6, <2>7, WithSlots, SlotsOf
  <2> QED
    BY <2>6, <2>8
<1> QED
  BY <1>5, <1>6 DEF n

(* The same stack in another record.                                       *)
LEMMA StackSame ==
  ASSUME NEW T, NEW n \in Nat, NEW v, NEW U, NEW w, StackOf(T, n, v), Slotted(U),
         U.ci = T.ci, U.base = T.base, n = 0 => Len(U.stk) = w
  PROVE  StackOf(U, n, w)
  BY DEF StackOf

LEMMA FrameSeq ==
  ASSUME NEW V, NEW c \in Seq(V)
  PROVE  c \in Seq({c[i] : i \in DOMAIN c}) /\ Len(c) \in Nat /\ DOMAIN c = 1 .. Len(c)
  BY SlotsAre

(* A call leaves what is below its arguments.                              *)
LEMMA FrameBegun ==
  ASSUME NEW T, NEW n \in Nat, NEW v, NEW args \in Nat, StackOf(T, n, v)
  PROVE  LET U == BeginFrame(T, args)
         IN  /\ \A w : StackOf(U, n + 1, w)
             /\ n = 0 => U.ci[2].func = v - args
             /\ n > 0 => U.ci[2].func = T.ci[2].func
<1> DEFINE U == BeginFrame(T, args)
           k == Top(T) - args - 1
           x == [func |-> k, base |-> k + 1, top |-> Top(T) + MinStack]
           V == {T.ci[i] : i \in DOMAIN T.ci}
           c == Append(T.ci, x)
<1>1. Len(T.stk) \in Nat /\ {"stk", "ci", "base"} \subseteq DOMAIN T
  BY SlotsOf DEF StackOf
<1>2. k = Len(T.stk) - args /\ k \in Int
  BY <1>1 DEF Top
<1>3. T.ci \in Seq(V \cup {x}) /\ x \in V \cup {x} /\ Len(T.ci) = n + 1
  <2>1. T.ci \in Seq(V)
    BY DEF StackOf
  <2> HIDE DEF V, x
  <2> QED
    BY <2>1, SeqOfMore DEF StackOf
<1>4. U = [T EXCEPT !.base = k + 1, !.ci = c]
  BY DEF BeginFrame
<1>5. x.func = k
  OBVIOUS
<1> DEFINE W == V \cup {x}
<1> HIDE DEF V, x, W
<1>6. /\ c \in Seq(W) /\ Len(c) = n + 2 /\ DOMAIN c = 1 .. n + 2 /\ c[n + 2] = x
      /\ \A i \in 1 .. n + 1 : c[i] = T.ci[i]
  BY <1>3 DEF W
<1>7. c \in Seq({c[i] : i \in DOMAIN c})
  BY <1>6, SlotsAre
<1>8. \A i \in DOMAIN c : c[i].func \in Int
  <2>1. \A i \in 1 .. n + 1 : T.ci[i].func \in Int
    BY <1>3 DEF StackOf
  <2>2. \A i \in 1 .. n + 2 : i \in 1 .. n + 1 \/ i = n + 2
    OBVIOUS
  <2> QED
    BY <1>2, <1>5, <1>6, <2>1, <2>2
<1>9. c[1].base = 2
  <2>1. 1 \in 1 .. n + 1
    OBVIOUS
  <2> QED
    BY <1>6, <2>1 DEF StackOf
<1> HIDE DEF c, k
<1>10. U.ci = c /\ U.stk = T.stk /\ {"stk", "ci", "base"} \subseteq DOMAIN U
  BY <1>1, <1>4
<1> HIDE DEF U
<1>11. \A w : StackOf(U, n + 1, w)
  <2>1. Slotted(U)
    BY <1>10 DEF Slotted, StackOf
  <2>2. Len(U.ci) = (n + 1) + 1 /\ n + 1 # 0
    BY <1>6, <1>10
  <2> QED
    BY <1>7, <1>8, <1>9, <1>10, <2>1, <2>2 DEF StackOf
<1>12. n = 0 => U.ci[2].func = v - args
  BY <1>2, <1>5, <1>6, <1>10 DEF StackOf
<1>13. n > 0 => U.ci[2].func = T.ci[2].func
  <2>1. n > 0 => 2 \in 1 .. n + 1
    OBVIOUS
  <2> QED
    BY <1>6, <1>10, <2>1
<1> QED
  BY <1>11, <1>12, <1>13 DEF U

(* A return takes the frame down to its function, with all above it.       *)
LEMMA FrameEnded ==
  ASSUME NEW T, NEW n \in Nat, NEW v, NEW V, NEW results \in Seq(V), StackOf(T, n + 1, v)
  PROVE  LET U == EndFrame(T, results)
         IN  /\ n = 0 /\ T.ci[2].func > 0 => StackOf(U, n, T.ci[2].func - 1 + Len(results))
             /\ n > 0 => (\A w : StackOf(U, n, w)) /\ U.ci[2].func = T.ci[2].func
<1> DEFINE U == EndFrame(T, results)
           low == Frame(T).func
           C == CutTo(T, low)
           F == {T.ci[i] : i \in DOMAIN T.ci}
           c == Front(T.ci)
<1>1. /\ T.ci \in Seq(F) /\ Len(T.ci) = n + 2 /\ DOMAIN T.ci = 1 .. n + 2
      /\ \A i \in 1 .. n + 2 : T.ci[i].func \in Int
      /\ T.ci[1].base = 2 /\ Slotted(T)
  <2>1. T.ci \in Seq(F) /\ Len(T.ci) = (n + 1) + 1
    BY DEF StackOf
  <2> HIDE DEF F
  <2>2. DOMAIN T.ci = 1 .. n + 2 /\ Len(T.ci) = n + 2
    BY <2>1
  <2> QED
    BY <2>1, <2>2 DEF StackOf
<1> HIDE DEF F
<1>2. low = T.ci[n + 2].func /\ low \in Int
  <2>1. n + 2 \in 1 .. n + 2
    OBVIOUS
  <2> QED
    BY <1>1, <2>1 DEF Frame, Last
<1>3. /\ c \in Seq(F) /\ Len(c) = n + 1 /\ DOMAIN c = 1 .. n + 1
      /\ \A i \in 1 .. n + 1 : c[i] = T.ci[i]
  <2>1. c = SubSeq(T.ci, 1, (n + 2) - 1)
    BY <1>1 DEF Front
  <2>2. c = SubSeq(T.ci, 1, n + 1)
    BY <2>1
  <2> QED
    BY <1>1, <2>2, SubSeqProperties
<1>4. c \in Seq({c[i] : i \in DOMAIN c})
  BY <1>3, SlotsAre
<1>5. c[1].base = 2 /\ \A i \in DOMAIN c : c[i].func \in Int
  <2>1. 1 \in 1 .. n + 1 /\ \A i \in 1 .. n + 1 : i \in 1 .. n + 2
    OBVIOUS
  <2> QED
    BY <1>1, <1>3, <2>1
<1> HIDE DEF low
<1>6. Slotted(C) /\ C.ci = T.ci /\ (low > 0 => Len(C.stk) = low - 1)
  <2>1. /\ Slotted(CutTo(T, low)) /\ CutTo(T, low).ci = T.ci
        /\ low > 0 => Resized(T, CutTo(T, low), low - 1)
    BY <1>1, <1>2, Cut
  <2> QED
    BY <2>1 DEF Resized
<1> DEFINE r == C.stk \o results
           b == T.ci[Len(T.ci) - 1].base
<1>7. U = [C EXCEPT !.stk = r, !.ci = c, !.base = b]
  BY <1>6 DEF EndFrame, low
<1> HIDE DEF C, c
<1>8. PICK W : r \in Seq(W) /\ Len(r) = Len(C.stk) + Len(results)
  <2>1. PICK X : C.stk \in Seq(X)
    BY <1>6, SlotsOf
  <2>2. C.stk \in Seq(X \cup V) /\ results \in Seq(X \cup V)
    BY <2>1, SeqOfMore
  <2> DEFINE Y == X \cup V
  <2> HIDE DEF Y
  <2>3. C.stk \in Seq(Y) /\ results \in Seq(Y)
    BY <2>2 DEF Y
  <2> QED
    BY <2>3, ConcatProperties
<1>9. r \in Seq({r[i] : i \in DOMAIN r})
  BY <1>8, SlotsAre, ZenonT(60)
<1> HIDE DEF r, b
<1>10. U.stk = r /\ U.ci = c /\ U.base = b /\ {"stk", "ci", "base"} \subseteq DOMAIN U
  BY <1>6, <1>7 DEF Slotted
<1> HIDE DEF U
<1>11. Slotted(U)
  BY <1>9, <1>10 DEF Slotted
<1>12. ASSUME n > 0 PROVE (\A w : StackOf(U, n, w)) /\ U.ci[2].func = T.ci[2].func
  <2>1. 2 \in 1 .. n + 1 /\ n # 0
    BY <1>12
  <2> QED
    BY <1>3, <1>4, <1>5, <1>10, <1>11, <2>1 DEF StackOf
<1>13. ASSUME n = 0, T.ci[2].func > 0
       PROVE  StackOf(U, n, T.ci[2].func - 1 + Len(results))
  <2>1. low = T.ci[2].func /\ low > 0
    BY <1>2, <1>13
  <2>2. b = 2
    BY <1>1, <1>13 DEF b
  <2>3. Len(U.stk) = T.ci[2].func - 1 + Len(results)
    BY <1>6, <1>8, <1>10, <2>1
  <2> QED
    BY <1>3, <1>4, <1>5, <1>10, <1>11, <2>2, <2>3 DEF StackOf
<1> QED
  BY <1>12, <1>13 DEF U

-----------------------------------------------------------------------------
(* Frames and heights                                                      *)

(* The calls a before those of s from k on.                                *)
Put(a, s, k) == a \o SubSeq(s, k, Len(s))

LEMMA PutIs ==
  ASSUME NEW a \in Seq(Entry), NEW s \in Seq(Entry), NEW k \in 1 .. Len(s) + 1
  PROVE  LET t == Put(a, s, k)
             n == Len(a) + 1 - k
         IN  /\ t \in Seq(Entry) /\ Len(t) = Len(s) + n /\ DOMAIN t = 1 .. Len(s) + n
             /\ Len(a) \in Nat /\ DOMAIN a = 1 .. Len(a) /\ Len(s) \in Nat /\ DOMAIN s = 1 .. Len(s)
             /\ \A i \in 1 .. Len(a) : i \in 1 .. Len(t) /\ t[i] = a[i]
             /\ \A j \in k .. Len(s) : j + n \in Len(a) + 1 .. Len(t) /\ t[j + n] = s[j]
             /\ \A i \in 1 .. Len(t) + 1 :
                  i \in 1 .. Len(a) \/ (i - n \in k .. Len(s) + 1 /\ (i \in 1 .. Len(t) => i - n \in k .. Len(s)))
<1> DEFINE r == SubSeq(s, k, Len(s))
<1>1. Len(a) \in Nat /\ DOMAIN a = 1 .. Len(a) /\ Len(s) \in Nat /\ DOMAIN s = 1 .. Len(s)
  BY LenProperties
<1>2. r \in Seq(Entry) /\ Len(r) = Len(s) + 1 - k /\ \A i \in 1 .. Len(r) : r[i] = s[i + k - 1]
  BY <1>1, SubSeqProperties
<1> HIDE DEF r
<1> DEFINE t == a \o r
<1>3. /\ t \in Seq(Entry) /\ Len(t) = Len(a) + Len(r) /\ DOMAIN t = 1 .. Len(t)
      /\ \A i \in 1 .. Len(a) : t[i] = a[i]
      /\ \A i \in 1 .. Len(r) : t[i + Len(a)] = r[i]
  BY <1>2, Concat
<1> HIDE DEF t
<1> DEFINE n == Len(a) + 1 - k
<1>4. Len(t) = Len(s) + n /\ n \in Int /\ k \in Int /\ k >= 1
  BY <1>1, <1>2, <1>3
<1>5. ASSUME NEW j \in k .. Len(s) PROVE j + n \in Len(a) + 1 .. Len(t) /\ t[j + n] = s[j]
  <2>1. j - k + 1 \in 1 .. Len(r) /\ (j - k + 1) + k - 1 = j /\ (j - k + 1) + Len(a) = j + n
    BY <1>1, <1>2, <1>4
  <2>2. r[j - k + 1] = s[j] /\ t[j + n] = r[j - k + 1]
    BY <1>2, <1>3, <2>1
  <2>3. j + n \in Len(a) + 1 .. Len(t)
    BY <1>1, <1>4
  <2> QED
    BY <2>2, <2>3
<1>6. ASSUME NEW i \in 1 .. Len(t) + 1
      PROVE  i \in 1 .. Len(a) \/ (i - n \in k .. Len(s) + 1 /\ (i \in 1 .. Len(t) => i - n \in k .. Len(s)))
  <2>1. Len(s) + n \in Int
    BY <1>1, <1>4
  <2>2. CASE i <= Len(a)
    BY <1>1, <2>2
  <2>3. CASE i > Len(a)
    BY <1>1, <1>4, <2>1, <2>3
  <2> QED
    BY <1>1, <2>2, <2>3
<1>7. \A i \in 1 .. Len(a) : i \in 1 .. Len(t)
  BY <1>1, <1>4
<1>8. Put(a, s, k) = t
  BY DEF Put, t, r
<1> QED
  BY <1>1, <1>3, <1>4, <1>5, <1>6, <1>7, <1>8

(* What is found behind a call is found when the calls have moved by n.    *)
LEMMA FindsMoved ==
  ASSUME NEW s, NEW t, NEW f, NEW g, NEW n \in Int, NEW k \in Nat,
         Len(s) \in Nat, Len(t) = Len(s) + n,
         \A j \in k .. Len(s) : t[j + n] = s[j] /\ g[j + n] = f[j],
         NEW j \in k .. Len(s), NEW op, NEW m, Finds(s, f, j, op, m)
  PROVE  Finds(t, g, j + n, op, m)
<1>1. PICK p \in j + 1 .. Len(s) :
        s[p].op = op /\ f[j] = f[p] + m /\ \A q \in j .. p - 1 : s[q].op # op
  BY DEF Finds
<1>2. p \in k .. Len(s) /\ p + n \in (j + n) + 1 .. Len(t) /\ j \in Int /\ p \in Int
  OBVIOUS
<1>3. t[p + n].op = op /\ g[j + n] = g[p + n] + m
  BY <1>1, <1>2
<1>4. ASSUME NEW q \in j + n .. (p + n) - 1 PROVE t[q].op # op
  <2>1. q - n \in j .. p - 1 /\ q - n \in k .. Len(s) /\ (q - n) + n = q
    BY <1>2
  <2>2. PICK i \in j .. p - 1 : i = q - n
    BY <2>1
  <2>3. i \in k .. Len(s) /\ i + n = q
    BY <2>1, <2>2
  <2>4. t[i + n] = s[i] /\ s[i].op # op
    BY <1>1, <2>3
  <2> QED
    BY <2>3, <2>4
<1> QED
  BY <1>2, <1>3, <1>4 DEF Finds

(* The values c before those f has from k on.                              *)
Over(a, c, s, f, k) ==
  [i \in 1 .. Len(s) + (Len(a) + 1 - k) + 1 |->
     IF i <= Len(a) THEN c[i] ELSE f[i - (Len(a) + 1 - k)]]

LEMMA OverIs ==
  ASSUME NEW a \in Seq(Entry), NEW s \in Seq(Entry), NEW k \in 1 .. Len(s) + 1, NEW c, NEW f
  PROVE  LET g == Over(a, c, s, f, k)
             m == Len(a) + 1 - k
         IN  /\ g = [i \in 1 .. Len(s) + m + 1 |-> g[i]]
             /\ \A i \in 1 .. Len(s) + m + 1 : i \in 1 .. Len(a) \/ i - m \in k .. Len(s) + 1
             /\ \A i \in 1 .. Len(a) : g[i] = c[i]
             /\ \A j \in k .. Len(s) + 1 : g[j + m] = f[j]
             /\ g[Len(a) + 1] = f[k]
<1> DEFINE m == Len(a) + 1 - k
           g == Over(a, c, s, f, k)
<1>1. Len(a) \in Nat /\ Len(s) \in Nat /\ m \in Int /\ k \in Int /\ k >= 1 /\ k <= Len(s) + 1
  BY LenProperties
<1>2. g = [i \in 1 .. Len(s) + m + 1 |-> IF i <= Len(a) THEN c[i] ELSE f[i - m]]
  BY DEF Over
<1>3. ASSUME NEW i \in 1 .. Len(a) PROVE i \in 1 .. Len(s) + m + 1 /\ i <= Len(a)
  BY <1>1
<1>4. ASSUME NEW j \in k .. Len(s) + 1
      PROVE  j + m \in 1 .. Len(s) + m + 1 /\ ~(j + m <= Len(a)) /\ (j + m) - m = j
  BY <1>1
<1>5. ASSUME NEW i \in 1 .. Len(s) + m + 1 PROVE i \in 1 .. Len(a) \/ i - m \in k .. Len(s) + 1
  BY <1>1
<1>6. k \in k .. Len(s) + 1 /\ k + m = Len(a) + 1
  BY <1>1
<1> HIDE DEF g, m
<1>7. \A i \in 1 .. Len(a) : g[i] = c[i]
  BY <1>2, <1>3
<1>8. \A j \in k .. Len(s) + 1 : g[j + m] = f[j]
  BY <1>2, <1>4
<1>9. g = [i \in 1 .. Len(s) + m + 1 |-> g[i]]
  BY <1>2
<1>10. g[Len(a) + 1] = f[k]
  BY <1>6, <1>8
<1> QED
  BY <1>5, <1>7, <1>8, <1>9, <1>10 DEF g, m

(* No frame is left where no Lua code is.                                  *)
LEMMA NoneLeft ==
  ASSUME NEW s \in Seq(Entry), NEW f, Levels(s, f), NEW k \in 1 .. Len(s) + 1, f[k] = 0
  PROVE  \A j \in k .. Len(s) + 1 : f[j] = 0
<1>1. Len(s) \in Nat /\ DOMAIN s = 1 .. Len(s)
  BY LenProperties
<1>2. ASSUME NEW j \in k .. Len(s) PROVE f[j] = 0
  <2>1. k \in DOMAIN s /\ j \in DOMAIN s
    BY <1>1
  <2>2. \A p \in k .. Len(s) : s[p].op # "lua"
    BY <2>1 DEF Levels
  <2>3. \A p \in j .. Len(s) : s[p].op # "lua"
    BY <1>1, <2>2
  <2> QED
    BY <2>1, <2>3 DEF Levels
<1>3. \A j \in k .. Len(s) + 1 : j \in k .. Len(s) \/ j = Len(s) + 1
  BY <1>1
<1> QED
  BY <1>2, <1>3 DEF Levels

(* Calls a that can come before call k of s, n of them taking a frame      *)
(* down, the last.                                                         *)
Fits(a, n, s, f, k) ==
  /\ n \in {0, 1}
  /\ \A i \in DOMAIN a :
       /\ Ends(a[i]) <=> n = 1 /\ i = Len(a)
       /\ Checks(a[i]) => \E p \in i + 1 .. Len(a) :
            a[p].op = "unlock" /\ \A m \in i .. p - 1 : a[m].op # "unlock"
       /\ a[i].op = "method" => /\ n = 1 /\ k \in DOMAIN s /\ s[k].op = "lua"
                                /\ \A m \in DOMAIN a : a[m].op # "lua"
  /\ n = 1 => a # <<>> /\ (a[Len(a)].op = "lua" \/ f[k] > 0)

Level(a, n, s, f, k) == Over(a, [i \in 1 .. Len(a) |-> f[k] + n], s, f, k)

LEMMA LevelsTyped ==
  ASSUME NEW s \in Seq(Entry), NEW f, Levels(s, f)
  PROVE  /\ Len(s) \in Nat /\ DOMAIN s = 1 .. Len(s)
         /\ f \in [1 .. Len(s) + 1 -> Nat] /\ \A i \in 1 .. Len(s) + 1 : f[i] \in Nat
  BY LenProperties DEF Levels

LEMMA LevelIs ==
  ASSUME NEW a \in Seq(Entry), NEW s \in Seq(Entry), NEW f, Levels(s, f),
         NEW k \in 1 .. Len(s) + 1, NEW n \in {0, 1}
  PROVE  LET g == Level(a, n, s, f, k)
             m == Len(a) + 1 - k
         IN  /\ g \in [1 .. Len(s) + m + 1 -> Nat] /\ f[k] \in Nat
             /\ \A i \in 1 .. Len(a) : g[i] = f[k] + n
             /\ \A j \in k .. Len(s) + 1 : g[j + m] = f[j]
             /\ g[Len(a) + 1] = f[k]
<1> DEFINE c == [i \in 1 .. Len(a) |-> f[k] + n]
           m == Len(a) + 1 - k
           g == Level(a, n, s, f, k)
<1>1. (\A i \in 1 .. Len(s) + 1 : f[i] \in Nat) /\ f[k] \in Nat
  BY LevelsTyped
<1>2. (\A i \in 1 .. Len(a) : c[i] \in Nat) /\ \A i \in 1 .. Len(a) : c[i] = f[k] + n
  BY <1>1
<1> HIDE DEF c
<1>3. g = Over(a, c, s, f, k)
  BY DEF Level, c
<1>4. m \in Int /\ k \in Int /\ k >= 1 /\ Len(s) \in Nat
  BY LenProperties
<1> HIDE DEF g, m
<1>5. /\ g = [i \in 1 .. Len(s) + m + 1 |-> g[i]]
      /\ \A i \in 1 .. Len(s) + m + 1 : i \in 1 .. Len(a) \/ i - m \in k .. Len(s) + 1
      /\ \A i \in 1 .. Len(a) : g[i] = c[i]
      /\ \A j \in k .. Len(s) + 1 : g[j + m] = f[j]
      /\ g[Len(a) + 1] = f[k]
  BY <1>3, OverIs DEF m
<1>6. ASSUME NEW i \in 1 .. Len(s) + m + 1 PROVE g[i] \in Nat
  <2>1. CASE i \in 1 .. Len(a)
    BY <1>2, <1>5, <2>1
  <2>2. CASE i - m \in k .. Len(s) + 1
    <3>1. i - m \in 1 .. Len(s) + 1 /\ (i - m) + m = i
      BY <1>4, <2>2
    <3> QED
      BY <1>1, <1>5, <2>2, <3>1
  <2> QED
    BY <1>5, <2>1, <2>2
<1> QED
  BY <1>1, <1>2, <1>5, <1>6 DEF g, m

LEMMA PutLevels ==
  ASSUME NEW a \in Seq(Entry), NEW s \in Seq(Entry), NEW f, Levels(s, f),
         NEW k \in 1 .. Len(s) + 1, NEW n, Fits(a, n, s, f, k)
  PROVE  Levels(Put(a, s, k), Level(a, n, s, f, k))
<1> DEFINE t == Put(a, s, k)
           g == Level(a, n, s, f, k)
           m == Len(a) + 1 - k
<1>0. n \in {0, 1}
  BY DEF Fits
<1>1. /\ t \in Seq(Entry) /\ Len(t) = Len(s) + m /\ DOMAIN t = 1 .. Len(t)
      /\ Len(a) \in Nat /\ DOMAIN a = 1 .. Len(a) /\ Len(s) \in Nat /\ DOMAIN s = 1 .. Len(s)
      /\ \A i \in 1 .. Len(a) : i \in 1 .. Len(t) /\ t[i] = a[i]
      /\ \A j \in k .. Len(s) : j + m \in Len(a) + 1 .. Len(t) /\ t[j + m] = s[j]
      /\ \A i \in 1 .. Len(t) : i \in 1 .. Len(a) \/ i - m \in k .. Len(s)
  <2>1. \A i \in 1 .. Len(t) : i \in 1 .. Len(t) + 1
    BY PutIs
  <2> QED
    BY <2>1, PutIs
<1>2. /\ g \in [1 .. Len(t) + 1 -> Nat] /\ f[k] \in Nat
      /\ \A i \in 1 .. Len(a) : g[i] = f[k] + n
      /\ \A j \in k .. Len(s) + 1 : g[j + m] = f[j]
      /\ g[Len(a) + 1] = f[k]
  <2>1. /\ g \in [1 .. Len(s) + m + 1 -> Nat] /\ f[k] \in Nat
        /\ \A i \in 1 .. Len(a) : g[i] = f[k] + n
        /\ \A j \in k .. Len(s) + 1 : g[j + m] = f[j]
        /\ g[Len(a) + 1] = f[k]
    BY <1>0, LevelIs
  <2>2. Len(t) = Len(s) + m
    BY <1>1
  <2> HIDE DEF g, t, m
  <2> QED
    BY <2>1, <2>2
<1>3. m \in Int /\ k \in Nat /\ k >= 1 /\ k <= Len(s) + 1 /\ Len(t) \in Nat
  BY <1>1, LenProperties
<1> HIDE DEF t, g, m
<1>11. Len(a) \in Nat /\ DOMAIN a = 1 .. Len(a) /\ Len(s) \in Nat /\ DOMAIN s = 1 .. Len(s)
  BY <1>1
<1>4. g[Len(t) + 1] = 0
  <2>1. Len(s) + 1 \in k .. Len(s) + 1 /\ (Len(s) + 1) + m = Len(t) + 1
    BY <1>1, <1>3
  <2>2. f[Len(s) + 1] = 0
    BY DEF Levels
  <2> QED
    BY <1>2, <2>1, <2>2
<1>5. ASSUME NEW i \in 1 .. Len(t)
      PROVE  i \in 1 .. Len(a) \/ \E j \in k .. Len(s) : i = j + m
  <2>1. CASE i - m \in k .. Len(s)
    <3>1. (i - m) + m = i
      BY <1>3
    <3> QED
      BY <2>1, <3>1
  <2> QED
    BY <1>1, <2>1
<1>6. ASSUME NEW i \in 1 .. Len(t) PROVE g[i] = g[i + 1] + (IF Ends(t[i]) THEN 1 ELSE 0)
  <2>1. CASE i \in 1 .. Len(a)
    <3>1. Ends(a[i]) <=> n = 1 /\ i = Len(a)
      BY <1>1, <2>1, Zenon DEF Fits
    <3>2. CASE i = Len(a)
      BY <1>0, <1>1, <1>2, <2>1, <3>1, <3>2
    <3>3. CASE i # Len(a)
      <4>1. i + 1 \in 1 .. Len(a)
        <5>1. Len(a) \in Nat
          BY LenProperties
        <5> QED
          BY ONLY <2>1, <3>3, <5>1
      <4>2. ~Ends(t[i])
        <5>1. t[i] = a[i]
          BY <1>1, <2>1
        <5>2. ~Ends(a[i])
          BY <3>1, <3>3
        <5> QED
          BY ONLY <5>1, <5>2
      <4>3. g[i] = f[k] + n /\ g[i + 1] = f[k] + n /\ f[k] + n \in Nat
        BY <1>0, <1>2, <2>1, <4>1
      <4> QED
        BY <4>2, <4>3
    <3> QED
      BY ONLY <3>2, <3>3, Zenon
  <2>2. ASSUME NEW j \in k .. Len(s), i = j + m PROVE g[i] = g[i + 1] + (IF Ends(t[i]) THEN 1 ELSE 0)
    <3>1. j \in DOMAIN s /\ j \in k .. Len(s) + 1 /\ j + 1 \in k .. Len(s) + 1 /\ (j + 1) + m = i + 1
      BY <1>1, <1>3, <2>2
    <3>2. f[j] = f[j + 1] + (IF Ends(s[j]) THEN 1 ELSE 0)
      BY <3>1 DEF Levels
    <3> QED
      BY <1>1, <1>2, <2>2, <3>1, <3>2
  <2> QED
    BY <1>5, <2>1, <2>2
<1>7. ASSUME NEW j \in k .. Len(s)
      PROVE  f[j] = 0 <=> \A p \in j + m .. Len(t) : t[p].op # "lua"
  <2>1. j \in DOMAIN s /\ (f[j] = 0 <=> \A p \in j .. Len(s) : s[p].op # "lua")
    <3>1. j \in DOMAIN s
      BY <1>1, <1>3
    <3> QED
      BY <3>1 DEF Levels
  <2>2. ASSUME NEW p \in j .. Len(s) PROVE p + m \in j + m .. Len(t) /\ t[p + m] = s[p]
    <3>1. p \in k .. Len(s) /\ p + m \in j + m .. Len(t)
      BY <1>1, <1>3, <2>1
    <3> QED
      BY <1>1, <3>1
  <2>3. ASSUME NEW p \in j + m .. Len(t) PROVE \E q \in j .. Len(s) : p = q + m
    <3>1. p - m \in j .. Len(s) /\ p = (p - m) + m
      BY <1>1, <1>3, <2>1
    <3> QED
      BY <3>1
  <2> QED
    BY <2>1, <2>2, <2>3, SMTT(60)
<1>8. f[k] = 0 <=> \A p \in Len(a) + 1 .. Len(t) : t[p].op # "lua"
  <2>1. CASE k = Len(s) + 1
    <3>1. f[k] = 0
      BY <2>1 DEF Levels
    <3>2. Len(t) = Len(a)
      <4>1. Len(t) = Len(s) + (Len(a) + 1 - k) /\ Len(s) \in Nat /\ Len(a) \in Nat
        BY <1>1 DEF m
      <4> QED
        BY ONLY <2>1, <4>1
    <3> QED
      BY <1>11, <3>1, <3>2
  <2>2. CASE k # Len(s) + 1
    <3>1. k \in k .. Len(s) /\ k + m = Len(a) + 1
      BY <1>1, <1>3, <2>2 DEF m
    <3> QED
      BY <1>7, <3>1
  <2> QED
    BY <2>1, <2>2
<1>9. ASSUME NEW i \in 1 .. Len(t) PROVE g[i] = 0 <=> \A p \in i .. Len(t) : t[p].op # "lua"
  <2>1. CASE i \in 1 .. Len(a)
    <3>1. CASE n = 1
      <4>1. Len(a) \in 1 .. Len(a) /\ Len(a) \in i .. Len(t) /\ \A p \in Len(a) + 1 .. Len(t) : p \in i .. Len(t)
        BY <1>1, <2>1
      <4>2. a[Len(a)].op = "lua" \/ f[k] > 0
        BY <3>1 DEF Fits
      <4>3. \E p \in i .. Len(t) : t[p].op = "lua"
        BY <1>1, <1>8, <4>1, <4>2, <1>2, SMTT(60)
      <4>4. g[i] # 0
        BY <1>2, <2>1, <3>1
      <4> QED
        BY <4>3, <4>4
    <3>2. CASE n # 1
      <4>1. g[i] = f[k]
        BY <1>0, <1>2, <2>1, <3>2
      <4>2. ASSUME NEW p \in i .. Len(t) PROVE p \in Len(a) + 1 .. Len(t) \/ (p \in 1 .. Len(a) /\ t[p].op # "lua")
        <5>1. CASE p <= Len(a)
          <6>1. p \in 1 .. Len(a)
            BY <1>1, <2>1, <5>1
          <6>2. ~Ends(a[p])
            <7>1. Ends(a[p]) <=> n = 1 /\ p = Len(a)
              BY <1>11, <6>1, Zenon DEF Fits
            <7> QED
              BY <3>2, <7>1, Zenon
          <6>3. a[p].op # "lua"
            BY <6>2 DEF Ends
          <6>4. t[p] = a[p]
            BY <1>1, <6>1
          <6> QED
            BY <6>1, <6>3, <6>4
        <5>2. CASE ~(p <= Len(a))
          <6>1. Len(a) \in Nat /\ Len(t) \in Nat /\ p \in i .. Len(t)
            BY <1>3, <1>11
          <6>2. p \in Len(a) + 1 .. Len(t)
            BY ONLY <2>1, <5>2, <6>1
          <6> QED
            BY <6>2
        <5> QED
          BY <5>1, <5>2
      <4>3. \A p \in Len(a) + 1 .. Len(t) : p \in i .. Len(t)
        BY <1>1, <2>1
      <4> QED
        BY <1>8, <4>1, <4>2, <4>3
    <3> QED
      BY <1>0, <3>1, <3>2
  <2>2. ASSUME NEW j \in k .. Len(s), i = j + m PROVE g[i] = 0 <=> \A p \in i .. Len(t) : t[p].op # "lua"
    <3>1. j \in k .. Len(s) + 1
      BY <1>1, <1>3
    <3> QED
      BY <1>2, <1>7, <2>2, <3>1
  <2> QED
    BY <1>5, <2>1, <2>2
<1>10. ASSUME NEW i \in 1 .. Len(t)
       PROVE  /\ Checks(t[i]) => Finds(t, g, i, "unlock", 0)
              /\ t[i].op = "method" => Finds(t, g, i, "lua", 1)
  <2>1. CASE i \in 1 .. Len(a)
    <3>1. ASSUME Checks(t[i]) PROVE Finds(t, g, i, "unlock", 0)
      <4>1. PICK p \in i + 1 .. Len(a) :
              a[p].op = "unlock" /\ \A q \in i .. p - 1 : a[q].op # "unlock"
        BY <1>1, <2>1, <3>1 DEF Fits
      <4>2. p \in 1 .. Len(a) /\ p \in i + 1 .. Len(t) /\ \A q \in i .. p - 1 : q \in 1 .. Len(a)
        BY <1>1, <2>1
      <4>3. t[p].op = "unlock" /\ g[i] = g[p] + 0 /\ \A q \in i .. p - 1 : t[q].op # "unlock"
        BY <1>0, <1>1, <1>2, <2>1, <4>1, <4>2, SMTT(60)
      <4> QED
        BY <4>2, <4>3 DEF Finds
    <3>2. ASSUME t[i].op = "method" PROVE Finds(t, g, i, "lua", 1)
      <4>1. n = 1 /\ k \in DOMAIN s /\ s[k].op = "lua" /\ \A q \in DOMAIN a : a[q].op # "lua"
        BY <1>1, <2>1, <3>2 DEF Fits
      <4>2. k \in k .. Len(s) /\ k + m = Len(a) + 1
        BY <1>1, <1>3, <4>1 DEF m
      <4> DEFINE p == Len(a) + 1
      <4>3. p \in i + 1 .. Len(t) /\ t[p].op = "lua" /\ \A q \in i .. p - 1 : q \in 1 .. Len(a)
        BY <1>1, <2>1, <4>1, <4>2
      <4>4. g[i] = g[p] + 1 /\ \A q \in i .. p - 1 : t[q].op # "lua"
        BY <1>1, <1>2, <2>1, <4>1, <4>3
      <4> QED
        BY <4>3, <4>4 DEF Finds
    <3> QED
      BY <3>1, <3>2
  <2>2. ASSUME NEW j \in k .. Len(s), i = j + m
        PROVE  /\ Checks(t[i]) => Finds(t, g, i, "unlock", 0)
               /\ t[i].op = "method" => Finds(t, g, i, "lua", 1)
    <3>1. j \in DOMAIN s /\ t[i] = s[j]
      BY <1>1, <1>3, <2>2
    <3>2. /\ Checks(s[j]) => Finds(s, f, j, "unlock", 0)
          /\ s[j].op = "method" => Finds(s, f, j, "lua", 1)
      BY <3>1 DEF Levels
    <3>3. \A q \in k .. Len(s) : q \in k .. Len(s) + 1
      BY <1>1
    <3>4. \A q \in k .. Len(s) : t[q + m] = s[q] /\ g[q + m] = f[q]
      BY <1>1, <1>2, <3>3
    <3>5. ASSUME NEW op, NEW v, Finds(s, f, j, op, v) PROVE Finds(t, g, i, op, v)
      BY <1>1, <1>3, <2>2, <3>4, <3>5, FindsMoved
    <3> QED
      BY <3>1, <3>2, <3>5
  <2> QED
    BY <1>5, <2>1, <2>2
<1> QED
  BY <1>1, <1>2, <1>4, <1>6, <1>9, <1>10 DEF Levels, t, g

(* A call that can come before others, with n frames.                      *)
Allowed(x, n) ==
  /\ x.op \notin {"setTop", "loadString"}
  /\ x.op \in {"remove", "insert"} => n = 0 /\ x.i = -2
  /\ x.op = "pop" => x.i = 1

LEMMA PutPlaces ==
  ASSUME NEW a \in Seq(Entry), NEW s \in Seq(Entry), NEW f, Levels(s, f), Places(s, f),
         NEW k \in 1 .. Len(s) + 1, NEW n, Fits(a, n, s, f, k),
         \A i \in DOMAIN a : /\ Allowed(a[i], f[k] + n)
                             /\ a[i].op \in {"pcall", "lua"} /\ a[i].args = 0
                                  => i = Len(a) /\ k = Len(s) + 1,
         a = <<>> \/ \A j \in k .. Len(s) : s[j].op \notin {"setTop", "loadString"}
  PROVE  Places(Put(a, s, k), Level(a, n, s, f, k))
<1> DEFINE t == Put(a, s, k)
           g == Level(a, n, s, f, k)
           m == Len(a) + 1 - k
<1>0. n \in {0, 1}
  BY DEF Fits
<1>1. /\ t \in Seq(Entry) /\ Len(t) = Len(s) + m /\ DOMAIN t = 1 .. Len(t)
      /\ Len(a) \in Nat /\ DOMAIN a = 1 .. Len(a) /\ Len(s) \in Nat /\ DOMAIN s = 1 .. Len(s)
      /\ \A i \in 1 .. Len(a) : i \in 1 .. Len(t) /\ t[i] = a[i]
      /\ \A j \in k .. Len(s) : j + m \in Len(a) + 1 .. Len(t) /\ t[j + m] = s[j]
      /\ \A i \in 1 .. Len(t) : i \in 1 .. Len(a) \/ i - m \in k .. Len(s)
  <2>1. \A i \in 1 .. Len(t) : i \in 1 .. Len(t) + 1
    BY PutIs
  <2> QED
    BY <2>1, PutIs
<1>2. /\ g \in [1 .. Len(s) + m + 1 -> Nat] /\ f[k] \in Nat
      /\ \A i \in 1 .. Len(a) : g[i] = f[k] + n
      /\ \A j \in k .. Len(s) + 1 : g[j + m] = f[j]
      /\ g[Len(a) + 1] = f[k]
  <2>1. Levels(s, f) /\ a \in Seq(Entry) /\ s \in Seq(Entry) /\ k \in 1 .. Len(s) + 1
    OBVIOUS
  <2> QED
    BY ONLY <1>0, <2>1, LevelIs, SMTT(60) DEF g, m
<1>3. m = Len(a) + 1 - k /\ m \in Int /\ k \in Int /\ k >= 1 /\ k <= Len(s) + 1
  BY <1>1
<1> HIDE DEF t, g, m
<1>4. ASSUME NEW i \in 1 .. Len(t)
      PROVE  i \in 1 .. Len(a) \/ \E j \in k .. Len(s) : i = j + m
  <2>1. CASE i - m \in k .. Len(s)
    <3>1. (i - m) + m = i
      BY <1>3
    <3> QED
      BY <2>1, <3>1
  <2> QED
    BY <1>1, <2>1
<1> DEFINE P(x, i, v) ==
      /\ x.op \in {"setTop", "loadString", "remove", "insert"} => v = 0
      /\ x.op = "setTop" => i = 1 /\ x.i = 0
      /\ x.op = "loadString" => i = 1 \/ (i = 2 /\ t[1].op = "setTop")
      /\ x.op \in {"remove", "insert"} => x.i = -2
      /\ x.op = "pop" => x.i = 1
      /\ x.op \in {"pcall", "lua"} /\ x.args = 0 => i = Len(t)
<1>5. ASSUME NEW i \in 1 .. Len(a) PROVE P(t[i], i, g[i])
  <2>1. Allowed(a[i], f[k] + n)
    BY <1>1, <1>5
  <2>2. t[i] = a[i] /\ g[i] = f[k] + n
    BY <1>1, <1>2, <1>5
  <2>3. a[i].op \in {"pcall", "lua"} /\ a[i].args = 0 => i = Len(t)
    <3>1. ASSUME a[i].op \in {"pcall", "lua"}, a[i].args = 0 PROVE i = Len(t)
      <4>1. i = Len(a) /\ k = Len(s) + 1
        BY <1>1, <1>5, <3>1
      <4>2. Len(t) = Len(s) + m /\ m = Len(a) + 1 - k /\ Len(s) \in Nat /\ Len(a) \in Nat
        BY <1>1, <1>3
      <4> QED
        BY ONLY <4>1, <4>2
    <3> QED
      BY <3>1
  <2> QED
    BY <2>1, <2>2, <2>3 DEF Allowed
<1>6. ASSUME NEW j \in k .. Len(s) PROVE P(t[j + m], j + m, g[j + m])
  <2>1. j \in DOMAIN s /\ j \in k .. Len(s) + 1
    BY <1>1, <1>3, <1>6, SMTT(60)
  <2>2. t[j + m] = s[j] /\ g[j + m] = f[j]
    BY <1>1, <1>2, <1>6, <2>1
  <2>3. /\ s[j].op \in {"setTop", "loadString", "remove", "insert"} => f[j] = 0
        /\ s[j].op = "setTop" => j = 1 /\ s[j].i = 0
        /\ s[j].op = "loadString" => j = 1 \/ (j = 2 /\ s[1].op = "setTop")
        /\ s[j].op \in {"remove", "insert"} => s[j].i = -2
        /\ s[j].op = "pop" => s[j].i = 1
        /\ s[j].op \in {"pcall", "lua"} /\ s[j].args = 0 => j = Len(s)
    BY <2>1 DEF Places
  <2>4. j = Len(s) => j + m = Len(t)
    BY <1>1
  <2>5. ASSUME s[j].op \in {"setTop", "loadString"}
        PROVE  m = 1 - k
    <3>1. a = <<>>
      BY <1>6, <2>5
    <3>2. Len(a) = 0
      BY <3>1
    <3> QED
      BY <1>3, <3>2
  <2>6. s[j].op = "setTop" => j + m = 1
    <3>1. ASSUME s[j].op = "setTop" PROVE j + m = 1
      <4>1. j = 1 /\ m = 1 - k
        BY <2>3, <2>5, <3>1
      <4> QED
        BY ONLY <4>1, <1>3, <1>6
    <3> QED
      BY <3>1
  <2>7. s[j].op = "loadString" => j + m = 1 \/ (j + m = 2 /\ t[1].op = "setTop")
    <3>1. ASSUME s[j].op = "loadString" PROVE j + m = 1 \/ (j + m = 2 /\ t[1].op = "setTop")
      <4>1. m = 1 - k /\ (j = 1 \/ (j = 2 /\ s[1].op = "setTop"))
        BY <2>3, <2>5, <3>1
      <4>2. CASE j = 1
        BY ONLY <4>1, <4>2, <1>3, <1>6
      <4>3. CASE j = 2 /\ s[1].op = "setTop"
        <5>1. CASE k = 2
          BY ONLY <4>1, <4>3, <5>1, <1>3, <1>6
        <5>2. CASE k = 1
          <6>1. m = 0 /\ 1 \in k .. Len(s) /\ 1 + m = 1 /\ j + m = 2
            BY ONLY <4>1, <4>3, <5>2, <1>3, <1>6, <1>1
          <6>2. t[1 + m] = s[1]
            BY <1>1, <6>1
          <6> QED
            BY <4>3, <6>1, <6>2
        <5> QED
          BY ONLY <4>3, <5>1, <5>2, <1>3, <1>6
      <4> QED
        BY <4>1, <4>2, <4>3
    <3> QED
      BY <3>1
  <2> QED
    BY <2>2, <2>3, <2>4, <2>6, <2>7
<1>7. ASSUME NEW i \in DOMAIN t PROVE P(t[i], i, g[i])
  <2>1. i \in 1 .. Len(t)
    BY <1>1
  <2> QED
    BY <1>4, <1>5, <1>6, <2>1
<1> QED
  BY <1>7 DEF Places, t, g

Slots == Nat \ {0}
Tall(b, n) == \A i \in 1 .. n : b[i] \in Slots

(* The heights b before the calls a, and e behind them.                    *)
Rises(a, b, e) ==
  \A i \in DOMAIN a :
    /\ (IF i = Len(a) THEN e ELSE b[i + 1]) = b[i] + Grows(a[i])
    /\ Checks(a[i]) => Finds(a, b, i, "unlock", 1)
    /\ a[i].op = "insert" => b[i] > 1

LEMMA HeightsTyped ==
  ASSUME NEW s \in Seq(Entry), NEW f, NEW h, NEW low, NEW end, Heights(s, f, h, low, end)
  PROVE  /\ Len(s) \in Nat /\ DOMAIN s = 1 .. Len(s)
         /\ h \in [1 .. Len(s) + 1 -> Slots] /\ Tall(h, Len(s) + 1)
  BY LenProperties DEF Heights, Slots, Tall

LEMMA HeightIs ==
  ASSUME NEW a \in Seq(Entry), NEW s \in Seq(Entry), NEW k \in 1 .. Len(s) + 1,
         NEW b, Tall(b, Len(a)), NEW h, Tall(h, Len(s) + 1)
  PROVE  LET e == Over(a, b, s, h, k)
             m == Len(a) + 1 - k
         IN  /\ e \in [1 .. Len(s) + m + 1 -> Slots]
             /\ \A i \in 1 .. Len(a) : e[i] = b[i]
             /\ \A j \in k .. Len(s) + 1 : e[j + m] = h[j]
             /\ e[Len(a) + 1] = h[k]
<1> DEFINE m == Len(a) + 1 - k
           e == Over(a, b, s, h, k)
<1>1. m \in Int /\ k \in Int /\ k >= 1 /\ Len(s) \in Nat
  BY LenProperties
<1>2. /\ e = [i \in 1 .. Len(s) + m + 1 |-> e[i]]
      /\ \A i \in 1 .. Len(s) + m + 1 : i \in 1 .. Len(a) \/ i - m \in k .. Len(s) + 1
      /\ \A i \in 1 .. Len(a) : e[i] = b[i]
      /\ \A j \in k .. Len(s) + 1 : e[j + m] = h[j]
      /\ e[Len(a) + 1] = h[k]
  BY OverIs
<1> HIDE DEF e, m
<1>3. ASSUME NEW i \in 1 .. Len(s) + m + 1 PROVE e[i] \in Slots
  <2>1. CASE i \in 1 .. Len(a)
    BY <1>2, <2>1 DEF Tall
  <2>2. CASE i - m \in k .. Len(s) + 1
    <3>1. i - m \in 1 .. Len(s) + 1 /\ (i - m) + m = i
      BY <1>1, <2>2
    <3> QED
      BY <1>2, <2>2, <3>1 DEF Tall
  <2> QED
    BY <1>2, <2>1, <2>2
<1> QED
  BY <1>2, <1>3 DEF e, m

(* What is found inside some calls is found when more are behind them.     *)
LEMMA FindsInside ==
  ASSUME NEW a, NEW t, NEW b, NEW e, NEW l \in Nat, Len(a) \in Nat, Len(t) = l, Len(a) <= l,
         \A i \in 1 .. Len(a) : t[i] = a[i] /\ e[i] = b[i],
         NEW i \in 1 .. Len(a), NEW op, NEW v, Finds(a, b, i, op, v)
  PROVE  Finds(t, e, i, op, v)
<1>1. PICK p \in i + 1 .. Len(a) :
        a[p].op = op /\ b[i] = b[p] + v /\ \A q \in i .. p - 1 : a[q].op # op
  BY DEF Finds
<1>2. p \in 1 .. Len(a) /\ p \in i + 1 .. Len(t) /\ \A q \in i .. p - 1 : q \in 1 .. Len(a)
  OBVIOUS
<1>3. t[p].op = op /\ e[i] = e[p] + v /\ \A q \in i .. p - 1 : t[q].op # op
  BY <1>1, <1>2
<1> QED
  BY <1>2, <1>3 DEF Finds

LEMMA PutHeights ==
  ASSUME NEW a \in Seq(Entry), NEW s \in Seq(Entry), NEW f, Levels(s, f),
         NEW k \in 1 .. Len(s) + 1, NEW n, Fits(a, n, s, f, k),
         \A i \in DOMAIN a : Allowed(a[i], f[k] + n),
         NEW h, NEW low, NEW end, Heights(s, f, h, low, end), NEW lw,
         NEW b, Tall(b, Len(a)),
         f[k] > 0 => lw = low,
         f[k] = 0 /\ n = 1 => h[k] = lw - 1,
         f[k] + n = 0 => Rises(a, b, h[k])
  PROVE  Heights(Put(a, s, k), Level(a, n, s, f, k), Over(a, b, s, h, k), lw, end)
<1> DEFINE t == Put(a, s, k)
           g == Level(a, n, s, f, k)
           e == Over(a, b, s, h, k)
           m == Len(a) + 1 - k
<1>0. n \in {0, 1}
  BY DEF Fits
<1>1. /\ t \in Seq(Entry) /\ Len(t) = Len(s) + m /\ DOMAIN t = 1 .. Len(t)
      /\ Len(a) \in Nat /\ DOMAIN a = 1 .. Len(a) /\ Len(s) \in Nat /\ DOMAIN s = 1 .. Len(s)
      /\ \A i \in 1 .. Len(a) : i \in 1 .. Len(t) /\ t[i] = a[i]
      /\ \A j \in k .. Len(s) : j + m \in Len(a) + 1 .. Len(t) /\ t[j + m] = s[j]
      /\ \A i \in 1 .. Len(t) : i \in 1 .. Len(a) \/ i - m \in k .. Len(s)
  <2>1. \A i \in 1 .. Len(t) : i \in 1 .. Len(t) + 1
    BY PutIs
  <2> QED
    BY <2>1, PutIs
<1>2. /\ g \in [1 .. Len(s) + m + 1 -> Nat] /\ f[k] \in Nat
      /\ \A i \in 1 .. Len(a) : g[i] = f[k] + n
      /\ \A j \in k .. Len(s) + 1 : g[j + m] = f[j]
      /\ g[Len(a) + 1] = f[k]
  BY <1>0, LevelIs, SMTT(60)
<1>3. Tall(h, Len(s) + 1)
  BY HeightsTyped
<1>4. /\ e \in [1 .. Len(s) + m + 1 -> Slots]
      /\ \A i \in 1 .. Len(a) : e[i] = b[i]
      /\ \A j \in k .. Len(s) + 1 : e[j + m] = h[j]
      /\ e[Len(a) + 1] = h[k]
  BY <1>3, HeightIs
<1>5. m = Len(a) + 1 - k /\ m \in Int /\ k \in Int /\ k >= 1 /\ k <= Len(s) + 1 /\ Len(t) \in Nat
  BY <1>1, LenProperties
<1> HIDE DEF t, g, m, e
<1>11. Len(a) \in Nat /\ Len(s) \in Nat
  BY <1>1
<1>6. ASSUME NEW i \in 1 .. Len(t)
      PROVE  i \in 1 .. Len(a) \/ \E j \in k .. Len(s) : i = j + m
  <2>1. CASE i - m \in k .. Len(s)
    <3>1. (i - m) + m = i
      BY <1>5
    <3> QED
      BY <2>1, <3>1
  <2> QED
    BY <1>1, <2>1
<1>7. e \in [1 .. Len(t) + 1 -> Nat \ {0}] /\ e[Len(t) + 1] = end
  <2>1. Len(s) + 1 \in k .. Len(s) + 1 /\ (Len(s) + 1) + m = Len(t) + 1
    BY <1>1, <1>5
  <2>2. h[Len(s) + 1] = end
    BY DEF Heights
  <2>3. e[Len(t) + 1] = end
    BY <1>4, <2>1, <2>2
  <2>4. Len(t) + 1 = Len(s) + m + 1
    BY <1>1
  <2> QED
    BY <1>4, <2>3, <2>4 DEF Slots
<1> DEFINE P(i) ==
      /\ g[i] = 0 => e[i + 1] = (IF t[i].op = "setTop" THEN 1 ELSE e[i] + Grows(t[i]))
      /\ g[i] = 1 /\ g[i + 1] = 0 => e[i + 1] = lw - 1
      /\ g[i] = 0 /\ Checks(t[i]) => Finds(t, e, i, "unlock", 1)
      /\ t[i].op = "insert" => e[i] > 1
      /\ t[i].op = "loadString" => e[i] = 1
<1>8. ASSUME NEW i \in 1 .. Len(a) PROVE P(i)
  <2>1. Allowed(a[i], f[k] + n)
    BY <1>1, <1>8
  <2>2. t[i] = a[i] /\ g[i] = f[k] + n /\ e[i] = b[i]
    BY <1>1, <1>2, <1>4, <1>8
  <2>3. t[i].op \notin {"setTop", "loadString"} /\ (t[i].op = "insert" => g[i] = 0)
    BY <2>1, <2>2 DEF Allowed
  <2>4. ASSUME g[i] = 0
        PROVE  /\ e[i + 1] = e[i] + Grows(t[i])
               /\ Checks(t[i]) => Finds(t, e, i, "unlock", 1)
               /\ t[i].op = "insert" => e[i] > 1
    <3>1. Rises(a, b, h[k])
      BY <2>2, <2>4, SMTT(60)
    <3>2. /\ (IF i = Len(a) THEN h[k] ELSE b[i + 1]) = b[i] + Grows(a[i])
          /\ Checks(a[i]) => Finds(a, b, i, "unlock", 1)
          /\ a[i].op = "insert" => b[i] > 1
      BY <1>1, <3>1 DEF Rises
    <3>3. e[i + 1] = (IF i = Len(a) THEN h[k] ELSE b[i + 1])
      <4>1. CASE i = Len(a)
        BY <1>4, <4>1
      <4>2. CASE i # Len(a)
        <5>1. i + 1 \in 1 .. Len(a)
          BY ONLY <1>11, <1>8, <4>2
        <5> QED
          BY <1>4, <4>2, <5>1
      <4> QED
        BY <4>1, <4>2
    <3>4. ASSUME Checks(a[i]) PROVE Finds(t, e, i, "unlock", 1)
      <4>1. Finds(a, b, i, "unlock", 1)
        BY <3>2, <3>4
      <4>2. \A p \in 1 .. Len(a) : t[p] = a[p] /\ e[p] = b[p]
        BY <1>1, <1>4
      <4>3. PICK l \in Nat : l = Len(t)
        BY <1>5
      <4>4. Len(a) <= l
        <5>1. Len(a) \in 1 .. Len(a)
          BY ONLY <1>1, <1>8
        <5>2. Len(a) \in 1 .. Len(t)
          BY <1>1, <5>1
        <5> QED
          BY <4>3, <5>2
      <4> QED
        BY <1>1, <1>8, <4>1, <4>2, <4>3, <4>4, FindsInside
    <3> QED
      BY <2>2, <3>2, <3>3, <3>4
  <2>5. ASSUME g[i] = 1, g[i + 1] = 0 PROVE e[i + 1] = lw - 1
    <3>1. CASE i # Len(a)
      <4>1. i + 1 \in 1 .. Len(a)
        BY ONLY <1>11, <1>8, <3>1
      <4>2. g[i + 1] = f[k] + n
        BY <1>2, <4>1
      <4> QED
        BY <2>2, <2>5, <4>2
    <3>2. CASE i = Len(a)
      <4>1. f[k] = 0 /\ f[k] + n = 1
        BY <1>2, <2>2, <2>5, <3>2
      <4>2. n = 1
        BY <1>0, <4>1
      <4> QED
        BY <1>4, <3>2, <4>1, <4>2
    <3> QED
      BY <3>1, <3>2
  <2> QED
    BY <2>3, <2>4, <2>5
<1>9. ASSUME NEW j \in k .. Len(s) PROVE P(j + m)
  <2>1. j \in DOMAIN s /\ j \in k .. Len(s) + 1 /\ j + 1 \in k .. Len(s) + 1 /\ (j + m) + 1 = (j + 1) + m
    <3>1. m \in Int /\ k \in Int /\ k >= 1 /\ DOMAIN s = 1 .. Len(s)
      BY <1>1, <1>5
    <3> QED
      BY ONLY <1>9, <1>11, <3>1
  <2>2. t[j + m] = s[j] /\ g[j + m] = f[j] /\ e[j + m] = h[j]
    BY <1>1, <1>2, <1>4, <1>9, <2>1
  <2>3. g[(j + m) + 1] = f[j + 1] /\ e[(j + m) + 1] = h[j + 1]
    BY <1>2, <1>4, <2>1
  <2>4. /\ f[j] = 0 => h[j + 1] = (IF s[j].op = "setTop" THEN 1 ELSE h[j] + Grows(s[j]))
        /\ f[j] = 1 /\ f[j + 1] = 0 => h[j + 1] = low - 1
        /\ f[j] = 0 /\ Checks(s[j]) => Finds(s, h, j, "unlock", 1)
        /\ s[j].op = "insert" => h[j] > 1
        /\ s[j].op = "loadString" => h[j] = 1
    BY <2>1 DEF Heights
  <2>5. f[j] = 1 => lw = low
    <3>1. CASE f[k] = 0
      <4>1. f[j] = 0
        BY <2>1, <3>1, NoneLeft
      <4> QED
        BY <4>1
    <3>2. CASE f[k] # 0
      BY <1>2, <3>2
    <3> QED
      BY <3>1, <3>2
  <2>6. ASSUME f[j] = 0, Checks(s[j]) PROVE Finds(t, e, j + m, "unlock", 1)
    <3>1. Finds(s, h, j, "unlock", 1)
      BY <2>4, <2>6
    <3>2. \A q \in k .. Len(s) : q \in k .. Len(s) + 1
      BY <1>1
    <3>3. \A q \in k .. Len(s) : t[q + m] = s[q] /\ e[q + m] = h[q]
      BY <1>1, <1>4, <3>2
    <3>4. k \in Nat /\ Len(s) \in Nat /\ Len(t) = Len(s) + m
      BY <1>1, <1>5
    <3> QED
      BY <1>5, <1>9, <3>1, <3>3, <3>4, FindsMoved
  <2> QED
    BY <2>2, <2>3, <2>4, <2>5, <2>6
<1>10. ASSUME NEW i \in DOMAIN t PROVE P(i)
  <2>1. i \in 1 .. Len(t)
    BY <1>1
  <2> QED
    BY <1>6, <1>8, <1>9, <2>1
<1> QED
  BY <1>7, <1>10 DEF Heights, t, g, e

(* A value more is left below all calls.                                   *)
LEMMA HeightsShift ==
  ASSUME NEW s \in Seq(Entry), NEW f, Levels(s, f), f[1] = 0,
         NEW h, NEW low, NEW end \in Nat, Heights(s, f, h, low, end), NEW lw,
         \A i \in DOMAIN s : s[i].op \notin {"setTop", "loadString"}
  PROVE  Heights(s, f, [i \in 1 .. Len(s) + 1 |-> h[i] + 1], lw, end + 1)
<1> DEFINE e == [i \in 1 .. Len(s) + 1 |-> h[i] + 1]
<1>1. Len(s) \in Nat /\ DOMAIN s = 1 .. Len(s) /\ Tall(h, Len(s) + 1)
  BY HeightsTyped
<1>2. e \in [1 .. Len(s) + 1 -> Nat \ {0}] /\ \A i \in 1 .. Len(s) + 1 : e[i] = h[i] + 1 /\ h[i] \in Nat
  BY <1>1 DEF Tall, Slots
<1> HIDE DEF e
<1>3. e[Len(s) + 1] = end + 1
  <2>1. Len(s) + 1 \in 1 .. Len(s) + 1 /\ h[Len(s) + 1] = end
    BY <1>1 DEF Heights
  <2> QED
    BY <1>2, <2>1
<1>4. \A j \in 1 .. Len(s) + 1 : f[j] = 0
  <2>1. 1 \in 1 .. Len(s) + 1
    BY <1>1
  <2> QED
    BY <2>1, NoneLeft
<1>5. ASSUME NEW i \in DOMAIN s
      PROVE  /\ e[i + 1] = (IF s[i].op = "setTop" THEN 1 ELSE e[i] + Grows(s[i]))
             /\ ~(f[i] = 1)
             /\ Checks(s[i]) => Finds(s, e, i, "unlock", 1)
             /\ s[i].op = "insert" => e[i] > 1
  <2>1. i \in 1 .. Len(s) + 1 /\ i + 1 \in 1 .. Len(s) + 1 /\ f[i] = 0
    BY <1>1, <1>4
  <2>2. /\ f[i] = 0 => h[i + 1] = (IF s[i].op = "setTop" THEN 1 ELSE h[i] + Grows(s[i]))
        /\ f[i] = 0 /\ Checks(s[i]) => Finds(s, h, i, "unlock", 1)
        /\ s[i].op = "insert" => h[i] > 1
    BY DEF Heights
  <2>3. h[i + 1] = h[i] + Grows(s[i])
    BY <2>1, <2>2
  <2>4. Grows(s[i]) \in Int
    <3>1. s[i].op = "pcall" => s[i].args \in Int
      <4>1. s[i] \in Entry
        BY ElementOfSeq, <1>1
      <4> QED
        BY <4>1 DEF Entry
    <3> QED
      BY <3>1 DEF Grows
  <2>5. e[i + 1] = e[i] + Grows(s[i])
    BY <1>2, <2>1, <2>3, <2>4, SMTT(60)
  <2>6. ASSUME Checks(s[i]) PROVE Finds(s, e, i, "unlock", 1)
    <3>1. PICK p \in i + 1 .. Len(s) :
            s[p].op = "unlock" /\ h[i] = h[p] + 1 /\ \A m \in i .. p - 1 : s[m].op # "unlock"
      BY <2>1, <2>2, <2>6 DEF Finds
    <3>2. p \in 1 .. Len(s) + 1
      BY <1>1
    <3>3. e[i] = e[p] + 1
      BY <1>2, <2>1, <3>1, <3>2
    <3> QED
      BY <3>1, <3>3 DEF Finds
  <2> QED
    BY <1>2, <2>1, <2>2, <2>5, <2>6
<1> QED
  BY <1>2, <1>3, <1>5 DEF Heights, e

(* Queued code is last.                                                    *)
LEMMA QueuedKept ==
  ASSUME NEW a \in Seq(Entry), NEW s \in Seq(Entry),
         NEW k \in 1 .. Len(s) + 1, k <= Len(s) \/ (Queued(s) <=> Queued(a))
  PROVE  Queued(Put(a, s, k)) <=> Queued(s)
<1> DEFINE t == Put(a, s, k)
           m == Len(a) + 1 - k
<1>1. /\ t \in Seq(Entry) /\ Len(t) = Len(s) + m /\ DOMAIN t = 1 .. Len(s) + m
      /\ Len(a) \in Nat /\ DOMAIN a = 1 .. Len(a) /\ Len(s) \in Nat /\ DOMAIN s = 1 .. Len(s)
      /\ \A i \in 1 .. Len(a) : i \in 1 .. Len(t) /\ t[i] = a[i]
      /\ \A j \in k .. Len(s) : j + m \in Len(a) + 1 .. Len(t) /\ t[j + m] = s[j]
  BY PutIs
<1>2. m = Len(a) + 1 - k /\ m \in Int /\ k \in Int /\ k >= 1 /\ k <= Len(s) + 1
  BY <1>1
<1>3. Len(a) \in Nat /\ Len(s) \in Nat /\ Len(t) \in Nat
  BY <1>1, LenProperties
<1> HIDE DEF t, m
<1>4. Queued(t) <=> Queued(s)
  <2>1. CASE k <= Len(s)
    <3>1. Len(s) \in k .. Len(s) /\ Len(s) # 0
      BY ONLY <1>2, <1>3, <2>1
    <3>2. Len(s) + m = Len(t) /\ t[Len(s) + m] = s[Len(s)]
      BY <1>1, <3>1
    <3>3. Len(t) # 0
      <4>1. Len(s) + m \in Len(a) + 1 .. Len(t)
        BY <1>1, <3>1
      <4> QED
        BY ONLY <1>3, <4>1
    <3>4. s # <<>> /\ t # <<>>
      BY <1>1, <3>1, <3>3
    <3> QED
      BY <3>2, <3>4 DEF Queued, Last
  <2>2. CASE ~(k <= Len(s))
    <3>1. k = Len(s) + 1
      BY ONLY <1>2, <1>3, <2>2
    <3>2. SubSeq(s, k, Len(s)) = <<>>
      BY ONLY <3>1, <1>3, SubSeqProperties, s \in Seq(Entry), EmptySeq
    <3>3. t = a
      <4>1. t = a \o SubSeq(s, k, Len(s))
        BY DEF t, Put
      <4> QED
        BY <3>2, <4>1
    <3> QED
      BY <2>2, <3>3
  <2> QED
    BY <2>1, <2>2
<1> QED
  BY <1>4 DEF t

LEMMA EndKept ==
  ASSUME NEW a \in Seq(Entry), NEW s \in Seq(Entry), NEW f, Places(s, f),
         NEW k \in 1 .. Len(s) + 1, k <= Len(s) \/ (Queued(s) <=> Queued(a)),
         s # <<>> => s[1].op # "setTop", a = <<>> => k > 1,
         \A i \in DOMAIN a : a[i].op # "setTop", NEW n
  PROVE  EndHeight(Put(a, s, k), n) = EndHeight(s, n)
<1> DEFINE t == Put(a, s, k)
           m == Len(a) + 1 - k
<1>1. /\ t \in Seq(Entry) /\ Len(t) = Len(s) + m /\ DOMAIN t = 1 .. Len(s) + m
      /\ Len(a) \in Nat /\ DOMAIN a = 1 .. Len(a) /\ Len(s) \in Nat /\ DOMAIN s = 1 .. Len(s)
      /\ \A i \in 1 .. Len(a) : i \in 1 .. Len(t) /\ t[i] = a[i]
      /\ \A j \in k .. Len(s) : j + m \in Len(a) + 1 .. Len(t) /\ t[j + m] = s[j]
  BY PutIs
<1>2. m = Len(a) + 1 - k /\ m \in Int /\ k \in Int /\ k >= 1 /\ k <= Len(s) + 1
  BY <1>1
<1>3. Len(a) \in Nat /\ Len(s) \in Nat /\ Len(t) \in Nat
  BY <1>1, LenProperties
<1> HIDE DEF t, m
<1>4. t # <<>> => t[1].op # "setTop"
  <2>1. CASE a # <<>>
    <3>1. 1 \in 1 .. Len(a)
      <4>1. Len(a) # 0
        BY <2>1
      <4> QED
        BY ONLY <1>3, <4>1
    <3> QED
      BY <1>1, <3>1
  <2>2. CASE a = <<>>
    <3>1. Len(a) = 0 /\ k > 1
      BY <2>2
    <3>2. CASE k <= Len(s)
      <4>1. k \in k .. Len(s) /\ k + m = 1
        BY ONLY <1>2, <1>3, <3>1, <3>2
      <4>2. t[1] = s[k] /\ k \in DOMAIN s
        <5>1. k \in DOMAIN s
          BY <1>1, <1>2, <4>1
        <5> QED
          BY <1>1, <4>1, <5>1
      <4>3. s[k].op # "setTop"
        BY <3>1, <4>2 DEF Places
      <4> QED
        BY <4>2, <4>3
    <3>3. CASE ~(k <= Len(s))
      <4>1. Len(t) = Len(s) + m
        BY <1>1
      <4>2. Len(t) = 0
        BY ONLY <1>2, <1>3, <3>1, <3>3, <4>1
      <4>3. t = <<>>
        BY <1>1, <4>2
      <4> QED
        BY <4>3
    <3> QED
      BY <3>2, <3>3
  <2> QED
    BY <2>1, <2>2
<1>5. Queued(t) <=> Queued(s)
  BY QueuedKept DEF t
<1> QED
  BY <1>4, <1>5 DEF EndHeight, t

Placed(a, n, s, f, k) ==
  /\ \A i \in DOMAIN a :
       /\ Allowed(a[i], f[k] + n)
       /\ a[i].op \in {"pcall", "lua"} /\ a[i].args = 0 => i = Len(a) /\ k = Len(s) + 1
  /\ a = <<>> \/ \A j \in k .. Len(s) : s[j].op \notin {"setTop", "loadString"}

(* The calls a come before those from k on.                                *)
LEMMA StackPut ==
  ASSUME NEW s \in Seq(Entry), NEW v, NEW T, NEW f, NEW h, Stacked(s, v, T, f, h),
         NEW a \in Seq(Entry), NEW k \in 1 .. Len(s) + 1, NEW n,
         Fits(a, n, s, f, k), Placed(a, n, s, f, k),
         NEW b, Tall(b, Len(a)), f[k] + n = 0 => Rises(a, b, h[k]),
         NEW w, EndHeight(Put(a, s, k), w) = EndHeight(s, v),
         NEW U, StackOf(U, f[k] + n, IF a = <<>> THEN h[k] ELSE b[1]),
         f[k] > 0 => U.ci[2].func = T.ci[2].func,
         f[k] = 0 /\ n = 1 => h[k] = U.ci[2].func - 1
  PROVE  Stands(Put(a, s, k), w, U)
<1> DEFINE t == Put(a, s, k)
           g == Level(a, n, s, f, k)
           e == Over(a, b, s, h, k)
           low == IF f[1] = 0 THEN 0 ELSE T.ci[2].func
           lw == IF f[k] + n = 0 THEN 0 ELSE U.ci[2].func
<1>1. Levels(s, f) /\ Places(s, f) /\ Heights(s, f, h, low, EndHeight(s, v))
  BY DEF Stacked
<1>2. n \in {0, 1} /\ f[k] \in Nat /\ (n = 1 => a # <<>>)
  BY <1>1, LevelsTyped DEF Fits
<1>3. f[k] > 0 => lw = low
  <2>1. ASSUME f[k] > 0 PROVE f[1] # 0
    <3>1. ASSUME f[1] = 0 PROVE FALSE
      <4>1. 1 \in 1 .. Len(s) + 1 /\ k \in 1 .. Len(s) + 1
        BY LenProperties
      <4>2. f[k] = 0
        BY <1>1, <3>1, <4>1, NoneLeft
      <4> QED
        BY <2>1, <4>2
    <3> QED
      BY <3>1
  <2> QED
    BY <1>2, <2>1
<1>4. Levels(t, g)
  BY <1>1, PutLevels
<1>5. \A i \in DOMAIN a : Allowed(a[i], f[k] + n)
  BY DEF Placed
<1>6. Places(t, g)
  BY <1>1, PutPlaces DEF Placed
<1>7. Heights(t, g, e, lw, EndHeight(s, v))
  <2>1. f[k] = 0 /\ n = 1 => h[k] = lw - 1
    BY <1>2
  <2> HIDE DEF lw, low
  <2> QED
    BY <1>1, <1>3, <1>5, <2>1, PutHeights
<1>8. g[1] = f[k] + n /\ e[1] = IF a = <<>> THEN h[k] ELSE b[1]
  <2>1. /\ \A i \in 1 .. Len(a) : g[i] = f[k] + n /\ e[i] = b[i]
        /\ g[Len(a) + 1] = f[k] /\ e[Len(a) + 1] = h[k]
    <3>1. Tall(h, Len(s) + 1)
      BY <1>1, HeightsTyped
    <3>2. /\ e \in [1 .. Len(s) + (Len(a) + 1 - k) + 1 -> Slots]
          /\ \A i \in 1 .. Len(a) : e[i] = b[i]
          /\ \A j \in k .. Len(s) + 1 : e[j + (Len(a) + 1 - k)] = h[j]
          /\ e[Len(a) + 1] = h[k]
      BY <3>1, HeightIs
    <3>3. /\ g \in [1 .. Len(s) + (Len(a) + 1 - k) + 1 -> Nat] /\ f[k] \in Nat
          /\ \A i \in 1 .. Len(a) : g[i] = f[k] + n
          /\ \A j \in k .. Len(s) + 1 : g[j + (Len(a) + 1 - k)] = f[j]
          /\ g[Len(a) + 1] = f[k]
      BY <1>1, <1>2, LevelIs, SMTT(60)
    <3> HIDE DEF g, e
    <3> QED
      BY <3>2, <3>3
  <2> HIDE DEF g, e
  <2>2. CASE a = <<>>
    <3>1. Len(a) + 1 = 1 /\ n = 0
      BY <1>2, <2>2
    <3> QED
      BY <1>2, <2>1, <2>2, <3>1
  <2>3. CASE a # <<>>
    <3>1. 1 \in 1 .. Len(a)
      <4>1. Len(a) # 0 /\ Len(a) \in Nat
        BY <2>3, LenProperties
      <4> QED
        BY ONLY <4>1
    <3> QED
      BY <2>1, <2>3, <3>1
  <2> QED
    BY <2>2, <2>3
<1> HIDE DEF t, g, e
<1>9. g \in [1 .. Len(t) + 1 -> Nat] /\ e \in [1 .. Len(t) + 1 -> Nat]
  <2>1. e \in [1 .. Len(t) + 1 -> Nat \ {0}]
    BY <1>7 DEF Heights
  <2> QED
    BY <1>4, <2>1 DEF Levels
<1>10. Stacked(t, w, U, g, e)
  <2>1. lw = IF g[1] = 0 THEN 0 ELSE U.ci[2].func
    BY <1>8
  <2>2. StackOf(U, g[1], e[1])
    BY <1>8
  <2>3. EndHeight(t, w) = EndHeight(s, v)
    BY DEF t
  <2> HIDE DEF lw, low
  <2> QED
    BY <1>4, <1>6, <1>7, <2>1, <2>2, <2>3 DEF Stacked
<1> QED
  BY <1>9, <1>10 DEF Stands, t

-----------------------------------------------------------------------------
(* A call that leaves the frames alone                                     *)

(* What stands before the first call.                                      *)
LEMMA HeadIs ==
  ASSUME NEW s \in Seq(Entry), s # <<>>, NEW v, NEW T, NEW f, NEW h, Stacked(s, v, T, f, h)
  PROVE  /\ Len(s) \in Nat /\ DOMAIN s = 1 .. Len(s) /\ 1 \in 1 .. Len(s) /\ 2 \in 1 .. Len(s) + 1
         /\ Slotted(T) /\ StackOf(T, f[1], h[1])
         /\ f[1] \in Nat /\ f[2] \in Nat /\ h[1] \in Slots /\ h[2] \in Slots
         /\ f[1] = f[2] + (IF Ends(s[1]) THEN 1 ELSE 0)
         /\ f[1] = 0 => Len(T.stk) = h[1] /\ T.base = 2 /\ Len(T.stk) > 0
         /\ f[1] = 0 => h[2] = IF s[1].op = "setTop" THEN 1 ELSE h[1] + Grows(s[1])
         /\ f[1] = 1 /\ f[2] = 0 => h[2] = T.ci[2].func - 1
         /\ s[1].op \in {"remove", "insert"} => s[1].i = -2 /\ Len(T.stk) > 1
         /\ s[1].op = "pop" => s[1].i = 1
<1>1. /\ Len(s) \in Nat /\ DOMAIN s = 1 .. Len(s) /\ 1 \in 1 .. Len(s) /\ 2 \in 1 .. Len(s) + 1
  BY TailIs
<1>2. 1 \in DOMAIN s /\ 1 \in 1 .. Len(s) + 1 /\ 1 + 1 = 2
  BY <1>1
<1> DEFINE low == IF f[1] = 0 THEN 0 ELSE T.ci[2].func
<1>3. Levels(s, f) /\ Places(s, f) /\ Heights(s, f, h, low, EndHeight(s, v)) /\ StackOf(T, f[1], h[1])
  BY DEF Stacked
<1>4. f[1] \in Nat /\ f[2] \in Nat
  BY <1>1, <1>2, <1>3, LevelsTyped
<1>5. h[1] \in Slots /\ h[2] \in Slots
  <2>1. Tall(h, Len(s) + 1)
    BY <1>3, HeightsTyped
  <2> QED
    BY <1>1, <1>2, <2>1 DEF Tall
<1>6. f[1] = f[2] + (IF Ends(s[1]) THEN 1 ELSE 0)
  BY <1>2, <1>3 DEF Levels
<1>7. /\ f[1] = 0 => h[2] = IF s[1].op = "setTop" THEN 1 ELSE h[1] + Grows(s[1])
      /\ f[1] = 1 /\ f[2] = 0 => h[2] = low - 1
      /\ s[1].op = "insert" => h[1] > 1
  BY <1>2, <1>3 DEF Heights
<1>8. /\ s[1].op \in {"remove", "insert"} => f[1] = 0 /\ s[1].i = -2
      /\ s[1].op = "pop" => s[1].i = 1
  BY <1>2, <1>3 DEF Places
<1>9. Slotted(T) /\ (f[1] = 0 => Len(T.stk) = h[1] /\ T.base = 2 /\ Len(T.stk) > 0)
  BY <1>3, <1>5 DEF StackOf, Slots
<1>10. s[1].op = "remove" => h[1] > 1
  <2>1. ASSUME s[1].op = "remove" PROVE h[1] > 1
    <3>1. Grows(s[1]) = -1
      BY <2>1 DEF Grows
    <3>2. h[2] = h[1] + -1
      BY <1>7, <1>8, <2>1, <3>1
    <3> QED
      BY <1>5, <3>2 DEF Slots
  <2> QED
    BY <2>1
<1>11. s[1].op \in {"remove", "insert"} => s[1].i = -2 /\ Len(T.stk) > 1
  BY <1>7, <1>8, <1>9, <1>10
<1>12. f[1] = 1 /\ f[2] = 0 => h[2] = T.ci[2].func - 1
  BY <1>7
<1> QED
  BY <1>1, <1>3, <1>4, <1>5, <1>6, <1>7, <1>8, <1>9, <1>11, <1>12

(* The first call is done.                                                 *)
LEMMA StackGoes ==
  ASSUME NEW s \in Seq(Entry), s # <<>>, NEW v, NEW T, NEW f, NEW h, Stacked(s, v, T, f, h),
         s[1].op \notin {"setTop", "lua", "return", "error", "pcall"},
         NEW U, Slotted(U), U.ci = T.ci, U.base = T.base,
         f[1] = 0 => Len(U.stk) = h[1] + Grows(s[1])
  PROVE  Stands(Put(<<>>, s, 2), v, U)
<1> DEFINE a == <<>>
           b == [i \in 1 .. 0 |-> 1]
<1>1. /\ Len(s) \in Nat /\ 2 \in 1 .. Len(s) + 1 /\ DOMAIN s = 1 .. Len(s)
      /\ StackOf(T, f[1], h[1]) /\ f[1] \in Nat /\ f[2] \in Nat
      /\ f[1] = f[2] + (IF Ends(s[1]) THEN 1 ELSE 0)
      /\ f[1] = 0 => h[2] = IF s[1].op = "setTop" THEN 1 ELSE h[1] + Grows(s[1])
  BY HeadIs
<1>2. f[2] = f[1] /\ f[2] + 0 = f[1]
  BY <1>1 DEF Ends
<1>3. a \in Seq(Entry) /\ Len(a) = 0 /\ DOMAIN a = {}
  OBVIOUS
<1>4. Fits(a, 0, s, f, 2) /\ Placed(a, 0, s, f, 2)
  BY <1>3 DEF Fits, Placed
<1>5. Tall(b, Len(a)) /\ Rises(a, b, h[2])
  BY <1>3 DEF Tall, Rises
<1>6. StackOf(U, f[2] + 0, IF a = <<>> THEN h[2] ELSE b[1])
  <2>1. f[1] = 0 => Len(U.stk) = h[2]
    BY <1>1
  <2>2. StackOf(U, f[1], h[2])
    BY <1>1, <2>1, StackSame
  <2> QED
    BY <1>2, <2>2
<1>7. EndHeight(Put(a, s, 2), v) = EndHeight(s, v)
  <2>1. 2 <= Len(s) \/ (Queued(s) <=> Queued(a))
    <3>1. ASSUME ~(2 <= Len(s)) PROVE ~Queued(s)
      <4>1. Len(s) = 1
        <5>1. 1 \in 1 .. Len(s)
          BY HeadIs
        <5> QED
          BY <1>1, <3>1, <5>1
      <4> QED
        BY <4>1 DEF Queued, Last
    <3> QED
      BY <3>1 DEF Queued
  <2>2. Places(s, f)
    BY DEF Stacked
  <2> HIDE DEF a
  <2>3. (\A i \in DOMAIN a : a[i].op # "setTop") /\ a \in Seq(Entry)
    BY <1>3
  <2> QED
    BY <1>1, <2>1, <2>2, <2>3, EndKept
<1>8. f[2] > 0 => U.ci[2].func = T.ci[2].func
  OBVIOUS
<1> HIDE DEF b
<1>9. PICK n : n = 0
  OBVIOUS
<1>10. PICK c \in Seq(Entry) : c = a
  BY <1>3
<1> HIDE DEF a
<1>11. /\ Fits(c, n, s, f, 2) /\ Placed(c, n, s, f, 2) /\ Tall(b, Len(c))
       /\ EndHeight(Put(c, s, 2), v) = EndHeight(s, v)
       /\ StackOf(U, f[2] + n, IF c = <<>> THEN h[2] ELSE b[1])
       /\ f[2] + n = 0 => Rises(c, b, h[2])
       /\ f[2] = 0 /\ n = 1 => h[2] = U.ci[2].func - 1
  BY <1>4, <1>5, <1>6, <1>7, <1>9, <1>10
<1>12. Stands(Put(c, s, 2), v, U)
  BY <1>1, <1>8, <1>11, StackPut
<1> QED
  BY <1>10, <1>12 DEF a

(* What the main thread has before it, and how it goes on.                 *)
LEMMA Here ==
  ASSUME IInv, StackInv, Busy("main")
  PROVE  /\ open /\ todo["main"] \in Seq(Entry) /\ todo["main"] # <<>> /\ left \in Nat
         /\ Arg("main") = todo["main"][1] /\ Arg("main") \in Entry
         /\ Go("main") => todo'["main"] = Put(<<>>, todo["main"], 2)
         /\ \A a : Then("main", a) => todo'["main"] = Put(a, todo["main"], 2)
         /\ \E f, h : Stacked(todo["main"], left, S, f, h)
<1>1. PICK d : Balanced(todo["main"], d) /\ ShapeInv
  BY MonitorWitness
<1>2. /\ open /\ todo["main"] \in Seq(Entry)
      /\ Arg("main") = todo["main"][1] /\ Arg("main") \in Entry
      /\ \A a : Then("main", a) => MainGoes(a \o SubSeq(todo["main"], 2, Len(todo["main"])))
  BY <1>1, AtHead
<1>3. \A a : Then("main", a) => todo'["main"] = Put(a, todo["main"], 2)
  BY <1>1, <1>2, MainGone DEF Put
<1>4. Go("main") => todo'["main"] = Put(<<>>, todo["main"], 2)
  BY <1>3 DEF Go
<1>5. left \in Nat /\ \E f, h : Stacked(todo["main"], left, S, f, h)
  BY <1>2 DEF StackInv, Stands
<1> QED
  BY <1>2, <1>3, <1>4, <1>5 DEF Busy

(* t is the stack with g slots more.                                       *)
Effect(t, g) ==
  /\ Slotted(t) /\ t.ci = S.ci /\ t.base = S.base
  /\ Len(S.stk) > 0 => Len(t.stk) = Len(S.stk) + g

LEMMA EnvSet ==
  ASSUME NEW t, NEW g, Effect(t, g), NEW j, NEW D
  PROVE  Effect(FromCPtr(t, j, D), g)
  BY DEF Effect, FromCPtr, Collected, Slotted

LEMMA StackMoves ==
  ASSUME IInv, StackInv, Busy("main"), UNCHANGED <<open, left>>, Go("main"),
         Arg("main").op \notin {"setTop", "lua", "return", "error", "pcall"},
         Effect(S', Grows(Arg("main")))
  PROVE  StackInv'
<1> DEFINE s == todo["main"]
<1>1. /\ s \in Seq(Entry) /\ s # <<>> /\ left \in Nat /\ Arg("main") = s[1]
      /\ todo'["main"] = Put(<<>>, s, 2)
  BY Here
<1>2. PICK f, h : Stacked(s, left, S, f, h)
  BY Here
<1>3. f[1] = 0 => Len(S.stk) = h[1] /\ Len(S.stk) > 0
  BY <1>1, <1>2, HeadIs
<1>4. Slotted(S') /\ S'.ci = S.ci /\ S'.base = S.base /\ (f[1] = 0 => Len(S'.stk) = h[1] + Grows(s[1]))
  BY <1>1, <1>3 DEF Effect
<1>5. PICK U : U = S'
  OBVIOUS
<1>6. Stands(Put(<<>>, s, 2), left, U)
  <2>1. Slotted(U) /\ U.ci = S.ci /\ U.base = S.base /\ (f[1] = 0 => Len(U.stk) = h[1] + Grows(s[1]))
    BY <1>4, <1>5
  <2>2. s[1].op \notin {"setTop", "lua", "return", "error", "pcall"}
    BY <1>1
  <2> QED
    BY <1>1, <1>2, <2>1, <2>2, StackGoes
<1> QED
  BY <1>1, <1>5, <1>6 DEF StackInv

LEMMA ResizedIs ==
  ASSUME NEW t, NEW g, NEW n, Resized(S, t, n), n = Len(S.stk) + g
  PROVE  Effect(t, g)
  BY DEF Resized, Effect

LEMMA Pushes ==
  ASSUME Slotted(S), NEW v, NEW u, NEW k
  PROVE  Effect(PushValueOf(S, v), 1) /\ Effect(PushValue(S, v), 1)
         /\ Effect(RawGetI(S, v), 1) /\ Effect(PushJava(S, u, k), 1)
<1>1. \A w : Effect(PushValueOf(S, w), 1)
  BY Pushed, ResizedIs
<1>2. Effect(PushJava(S, u, k), 1)
  <2> DEFINE t == [S EXCEPT !.ud = [w \in DOMAIN @ \cup {u} |->
                     IF w = u THEN [kind |-> k, called |-> FALSE] ELSE @[w]]]
  <2>1. Slotted(t) /\ t.ci = S.ci /\ t.base = S.base /\ t.stk = S.stk
    BY DEF Slotted
  <2>2. PushJava(S, u, k) = PushValueOf(t, u)
    BY DEF PushJava
  <2> HIDE DEF t
  <2>3. Resized(t, PushValueOf(t, u), Len(t.stk) + 1)
    BY <2>1, Pushed
  <2> QED
    BY <2>1, <2>2, <2>3 DEF Resized, Effect
<1> QED
  BY <1>1, <1>2 DEF PushValue, RawGetI

LEMMA Pops ==
  ASSUME Slotted(S)
  PROVE  Effect(Pop(S, 1), -1)
<1>1. Len(S.stk) \in Nat
  BY SlotsOf
<1>2. /\ Slotted(Pop(S, 1)) /\ Pop(S, 1).ci = S.ci /\ Pop(S, 1).base = S.base
      /\ Len(S.stk) > 0 => Resized(S, Pop(S, 1), Len(S.stk) - 1)
  BY PoppedOne
<1> QED
  BY <1>1, <1>2 DEF Effect, Resized

(* The fields of a state that are not the stack do not matter.             *)
LEMMA EffectSame ==
  ASSUME NEW t, NEW u, NEW g, Effect(t, g), {"stk", "ci", "base"} \subseteq DOMAIN u,
         u.stk = t.stk, u.ci = t.ci, u.base = t.base
  PROVE  Effect(u, g)
  BY DEF Effect, Slotted

LEMMA StackSteps ==
  ASSUME IInv, StackInv,
         \/ StackOp("main") \/ PushOp("main") \/ GetGlobal("main") \/ SetGlobal("main")
         \/ GetField("main")
         \/ \E v \in {"nil", "function"} : GetTable("main", v)
         \/ PushObject("main")
         \/ \E u \in FreeUserdata(S), kind \in {"object", "function"} : PushJavaObject("main", u, kind)
         \/ PushObjectValue("main") \/ RegisterValue("main")
         \/ Lock("main") \/ Unlock("main")
  PROVE  StackInv'
<1> DEFINE Does(op, t) == Op("main", op) /\ Native("main", t) /\ Go("main") /\ left' = left
<1>1. ASSUME NEW op \in {"insert", "pushValue", "remove", "pop", "pushString",
                         "getGlobal", "setGlobal", "getField", "getTable", "push",
                         "pushJavaObject", "pushObjectValue", "pushResult", "ref"},
             NEW t, Does(op, t), NEW g, g = Grows(Arg("main")), Effect(t, g)
      PROVE  StackInv'
  <2>1. PICK D : Busy("main") /\ Arg("main").op = op /\ Go("main") /\ UNCHANGED <<open, left>>
                 /\ S' = FromCPtr(t, "main", D)
    BY <1>1 DEF Op, Arg, Native
  <2>2. Effect(S', Grows(Arg("main")))
    BY <1>1, <2>1, EnvSet
  <2>3. Arg("main").op \notin {"setTop", "lua", "return", "error", "pcall"}
    BY <2>1
  <2> QED
    BY <2>1, <2>2, <2>3, StackMoves
<1>2. ASSUME Busy("main")
      PROVE  /\ Slotted(S)
             /\ Arg("main").op \in {"remove", "insert"} => Arg("main").i = -2 /\ Len(S.stk) > 1
             /\ Arg("main").op = "pop" => Arg("main").i = 1
  BY <1>2, Here, HeadIs
<1>3. ASSUME NEW op, Op("main", op)
      PROVE  /\ op \in {"pushValue", "pushString", "getGlobal", "getField", "push",
                        "pushJavaObject", "pushObjectValue", "pushResult"} => Grows(Arg("main")) = 1
             /\ op \in {"pop", "ref", "setGlobal", "remove"} => Grows(Arg("main")) = -1
             /\ op \in {"getTable", "insert"} => Grows(Arg("main")) = 0
             /\ Busy("main") /\ Arg("main").op = op
  BY <1>3 DEF Op, Arg, Grows
<1>4. ASSUME NEW op \in {"pushValue", "pushString", "getGlobal", "getField", "push",
                         "pushJavaObject", "pushObjectValue", "pushResult"},
             NEW t, Does(op, t), Slotted(S) => Effect(t, 1)
      PROVE  StackInv'
  <2>1. Grows(Arg("main")) = 1 /\ Slotted(S)
    BY <1>2, <1>3, <1>4
  <2> QED
    BY <1>1, <1>4, <2>1
<1>5. ASSUME NEW op \in {"pop", "ref", "setGlobal", "remove"},
             NEW t, Does(op, t), Slotted(S) => Effect(t, -1)
      PROVE  StackInv'
  <2>1. Grows(Arg("main")) = -1 /\ Slotted(S)
    BY <1>2, <1>3, <1>5
  <2> QED
    BY <1>1, <1>5, <2>1
<1>6. ASSUME NEW op \in {"getTable", "insert"},
             NEW t, Does(op, t), Slotted(S) => Effect(t, 0)
      PROVE  StackInv'
  <2>1. Grows(Arg("main")) = 0 /\ Slotted(S)
    BY <1>2, <1>3, <1>6
  <2> QED
    BY <1>1, <1>6, <2>1
<1> HIDE DEF Does
<1>7. CASE StackOp("main")
  <2>1. \/ Does("insert", InsertIndex(S, Arg("main").i)) \/ Does("pushValue", PushValue(S, Arg("main").i))
        \/ Does("remove", RemoveIndex(S, Arg("main").i)) \/ Does("pop", Pop(S, Arg("main").i))
    BY <1>7 DEF StackOp, Does
  <2>2. CASE Does("pushValue", PushValue(S, Arg("main").i))
    BY <1>4, <2>2, Pushes
  <2>3. CASE Does("pop", Pop(S, Arg("main").i))
    <3>1. Arg("main").i = 1
      BY <1>2, <1>3, <2>3 DEF Does
    <3>2. Does("pop", Pop(S, 1))
      BY <2>3, <3>1
    <3> QED
      BY <1>5, <3>2, Pops
  <2>4. CASE Does("remove", RemoveIndex(S, Arg("main").i))
    <3>1. Arg("main").i = -2 /\ Len(S.stk) > 1 /\ Slotted(S)
      BY <1>2, <1>3, <2>4 DEF Does
    <3>2. Resized(S, RemoveIndex(S, -2), Len(S.stk) - 1) /\ Len(S.stk) \in Nat
      BY <3>1, Moved, SlotsOf
    <3>3. Effect(RemoveIndex(S, -2), -1)
      BY <3>2 DEF Resized, Effect
    <3>4. Does("remove", RemoveIndex(S, -2))
      BY <2>4, <3>1
    <3> QED
      BY <1>5, <3>3, <3>4
  <2>5. CASE Does("insert", InsertIndex(S, Arg("main").i))
    <3>1. Arg("main").i = -2 /\ Len(S.stk) > 1 /\ Slotted(S)
      BY <1>2, <1>3, <2>5 DEF Does
    <3>2. Resized(S, InsertIndex(S, -2), Len(S.stk)) /\ Len(S.stk) \in Nat
      BY <3>1, Moved, SlotsOf
    <3>3. Effect(InsertIndex(S, -2), 0)
      BY <3>2 DEF Resized, Effect
    <3>4. Does("insert", InsertIndex(S, -2))
      BY <2>5, <3>1
    <3> QED
      BY <1>6, <3>3, <3>4
  <2> QED
    BY <2>1, <2>2, <2>3, <2>4, <2>5
<1>8. CASE PushOp("main")
  <2>1. Does("pushString", PushValueOf(S, Arg("main").v))
    BY <1>8 DEF PushOp, Does
  <2> QED
    BY <1>4, <2>1, Pushes
<1>9. CASE GetGlobal("main")
  <2>1. Does("getGlobal", PushValueOf(S, IF Arg("main").v = "x" THEN S.x ELSE Arg("main").v))
    BY <1>9 DEF GetGlobal, Does
  <2> QED
    BY <1>4, <2>1, Pushes
<1>10. CASE GetField("main")
  <2>1. Does("getField", PushValueOf(S, Arg("main").v))
    BY <1>10 DEF GetField, Does
  <2> QED
    BY <1>4, <2>1, Pushes
<1>11. CASE PushObject("main")
  <2>1. Does("push", RawGetI(S, object[Arg("main").o].ref))
    BY <1>11 DEF PushObject, Does
  <2> QED
    BY <1>4, <2>1, Pushes
<1>12. ASSUME NEW u, NEW kind, PushJavaObject("main", u, kind) PROVE StackInv'
  <2>1. Does("pushJavaObject", PushJava(S, u, kind))
    BY <1>12 DEF PushJavaObject, Does
  <2> QED
    BY <1>4, <2>1, Pushes
<1>13. CASE PushObjectValue("main")
  <2>1. PICK op \in {"pushObjectValue", "pushResult"} :
          \/ Does(op, PushValueOf(S, "number"))
          \/ \E u \in FreeUserdata(S) : Does(op, PushJava(S, u, "object"))
    BY <1>13 DEF PushObjectValue, Does
  <2> QED
    BY <1>4, <2>1, Pushes
<1>14. CASE SetGlobal("main")
  <2> DEFINE t == [S EXCEPT !.x = Last(S.stk)]
  <2>1. Does("setGlobal", Pop(t, 1))
    BY <1>14 DEF SetGlobal, Does
  <2>2. ASSUME Slotted(S) PROVE Effect(Pop(t, 1), -1)
    <3>1. Slotted(t) /\ t.stk = S.stk /\ t.ci = S.ci /\ t.base = S.base
      BY <2>2 DEF Slotted
    <3>2. Len(t.stk) \in Nat
      BY <3>1, SlotsOf
    <3> HIDE DEF t
    <3>3. /\ Slotted(Pop(t, 1)) /\ Pop(t, 1).ci = t.ci /\ Pop(t, 1).base = t.base
          /\ Len(t.stk) > 0 => Resized(t, Pop(t, 1), Len(t.stk) - 1)
      BY <3>1, PoppedOne
    <3> QED
      BY <3>1, <3>2, <3>3 DEF Effect, Resized
  <2> QED
    BY <1>5, <2>1, <2>2
<1>15. ASSUME NEW v, GetTable("main", v) PROVE StackInv'
  <2> DEFINE t == Pop(S, 1)
  <2>1. Does("getTable", PushValueOf(t, v))
    BY <1>15 DEF GetTable, Does
  <2>2. ASSUME Slotted(S) PROVE Effect(PushValueOf(t, v), 0)
    <3>1. Effect(t, -1)
      BY <2>2, Pops
    <3> HIDE DEF t
    <3>2. Resized(t, PushValueOf(t, v), Len(t.stk) + 1) /\ Len(S.stk) \in Nat
      BY <2>2, <3>1, Pushed, SlotsOf DEF Effect
    <3> QED
      BY <3>1, <3>2 DEF Effect, Resized
  <2> QED
    BY <1>6, <2>1, <2>2
<1>16. CASE RegisterValue("main")
  <2>1. Does("ref", Ref(S))
    BY <1>16 DEF RegisterValue, Does
  <2>2. ASSUME Slotted(S) PROVE Effect(Ref(S), -1)
    <3> DEFINE t == Pop(S, 1)
               k == RefKey(S)
               slot == [val |-> Last(S.stk), next |-> 0]
    <3>1. Effect(t, -1)
      BY <2>2, Pops
    <3>2. Ref(S) = CASE k = RefNil -> t
                     [] k # RefNil /\ k = S.free -> [t EXCEPT !.free = S.reg[k].next, !.reg[k] = slot]
                     [] k # RefNil /\ k # S.free -> [t EXCEPT !.reg = Append(@, slot)]
      BY DEF Ref
    <3> HIDE DEF t, k, slot
    <3>3. \/ Ref(S) = t
          \/ Ref(S) = [t EXCEPT !.free = S.reg[k].next, !.reg[k] = slot]
          \/ Ref(S) = [t EXCEPT !.reg = Append(@, slot)]
      BY <3>2
    <3>4. /\ {"stk", "ci", "base"} \subseteq DOMAIN Ref(S)
          /\ Ref(S).stk = t.stk /\ Ref(S).ci = t.ci /\ Ref(S).base = t.base
      <4>1. {"stk", "ci", "base"} \subseteq DOMAIN t
        BY <3>1 DEF Effect, Slotted
      <4>2. CASE Ref(S) = t
        BY <4>1, <4>2
      <4>3. CASE Ref(S) = [t EXCEPT !.free = S.reg[k].next, !.reg[k] = slot]
        BY <4>1, <4>3
      <4>4. CASE Ref(S) = [t EXCEPT !.reg = Append(@, slot)]
        BY <4>1, <4>4
      <4> QED
        BY <3>3, <4>2, <4>3, <4>4
    <3> QED
      BY <3>1, <3>4, EffectSame
  <2> QED
    BY <1>5, <2>1, <2>2
<1>17. CASE Lock("main") \/ Unlock("main")
  <2>1. /\ Busy("main") /\ Arg("main").op \in {"lock", "unlock"} /\ Go("main")
        /\ UNCHANGED <<open, left, S>>
    BY <1>17 DEF Lock, Unlock, Op, Arg
  <2>2. Grows(Arg("main")) = 0
    BY <2>1 DEF Grows
  <2>3. Slotted(S) /\ Len(S.stk) \in Nat
    BY <1>2, <2>1, SlotsOf
  <2>4. Effect(S', Grows(Arg("main")))
    <3>1. Effect(S, 0)
      BY <2>3 DEF Effect
    <3> QED
      BY <2>1, <2>2, <3>1
  <2> QED
    BY <2>1, <2>4, StackMoves
<1> QED
  BY <1>7, <1>8, <1>9, <1>10, <1>11, <1>12, <1>13, <1>14, <1>15, <1>16, <1>17

-----------------------------------------------------------------------------
(* Lua calls Java                                                          *)

(* A step that leaves the calls and the frames alone.                      *)
LEMMA StackStays ==
  ASSUME StackInv, UNCHANGED left, open' => open, todo'["main"] = todo["main"],
         open' => /\ {"stk", "ci", "base"} \subseteq DOMAIN S'
                  /\ S'.stk = S.stk /\ S'.ci = S.ci /\ S'.base = S.base
  PROVE  StackInv'
<1>1. ASSUME open' PROVE Stands(todo'["main"], left', S')
  <2>1. PICK f, h \in [1 .. Len(todo["main"]) + 1 -> Nat] : Stacked(todo["main"], left, S, f, h)
    BY <1>1 DEF StackInv, Stands
  <2>2. PICK U : U = S'
    OBVIOUS
  <2>3. /\ {"stk", "ci", "base"} \subseteq DOMAIN U /\ U.stk = S.stk /\ U.ci = S.ci /\ U.base = S.base
    BY <1>1, <2>2
  <2>4. StackOf(U, f[1], h[1])
    BY <2>1, <2>3 DEF Stacked, StackOf, Slotted
  <2>5. Stacked(todo["main"], left, U, f, h)
    BY <2>1, <2>3, <2>4 DEF Stacked
  <2>6. Stands(todo["main"], left, U)
    BY <2>1, <2>5 DEF Stands
  <2> QED
    BY <2>2, <2>6
<1> QED
  BY <1>1 DEF StackInv

(* Nothing is before the main thread.                                      *)
LEMMA StandsIdle ==
  ASSUME NEW n \in Nat, NEW U, StackOf(U, 0, 1 + n)
  PROVE  Stands(<<>>, n, U)
<1> DEFINE s == <<>>
           f == [i \in 1 .. 1 |-> 0]
           h == [i \in 1 .. 1 |-> 1 + n]
<1>1. Len(s) = 0 /\ DOMAIN s = {} /\ Len(s) + 1 = 1 /\ f[1] = 0 /\ h[1] = 1 + n
  OBVIOUS
<1>2. f \in [1 .. Len(s) + 1 -> Nat] /\ h \in [1 .. Len(s) + 1 -> Nat \ {0}] /\ h \in [1 .. Len(s) + 1 -> Nat]
  BY <1>1
<1>3. EndHeight(s, n) = 1 + n
  BY DEF EndHeight, Queued
<1> HIDE DEF f, h, s
<1>4. Levels(s, f) /\ Places(s, f) /\ Heights(s, f, h, 0, 1 + n)
  BY <1>1, <1>2 DEF Levels, Places, Heights
<1>5. Stacked(s, n, U, f, h)
  BY <1>1, <1>3, <1>4 DEF Stacked
<1> QED
  BY <1>2, <1>5 DEF Stands, s

(* What is never but first.                                                *)
LEMMA LaterPlain ==
  ASSUME NEW s \in Seq(Entry), s # <<>>, NEW f, Places(s, f), s[1].op # "setTop",
         NEW k \in 1 .. Len(s) + 1, k > 1 \/ s[1].op # "loadString"
  PROVE  \A j \in k .. Len(s) : s[j].op \notin {"setTop", "loadString"}
<1>1. Len(s) \in Nat /\ DOMAIN s = 1 .. Len(s)
  BY TailIs
<1>2. ASSUME NEW j \in k .. Len(s) PROVE s[j].op \notin {"setTop", "loadString"}
  <2>1. j \in DOMAIN s
    BY <1>1
  <2>2. /\ s[j].op = "setTop" => j = 1
        /\ s[j].op = "loadString" => j = 1 \/ (j = 2 /\ s[1].op = "setTop")
    BY <2>1 DEF Places
  <2> QED
    BY <1>1, <2>2
<1> QED
  BY <1>2

(* Calls inside of Lua code: their heights do not matter.                  *)
LEMMA StackDeep ==
  ASSUME NEW s \in Seq(Entry), NEW v, NEW T, NEW f, NEW h, Stacked(s, v, T, f, h), s # <<>>,
         NEW a \in Seq(Entry), a # <<>>, NEW k \in 1 .. Len(s) + 1, NEW n,
         Fits(a, n, s, f, k), f[k] + n > 0,
         s[1].op # "setTop", k > 1 \/ s[1].op # "loadString",
         k <= Len(s) \/ (Queued(s) <=> Queued(a)),
         \A i \in DOMAIN a :
           /\ a[i].op \notin {"setTop", "loadString", "remove", "insert"}
           /\ a[i].op = "pop" => a[i].i = 1
           /\ a[i].op \in {"pcall", "lua"} /\ a[i].args = 0 => i = Len(a) /\ k = Len(s) + 1,
         NEW U, StackOf(U, f[k] + n, 1),
         f[k] > 0 => U.ci[2].func = T.ci[2].func,
         f[k] = 0 /\ n = 1 => h[k] = U.ci[2].func - 1
  PROVE  Stands(Put(a, s, k), v, U)
<1> DEFINE b == [i \in 1 .. Len(a) |-> 1]
<1>1. Tall(b, Len(a))
  BY DEF Tall, Slots
<1>2. \A j \in k .. Len(s) : s[j].op \notin {"setTop", "loadString"}
  BY LaterPlain DEF Stacked
<1>3. Placed(a, n, s, f, k)
  <2>1. \A i \in DOMAIN a : Allowed(a[i], f[k] + n)
    BY DEF Allowed
  <2> QED
    BY <1>2, <2>1 DEF Placed
<1>4. EndHeight(Put(a, s, k), v) = EndHeight(s, v)
  <2>1. \A i \in DOMAIN a : a[i].op # "setTop"
    OBVIOUS
  <2> QED
    BY <2>1, EndKept DEF Stacked
<1>5. StackOf(U, f[k] + n, IF a = <<>> THEN h[k] ELSE b[1])
  <2>1. b[1] = 1
    <3>1. Len(a) \in Nat /\ Len(a) # 0
      BY LenProperties, EmptySeq
    <3> QED
      BY <3>1
  <2> QED
    BY <2>1
<1>6. ~(f[k] + n = 0)
  <2>1. f[k] \in Nat /\ n \in {0, 1}
    BY LevelsTyped DEF Stacked, Fits
  <2> QED
    BY <2>1
<1> HIDE DEF b
<1> QED
  BY <1>1, <1>3, <1>4, <1>5, <1>6, StackPut

(* A method of LuaJavaAPI, called by Lua.                                  *)
Script(a) ==
  /\ a \in Seq(Entry) /\ a # <<>>
  /\ \A i \in DOMAIN a :
       /\ a[i].op \notin {"lua", "error", "setTop", "loadString", "remove", "insert", "pop", "pcall"}
       /\ ~Checks(a[i])
       /\ a[i].op = "return" <=> i = Len(a)

LEMMA CallBackStands ==
  ASSUME IInv, StackInv, Op("main", "lua"), NEW V, NEW args \in Seq(V), NEW a, Script(a),
         CallBack("main", args, a)
  PROVE  StackInv'
<1> DEFINE s == todo["main"]
           t == [S EXCEPT !.stk = @ \o <<"function">> \o args]
<1>1. /\ s \in Seq(Entry) /\ s # <<>> /\ left \in Nat /\ Arg("main") = s[1] /\ open
  BY Here DEF Op
<1>2. PICK f, h : Stacked(s, left, S, f, h)
  BY Here DEF Op
<1>3. /\ Len(s) \in Nat /\ DOMAIN s = 1 .. Len(s) /\ 1 \in 1 .. Len(s) /\ 1 \in 1 .. Len(s) + 1
      /\ Slotted(S) /\ StackOf(S, f[1], h[1]) /\ f[1] \in Nat /\ f[2] \in Nat
      /\ f[1] = f[2] + (IF Ends(s[1]) THEN 1 ELSE 0)
  BY <1>1, <1>2, HeadIs
<1>4. s[1].op = "lua" /\ f[1] > 0
  <2>1. s[1].op = "lua"
    BY <1>1 DEF Op, Arg
  <2> QED
    BY <1>3, <2>1 DEF Ends
<1>5. todo'["main"] = Put(a, s, 1)
  <2>1. todo'["main"] = a \o s
    BY DEF CallBack, Op, IInv, ShapeInv, Threads
  <2> QED
    BY <1>1, <2>1, SubSeqFull DEF Put
<1>6. StackOf(t, f[1], 1) /\ t.ci = S.ci
  <2>1. PICK W : S.stk \in Seq(W)
    BY <1>3, SlotsOf
  <2> DEFINE Y == W \cup {"function"} \cup V
             r == S.stk \o <<"function">> \o args
  <2>2. S.stk \in Seq(Y) /\ <<"function">> \in Seq(Y) /\ args \in Seq(Y)
    BY <2>1, SeqOfMore
  <2> HIDE DEF Y
  <2>3. r \in Seq(Y)
    BY <2>2, ConcatProperties
  <2>4. t = [S EXCEPT !.stk = r]
    OBVIOUS
  <2> HIDE DEF r, t
  <2>5. Resized(S, t, Len(r))
    BY <1>3, <2>3, <2>4, WithSlots, SlotsOf
  <2> QED
    BY <1>3, <1>4, <2>5, StackSame DEF Resized
<1>7. S' = BeginFrame(t, Len(args)) /\ open' = open /\ left' = left
  BY DEF CallBack
<1>8. Len(args) \in Nat
  BY LenProperties
<1> HIDE DEF t
<1>9. PICK U : U = S'
  OBVIOUS
<1>10. StackOf(U, f[1] + 1, 1) /\ U.ci[2].func = S.ci[2].func
  <2>1. PICK m \in Nat, n \in Nat : m = Len(args) /\ n = f[1]
    BY <1>3, <1>8
  <2>2. U = BeginFrame(t, m) /\ StackOf(t, n, 1) /\ n > 0
    BY <1>4, <1>6, <1>7, <1>9, <2>1
  <2>3. StackOf(U, n + 1, 1) /\ U.ci[2].func = t.ci[2].func
    BY <2>2, FrameBegun
  <2> QED
    BY <1>6, <2>1, <2>3
<1>11. Fits(a, 1, s, f, 1)
  <2>1. Len(a) \in Nat /\ Len(a) # 0 /\ DOMAIN a = 1 .. Len(a)
    BY LenProperties, EmptySeq DEF Script
  <2>2. Len(a) \in DOMAIN a
    BY <2>1
  <2>3. a[Len(a)].op = "return"
    BY <2>2 DEF Script
  <2>4. \A i \in DOMAIN a : Ends(a[i]) <=> i = Len(a)
    BY DEF Script, Ends
  <2> QED
    BY <1>3, <1>4, <2>3, <2>4 DEF Script, Fits
<1>12. Stands(Put(a, s, 1), left, U)
  <2>1. PICK k, n : k = 1 /\ n = 1
    OBVIOUS
  <2>2. /\ Fits(a, n, s, f, k) /\ StackOf(U, f[k] + n, 1) /\ f[k] + n > 0 /\ k \in 1 .. Len(s) + 1
        /\ k <= Len(s) /\ ~(f[k] = 0 /\ n = 1)
    BY <1>3, <1>4, <1>10, <1>11, <2>1
  <2>3. a \in Seq(Entry) /\ a # <<>>
        /\ \A i \in DOMAIN a :
             /\ a[i].op \notin {"setTop", "loadString", "remove", "insert"}
             /\ a[i].op = "pop" => a[i].i = 1
             /\ a[i].op \in {"pcall", "lua"} /\ a[i].args = 0 => i = Len(a) /\ k = Len(s) + 1
    BY DEF Script
  <2>4. Stands(Put(a, s, k), left, U)
    BY <1>1, <1>2, <1>4, <1>10, <2>2, <2>3, StackDeep, ZenonT(60)
  <2> QED
    BY <2>1, <2>4
<1> QED
  BY <1>1, <1>5, <1>7, <1>9, <1>12 DEF StackInv

Body(b) ==
  b \in Seq(Entry) /\ \A i \in DOMAIN b :
    b[i].op \in {"method", "pushResult", "pushJavaObject", "pushValue", "ref"}

LEMMA CallbackScript ==
  ASSUME NEW b, Body(b)
  PROVE  Script(Callback(b))
<1> DEFINE n == Len(b)
           q == <<Do("lock")>> \o b
           r == q \o <<Do("unlock")>>
           a == r \o <<Do("return")>>
<1>1. b \in Seq(Entry) /\ n \in Nat /\ DOMAIN b = 1 .. n
  BY LenProperties DEF Body
<1>2. /\ Do("lock") \in Entry /\ Do("unlock") \in Entry /\ Do("return") \in Entry
      /\ Do("lock").op = "lock" /\ Do("unlock").op = "unlock" /\ Do("return").op = "return"
  BY EntryKinds DEF Do
<1>3. /\ q \in Seq(Entry) /\ Len(q) = n + 1 /\ DOMAIN q = 1 .. n + 1
      /\ \A i \in 1 .. n + 1 : q[i] = Do("lock") \/ (i - 1 \in DOMAIN b /\ q[i] = b[i - 1])
  <2>1. q \in Seq(Entry) /\ Len(q) = n + 1 /\ q[1] = Do("lock") /\ \A i \in 1 .. n : q[i + 1] = b[i]
    BY <1>1, <1>2
  <2>2. \A i \in 1 .. n + 1 : i = 1 \/ (i - 1 \in 1 .. n /\ (i - 1) + 1 = i)
    BY <1>1
  <2> HIDE DEF q
  <2>3. DOMAIN q = 1 .. n + 1
    BY <2>1
  <2>4. \A i \in 1 .. n + 1 : i = 1 \/ q[i] = b[i - 1]
    BY <2>1, <2>2
  <2> QED
    BY <1>1, <2>1, <2>2, <2>3, <2>4
<1> HIDE DEF q
<1>4. /\ r \in Seq(Entry) /\ Len(r) = n + 2
      /\ r[n + 2] = Do("unlock") /\ \A i \in 1 .. n + 1 : r[i] = q[i]
  BY <1>2, <1>3, OneMore
<1> HIDE DEF r
<1>5. /\ a \in Seq(Entry) /\ Len(a) = n + 3 /\ DOMAIN a = 1 .. n + 3
      /\ a[n + 3] = Do("return") /\ \A i \in 1 .. n + 2 : a[i] = r[i]
  <2>1. a \in Seq(Entry) /\ Len(a) = n + 3 /\ a[n + 3] = Do("return") /\ \A i \in 1 .. n + 2 : a[i] = r[i]
    BY <1>1, <1>2, <1>4, OneMore
  <2> HIDE DEF a
  <2> QED
    BY <2>1
<1> HIDE DEF a
<1>6. ASSUME NEW i \in DOMAIN a
      PROVE  \/ i = Len(a) /\ a[i].op = "return"
             \/ i # Len(a) /\ a[i].op \in {"lock", "unlock", "method", "pushResult", "pushJavaObject", "pushValue", "ref"}
  <2>1. i = n + 3 \/ i = n + 2 \/ i \in 1 .. n + 1
    BY <1>1, <1>5
  <2>2. CASE i = n + 3
    BY <1>2, <1>5, <2>2
  <2>3. CASE i = n + 2
    <3>1. n + 2 \in 1 .. n + 2 /\ n + 2 # n + 3
      BY <1>1
    <3>2. a[i] = Do("unlock")
      BY <1>4, <1>5, <2>3, <3>1
    <3> QED
      BY <1>2, <1>5, <2>3, <3>1, <3>2
  <2>4. CASE i \in 1 .. n + 1
    <3>1. i \in 1 .. n + 2 /\ i # n + 3
      BY <1>1, <2>4
    <3>2. a[i] = q[i]
      BY <1>4, <1>5, <2>4, <3>1
    <3>3. a[i] = Do("lock") \/ \E j \in DOMAIN b : a[i] = b[j]
      BY <1>3, <2>4, <3>2
    <3> QED
      BY <1>2, <1>5, <3>1, <3>3 DEF Body
  <2> QED
    BY <2>1, <2>2, <2>3, <2>4
<1>7. a # <<>>
  BY <1>1, <1>5
<1>8. Callback(b) = a
  BY DEF Callback, Synchronized, a, r, q
<1> QED
  BY <1>5, <1>6, <1>7, <1>8 DEF Script, Checks

LEMMA ExecuteScript == Script(Execute)
<1>1. /\ [op |-> "method", locked |-> FALSE] \in Entry /\ Do("pushResult") \in Entry /\ Do("return") \in Entry
      /\ Do("pushResult").op = "pushResult" /\ Do("return").op = "return"
  BY EntryKinds DEF Do
<1> DEFINE x == [op |-> "method", locked |-> FALSE]
<1>2. x.op = "method" /\ x \in Entry
  BY <1>1
<1>3. Execute = <<x, Do("pushResult"), Do("return")>>
  BY DEF Execute
<1> HIDE DEF x
<1>4. /\ Execute \in Seq(Entry) /\ Len(Execute) = 3 /\ DOMAIN Execute = 1 .. 3
      /\ Execute[1] = x /\ Execute[2] = Do("pushResult") /\ Execute[3] = Do("return")
  BY <1>1, <1>2, <1>3
<1>5. Execute # <<>>
  BY <1>4
<1>6. /\ Execute[1].op = "method" /\ Execute[2].op = "pushResult" /\ Execute[3].op = "return"
  BY <1>1, <1>2, <1>4
<1>7. \A i \in DOMAIN Execute : i = 1 \/ i = 2 \/ i = 3
  BY <1>4
<1>8. ASSUME NEW i \in DOMAIN Execute
      PROVE  /\ Execute[i].op \in {"method", "pushResult", "return"}
             /\ Execute[i].op = "return" <=> i = Len(Execute)
  BY <1>4, <1>6, <1>7
<1> QED
  BY <1>4, <1>5, <1>8 DEF Script, Checks

LEMMA CallsStand ==
  ASSUME IInv, StackInv,
         \/ \E u \in Userdata : ObjectIndex("main", u) \/ ObjectIndexReturn("main", u)
                                \/ JavaFunctionCall("main", u) \/ CollectUserdata("main", u)
         \/ JavaBindClass("main") \/ ClassIndex("main") \/ JavaNew("main")
         \/ JavaNewInstance("main") \/ JavaLoadLib("main")
         \/ \E o \in Objects : JavaCreateProxy("main", o)
  PROVE  StackInv'
<1> DEFINE Calls(args, a) == Op("main", "lua") /\ CallBack("main", args, a)
           Alone == /\ Op("main", "lua") /\ UNCHANGED <<open, todo, left>>
                    /\ {"stk", "ci", "base"} \subseteq DOMAIN S'
                    /\ S'.stk = S.stk /\ S'.ci = S.ci /\ S'.base = S.base
<1>1. ASSUME Alone PROVE StackInv'
  BY <1>1, StackStays
<1>2. ASSUME Busy("main") PROVE {"stk", "ci", "base"} \subseteq DOMAIN S
  BY <1>2, Here, HeadIs DEF Slotted
<1>3. ASSUME NEW args, NEW V, args \in Seq(V), NEW a, Script(a), Calls(args, a) PROVE StackInv'
  BY <1>3, CallBackStands
<1>4. \A b : Body(b) => Script(Callback(b))
  BY CallbackScript
<1>5. Script(FieldValue) /\ Script(InvokeMethod) /\ Script(NewInstance) /\ Script(LoadLib)
      /\ Script(Execute) /\ \A o \in Objects : Script(CreateProxy(o))
  <2> DEFINE call == [op |-> "method", locked |-> TRUE]
  <2>1. /\ Do("pushResult") \in Entry /\ Do("pushJavaObject") \in Entry /\ call \in Entry
        /\ Do("pushResult").op = "pushResult" /\ Do("pushJavaObject").op = "pushJavaObject"
        /\ call.op = "method"
    BY EntryKinds DEF Do
  <2> HIDE DEF call
  <2>2. Body(<<Do("pushResult")>>) /\ Body(<<call>>)
    BY <2>1 DEF Body
  <2>3. Body(<<call, Do("pushResult")>>) /\ Body(<<call, Do("pushJavaObject")>>)
    <3>1. ASSUME NEW x \in Entry, NEW y \in Entry,
                 x.op = "method", y.op \in {"pushResult", "pushJavaObject"}
          PROVE  Body(<<x, y>>)
      <4>1. <<x, y>> \in Seq(Entry) /\ DOMAIN <<x, y>> = {1, 2} /\ <<x, y>>[1] = x /\ <<x, y>>[2] = y
        OBVIOUS
      <4> QED
        BY <3>1, <4>1 DEF Body
    <3> QED
      BY <2>1, <3>1
  <2>4. ASSUME NEW o \in Objects
        PROVE  Body(<<Index("pushValue", 2), Of("ref", o), Do("pushJavaObject")>>)
    <3> DEFINE x == Index("pushValue", 2)
               y == Of("ref", o)
               z == Do("pushJavaObject")
    <3>1. x \in Entry /\ y \in Entry /\ z \in Entry /\ x.op = "pushValue" /\ y.op = "ref" /\ z.op = "pushJavaObject"
      BY <2>1, EntryKinds DEF Index, Of
    <3> HIDE DEF x, y, z
    <3>2. /\ <<x, y, z>> \in Seq(Entry) /\ DOMAIN <<x, y, z>> = {1, 2, 3}
          /\ <<x, y, z>>[1] = x /\ <<x, y, z>>[2] = y /\ <<x, y, z>>[3] = z
      BY <3>1
    <3>3. Body(<<x, y, z>>)
      BY <3>1, <3>2 DEF Body
    <3> QED
      BY <3>3 DEF x, y, z
  <2>5. Script(Callback(<<Do("pushResult")>>)) /\ Script(Callback(<<call>>))
        /\ Script(Callback(<<call, Do("pushResult")>>)) /\ Script(Callback(<<call, Do("pushJavaObject")>>))
    BY <1>4, <2>2, <2>3
  <2>6. ASSUME NEW o \in Objects PROVE Script(CreateProxy(o))
    BY <1>4, <2>4 DEF CreateProxy, Callback
  <2> QED
    BY <2>5, <2>6, ExecuteScript DEF FieldValue, InvokeMethod, NewInstance, LoadLib, Callback, call
<1>6. \A u, v : <<u, v>> \in Seq({u, v}) /\ <<u>> \in Seq({u})
  OBVIOUS
<1>7. CASE \E u \in Userdata : CollectUserdata("main", u)
  BY <1>1, <1>2, <1>7 DEF CollectUserdata, Collected, Op
<1>8. CASE JavaBindClass("main")
  BY <1>1, <1>2, <1>8 DEF JavaBindClass, KeepClass, Op
<1>9. ASSUME NEW u \in Userdata, ObjectIndex("main", u) PROVE StackInv'
  <2>1. CASE CallBack("main", <<u, "string">>, FieldValue)
    BY <1>3, <1>5, <1>6, <1>9, <2>1 DEF ObjectIndex, Named
  <2>2. CASE /\ S' = [S EXCEPT !.ud[u].called = TRUE]
             /\ UNCHANGED <<states, made, open, stateId, object, todo, monitor, left>>
    BY <1>1, <1>2, <1>9, <2>2 DEF ObjectIndex, Named, Op
  <2> QED
    BY <1>9, <2>1, <2>2 DEF ObjectIndex
<1>10. CASE \E u \in Userdata : ObjectIndexReturn("main", u)
  BY <1>3, <1>5, <1>6, <1>10 DEF ObjectIndexReturn, Named
<1>11. CASE \E u \in Userdata : JavaFunctionCall("main", u)
  BY <1>3, <1>5, <1>6, <1>11 DEF JavaFunctionCall, Named
<1>12. CASE ClassIndex("main")
  BY <1>3, <1>5, <1>6, <1>12 DEF ClassIndex, NamedClass
<1>13. CASE JavaNew("main") \/ JavaNewInstance("main") \/ JavaLoadLib("main")
  BY <1>3, <1>5, <1>6, <1>13 DEF JavaNew, JavaNewInstance, JavaLoadLib, NamedClass
<1>14. CASE \E o \in Objects : JavaCreateProxy("main", o)
  BY <1>3, <1>5, <1>6, <1>14 DEF JavaCreateProxy
<1> QED
  BY <1>7, <1>8, <1>9, <1>10, <1>11, <1>12, <1>13, <1>14

-----------------------------------------------------------------------------
(* Calls are done or given up                                              *)

(* The calls before k are done or given up.                                *)
LEMMA StackDrops ==
  ASSUME NEW s \in Seq(Entry), s # <<>>, NEW v, NEW T, NEW f, NEW h, Stacked(s, v, T, f, h),
         s[1].op # "setTop", NEW k \in 1 .. Len(s) + 1, k > 1, k <= Len(s) \/ ~Queued(s),
         NEW U, StackOf(U, f[k], h[k]), f[k] > 0 => U.ci[2].func = T.ci[2].func
  PROVE  Stands(Put(<<>>, s, k), v, U)
<1>1. PICK a \in Seq(Entry), n \in Nat : a = <<>> /\ n = 0
  <2>1. <<>> \in Seq(Entry)
    OBVIOUS
  <2> QED
    BY <2>1
<1> DEFINE b == [i \in 1 .. 0 |-> 1]
<1>2. Len(a) = 0 /\ DOMAIN a = {}
  BY <1>1
<1>3. Fits(a, n, s, f, k) /\ Placed(a, n, s, f, k) /\ Tall(b, Len(a)) /\ Rises(a, b, h[k])
  BY <1>1, <1>2 DEF Fits, Placed, Tall, Rises
<1>4. EndHeight(Put(a, s, k), v) = EndHeight(s, v)
  <2>1. k <= Len(s) \/ (Queued(s) <=> Queued(a))
    BY <1>1 DEF Queued
  <2>2. \A i \in DOMAIN a : a[i].op # "setTop"
    BY <1>2
  <2> QED
    BY <2>1, <2>2, EndKept DEF Stacked
<1>5. f[k] \in Nat
  BY LevelsTyped DEF Stacked
<1>6. StackOf(U, f[k] + n, IF a = <<>> THEN h[k] ELSE b[1]) /\ ~(f[k] = 0 /\ n = 1)
  <2>1. f[k] + n = f[k]
    BY <1>1, <1>5
  <2> QED
    BY <1>1, <2>1
<1> HIDE DEF b
<1>7. Stands(Put(a, s, k), v, U)
  BY <1>3, <1>4, <1>6, StackPut
<1> QED
  BY <1>1, <1>7

LEMMA CallbackReturnsStands ==
  ASSUME IInv, StackInv, CallbackReturns("main")
  PROVE  StackInv'
<1> DEFINE s == todo["main"]
           t == EndFrame(S, <<>>)
<1>1. /\ s \in Seq(Entry) /\ s # <<>> /\ left \in Nat /\ Arg("main") = s[1] /\ open
      /\ todo'["main"] = Put(<<>>, s, 2)
  BY Here DEF CallbackReturns, Op
<1>2. PICK f, h : Stacked(s, left, S, f, h)
  BY Here DEF CallbackReturns, Op
<1>3. /\ Len(s) \in Nat /\ DOMAIN s = 1 .. Len(s) /\ 1 \in 1 .. Len(s) /\ 2 \in 1 .. Len(s) + 1
      /\ Slotted(S) /\ StackOf(S, f[1], h[1]) /\ f[1] \in Nat /\ f[2] \in Nat
      /\ f[1] = f[2] + (IF Ends(s[1]) THEN 1 ELSE 0)
  BY <1>1, <1>2, HeadIs
<1>4. s[1].op = "return" /\ f[1] = f[2] + 1
  <2>1. s[1].op = "return"
    BY <1>1 DEF CallbackReturns, Op, Arg
  <2> QED
    BY <1>3, <2>1 DEF Ends
<1>5. f[2] > 0 /\ 2 <= Len(s)
  <2>1. PICK p \in 1 .. Len(s) : s[p].op = "lua"
    BY <1>2, <1>3, <1>4, SMTT(60) DEF Stacked, Levels
  <2>2. p \in 2 .. Len(s) /\ 2 \in DOMAIN s
    BY <1>3, <1>4, <2>1
  <2>3. f[2] # 0
    BY <1>2, <2>1, <2>2 DEF Stacked, Levels
  <2> QED
    BY <1>3, <2>2, <2>3
<1>6. StackOf(t, f[2], h[2]) /\ t.ci[2].func = S.ci[2].func
  <2>1. PICK n \in Nat : n = f[2]
    BY <1>3
  <2>2. StackOf(S, n + 1, h[1]) /\ n > 0
    BY <1>3, <1>4, <1>5, <2>1
  <2>3. <<>> \in Seq({})
    OBVIOUS
  <2>4. PICK q \in Seq({}) : q = <<>>
    BY <2>3
  <2>5. StackOf(EndFrame(S, q), n, h[2]) /\ EndFrame(S, q).ci[2].func = S.ci[2].func
    BY <2>2, FrameEnded
  <2> QED
    BY <2>1, <2>4, <2>5
<1>7. S' = t \/ S' = [t EXCEPT !.x = Last(S.stk)]
  BY DEF CallbackReturns
<1> HIDE DEF t
<1>8. PICK U : U = S'
  OBVIOUS
<1>9. U.stk = t.stk /\ U.ci = t.ci /\ U.base = t.base /\ {"stk", "ci", "base"} \subseteq DOMAIN U
  BY <1>6, <1>7, <1>8 DEF StackOf, Slotted
<1>10. StackOf(U, f[2], h[2])
  <2>1. Slotted(U)
    BY <1>6, <1>9 DEF StackOf, Slotted
  <2> QED
    BY <1>3, <1>5, <1>6, <1>9, <2>1, StackSame
<1>11. Stands(Put(<<>>, s, 2), left, U)
  <2>1. PICK k \in 1 .. Len(s) + 1 : k = 2
    BY <1>3
  <2>2. k > 1 /\ k <= Len(s) /\ StackOf(U, f[k], h[k]) /\ U.ci[2].func = S.ci[2].func
    BY <1>5, <1>6, <1>9, <1>10, <2>1
  <2>3. Stands(Put(<<>>, s, k), left, U)
    BY <1>1, <1>2, <1>4, <2>2, StackDrops
  <2> QED
    BY <2>1, <2>3
<1>12. open' = open /\ left' = left
  BY DEF CallbackReturns
<1> QED
  BY <1>1, <1>8, <1>11, <1>12 DEF StackInv

(* The stack does not move while calls are given up.                       *)
LEMMA MethodReturnsStands ==
  ASSUME IInv, StackInv, MethodReturns
  PROVE  StackInv'
<1> DEFINE s == todo["main"]
<1>1. /\ s \in Seq(Entry) /\ s # <<>> /\ left \in Nat /\ Arg("main") = s[1] /\ open
      /\ Busy("main") /\ s[1].op = "method" /\ UNCHANGED <<S, open, left>>
  BY Here DEF MethodReturns, Op, Arg
<1>2. PICK f, h : Stacked(s, left, S, f, h)
  BY Here, <1>1
<1>3. /\ Len(s) \in Nat /\ DOMAIN s = 1 .. Len(s) /\ 1 \in 1 .. Len(s) /\ 2 \in 1 .. Len(s) + 1
      /\ Slotted(S) /\ StackOf(S, f[1], h[1]) /\ f[1] \in Nat /\ f[2] \in Nat
      /\ f[1] = f[2] + (IF Ends(s[1]) THEN 1 ELSE 0)
  BY <1>1, <1>2, HeadIs
<1>4. CASE Go("main")
  <2>1. Grows(Arg("main")) = 0
    BY <1>1 DEF Grows
  <2>2. Effect(S, 0)
    BY <1>3, SlotsOf DEF Effect
  <2>3. Effect(S', Grows(Arg("main")))
    BY <1>1, <2>1, <2>2
  <2> QED
    BY <1>1, <1>4, <2>3, StackMoves
<1>5. CASE /\ s[2].op = "pushResult"
           /\ todo' = [todo EXCEPT !["main"] = SubSeq(@, 3, Len(@))]
  <2>1. PICK p \in 1 + 1 .. Len(s) :
          s[p].op = "lua" /\ f[1] = f[p] + 1 /\ \A m \in 1 .. p - 1 : s[m].op # "lua"
    BY <1>1, <1>2, <1>3 DEF Stacked, Levels, Finds
  <2>2. p # 2
    BY <1>5, <2>1
  <2>3. 3 <= Len(s) /\ 2 \in DOMAIN s /\ 3 \in 1 .. Len(s) + 1 /\ p \in 1 .. Len(s) + 1
    BY <1>3, <2>1, <2>2
  <2>4. f[2] = f[1] /\ f[3] = f[1] /\ f[1] > 0
    <3>1. f[2] = f[2 + 1] + (IF Ends(s[2]) THEN 1 ELSE 0)
      BY <1>2, <2>3 DEF Stacked, Levels
    <3>2. f[3] \in Nat /\ f[p] \in Nat
      BY <1>2, <2>3 DEF Stacked, Levels
    <3>3. ~Ends(s[1]) /\ ~Ends(s[2])
      BY <1>1, <1>5 DEF Ends
    <3> QED
      BY <1>3, <2>1, <3>1, <3>2, <3>3
  <2>5. PICK k \in 1 .. Len(s) + 1 : k = 3
    BY <2>3
  <2>6. StackOf(S, f[k], h[k])
    <3>1. f[k] = f[1] /\ f[1] # 0
      BY <2>4, <2>5
    <3>2. StackOf(S, f[k], h[1])
      BY <1>3, <3>1
    <3> QED
      BY <3>1, <3>2 DEF StackOf
  <2>7. k > 1 /\ k <= Len(s)
    BY <2>3, <2>5
  <2>8. Stands(Put(<<>>, s, k), left, S)
    BY <1>1, <1>2, <2>6, <2>7, StackDrops
  <2>9. todo'["main"] = Put(<<>>, s, k)
    <3>1. SubSeq(s, k, Len(s)) \in Seq(Entry)
      BY <1>1, <2>5, SubSeqProperties
    <3>2. Put(<<>>, s, k) = SubSeq(s, k, Len(s))
      BY <3>1, ConcatEmptySeq DEF Put
    <3> QED
      BY <1>5, <2>5, <3>2, MainGone DEF MainGoes, IInv
  <2> QED
    BY <1>1, <2>8, <2>9 DEF StackInv
<1> QED
  BY <1>4, <1>5 DEF MethodReturns

LEMMA LeaveBlockStands ==
  ASSUME IInv, StackInv, LeaveBlock("main")
  PROVE  StackInv'
<1> DEFINE s == todo["main"]
<1>1. /\ s \in Seq(Entry) /\ s # <<>> /\ left \in Nat /\ Arg("main") = s[1] /\ open
      /\ Busy("main") /\ s[1].op = "fail" /\ UNCHANGED <<open, left>> /\ MainGoes(UpToUnlock(s))
  BY Here DEF LeaveBlock, Op, Arg, Native, MainGoes
<1> PICK D : S' = FromCPtr(Pop(S, 1), "main", D)
  BY DEF LeaveBlock, Native
<1>2. PICK f, h : Stacked(s, left, S, f, h)
  BY Here, <1>1
<1>3. /\ Len(s) \in Nat /\ DOMAIN s = 1 .. Len(s) /\ 1 \in 1 .. Len(s) /\ 1 \in DOMAIN s
      /\ Slotted(S) /\ StackOf(S, f[1], h[1]) /\ f[1] \in Nat
      /\ h[1] \in Slots /\ (f[1] = 0 => Len(S.stk) = h[1] /\ Len(S.stk) > 0)
  BY <1>1, <1>2, HeadIs
<1>4. PICK p \in 1 + 1 .. Len(s) :
        s[p].op = "unlock" /\ f[1] = f[p] + 0 /\ \A m \in 1 .. p - 1 : s[m].op # "unlock"
  BY <1>1, <1>2, <1>3 DEF Stacked, Levels, Finds, Checks
<1>5. p \in 1 .. Len(s) /\ p \in 1 .. Len(s) + 1 /\ p > 1 /\ p <= Len(s)
  BY <1>3
<1>6. f[p] = f[1]
  <2>1. f[p] \in Nat
    BY <1>2, <1>5 DEF Stacked, Levels
  <2> QED
    BY <1>4, <2>1
<1>7. ASSUME f[1] = 0 PROVE h[1] = h[p] + 1 /\ h[p] \in Slots
  <2>1. Heights(s, f, h, 0, EndHeight(s, left))
    BY <1>2, <1>7 DEF Stacked
  <2>2. Finds(s, h, 1, "unlock", 1)
    BY <1>1, <1>3, <1>7, <2>1 DEF Heights, Checks
  <2>3. PICK q \in 1 + 1 .. Len(s) :
          s[q].op = "unlock" /\ h[1] = h[q] + 1 /\ \A m \in 1 .. q - 1 : s[m].op # "unlock"
    BY <2>2 DEF Finds
  <2>4. q = p
    <3>1. ~(q \in 1 .. p - 1) /\ ~(p \in 1 .. q - 1)
      BY <1>4, <2>3
    <3>2. q \in 1 .. Len(s) /\ p \in 1 .. Len(s)
      BY <1>3
    <3> QED
      BY ONLY <3>1, <3>2, <1>3
  <2>5. h[p] \in Slots
    BY <1>5, <2>1 DEF Heights, Slots
  <2> QED
    BY <2>3, <2>4, <2>5
<1>8. PICK U : U = S'
  OBVIOUS
<1>9. Effect(U, -1)
  BY <1>3, <1>8, Pops, EnvSet
<1>10. StackOf(U, f[p], h[p])
  <2>1. f[1] = 0 => Len(U.stk) = h[p]
    BY <1>3, <1>7, <1>9 DEF Effect, Slots
  <2> QED
    BY <1>3, <1>6, <1>9, <2>1, StackSame DEF Effect
<1>11. Stands(Put(<<>>, s, p), left, U)
  <2>1. U.ci[2].func = S.ci[2].func
    BY <1>9 DEF Effect
  <2> QED
    BY <1>1, <1>2, <1>5, <1>10, <2>1, StackDrops
<1>12. todo'["main"] = Put(<<>>, s, p)
  <2>1. UpToUnlock(s) = SubSeq(s, p, Len(s))
    BY <1>1, <1>4, <1>5, FirstIs
  <2>2. SubSeq(s, p, Len(s)) \in Seq(Entry)
    BY <1>1, <1>3, <1>5, SubSeqProperties
  <2>3. Put(<<>>, s, p) = SubSeq(s, p, Len(s))
    BY <2>2, ConcatEmptySeq DEF Put
  <2> QED
    BY <1>1, <2>1, <2>3, MainGone DEF IInv
<1> QED
  BY <1>1, <1>8, <1>11, <1>12 DEF StackInv

LEMMA EntryGrows ==
  ASSUME NEW x \in Entry
  PROVE  Grows(x) \in Int
<1>1. x.op = "pcall" => x.args \in {0, 1}
  BY EntryFacts
<1> QED
  BY <1>1 DEF Grows

(* What is left on the stack raises all that comes after.                  *)
LEMMA OneHigher ==
  ASSUME NEW t \in Seq(Entry), t # <<>>, NEW v \in Nat,
         NEW T, NEW f, NEW h, Stacked(t, v, T, f, h), f[1] = 0,
         \A i \in DOMAIN t : t[i].op \notin {"setTop", "loadString"},
         NEW U, StackOf(U, 0, h[1] + 1)
  PROVE  Stands(t, v + 1, U)
<1> DEFINE g == [i \in 1 .. Len(t) + 1 |-> h[i] + 1]
<1>1. Len(t) \in Nat /\ DOMAIN t = 1 .. Len(t) /\ 1 \in 1 .. Len(t)
  BY TailIs, LenProperties
<1>2. Levels(t, f) /\ Places(t, f) /\ Heights(t, f, h, 0, EndHeight(t, v))
  BY DEF Stacked
<1>3. \A i \in 1 .. Len(t) + 1 : f[i] = 0
  <2>1. \A q \in 1 .. Len(t) : t[q].op # "lua"
    BY <1>1, <1>2 DEF Levels
  <2>2. \A i \in 1 .. Len(t) : f[i] = 0
    <3>1. \A i \in 1 .. Len(t) : \A q \in i .. Len(t) : q \in 1 .. Len(t)
      BY <1>1
    <3> QED
      BY <1>1, <1>2, <2>1, <3>1 DEF Levels
  <2>3. f[Len(t) + 1] = 0
    BY <1>2 DEF Levels
  <2> QED
    BY <1>1, <2>2, <2>3
<1>4. /\ g \in [1 .. Len(t) + 1 -> Nat \ {0}]
      /\ \A i \in 1 .. Len(t) + 1 : h[i] \in Nat /\ h[i] > 0 /\ g[i] = h[i] + 1
  <2>1. h \in [1 .. Len(t) + 1 -> Nat \ {0}]
    BY <1>2 DEF Heights
  <2> QED
    BY <2>1
<1> HIDE DEF g
<1>5. EndHeight(t, v + 1) = EndHeight(t, v) + 1
  BY <1>1 DEF EndHeight
<1>6. g[Len(t) + 1] = EndHeight(t, v + 1)
  <2>1. h[Len(t) + 1] = EndHeight(t, v) /\ Len(t) + 1 \in 1 .. Len(t) + 1
    BY <1>1, <1>2 DEF Heights
  <2> QED
    BY <1>4, <1>5, <2>1
<1>7. ASSUME NEW i \in DOMAIN t
      PROVE  /\ g[i + 1] = g[i] + Grows(t[i])
             /\ Checks(t[i]) => Finds(t, g, i, "unlock", 1)
             /\ t[i].op = "insert" => g[i] > 1
  <2>1. i \in 1 .. Len(t) + 1 /\ i + 1 \in 1 .. Len(t) + 1 /\ f[i] = 0
    BY <1>1, <1>3
  <2>2. h[i + 1] = h[i] + Grows(t[i])
    BY <1>2, <2>1 DEF Heights
  <2>3. g[i + 1] = g[i] + Grows(t[i])
    <3>1. t[i] \in Entry
      BY <1>1
    <3>2. Grows(t[i]) \in Int
      BY <3>1, EntryGrows
    <3> QED
      BY <1>4, <2>1, <2>2, <3>2
  <2>4. ASSUME Checks(t[i]) PROVE Finds(t, g, i, "unlock", 1)
    <3>1. Finds(t, h, i, "unlock", 1)
      BY <1>2, <2>1, <2>4 DEF Heights
    <3>2. PICK q \in i + 1 .. Len(t) :
            t[q].op = "unlock" /\ h[i] = h[q] + 1 /\ \A m \in i .. q - 1 : t[m].op # "unlock"
      BY <3>1 DEF Finds
    <3>3. q \in 1 .. Len(t) + 1
      BY <1>1, <2>1
    <3>4. g[i] = g[q] + 1
      BY <1>4, <2>1, <3>2, <3>3
    <3> QED
      BY <3>2, <3>4 DEF Finds
  <2>5. g[i] > 1
    BY <1>4, <2>1
  <2> QED
    BY <2>3, <2>4, <2>5
<1>8. Heights(t, f, g, 0, EndHeight(t, v + 1))
  <2>1. ASSUME NEW i \in DOMAIN t PROVE i + 1 \in 1 .. Len(t) + 1
    BY <1>1
  <2> QED
    BY <1>3, <1>4, <1>6, <1>7, <2>1 DEF Heights
<1>9. StackOf(U, f[1], g[1])
  BY <1>1, <1>4
<1>10. Stacked(t, v + 1, U, f, g)
  BY <1>2, <1>8, <1>9 DEF Stacked
<1>11. f \in [1 .. Len(t) + 1 -> Nat] /\ g \in [1 .. Len(t) + 1 -> Nat]
  BY <1>2, <1>4 DEF Levels
<1> QED
  BY <1>10, <1>11 DEF Stands

(* An exception leaves the frames to the Lua code that called the method.  *)
LEMMA ThrowsStands ==
  ASSUME IInv, StackInv, Throws("main")
  PROVE  StackInv'
<1> DEFINE s == todo["main"]
           a == Thrown(Arg("main").locked)
<1>1. /\ s \in Seq(Entry) /\ s # <<>> /\ left \in Nat /\ Arg("main") = s[1] /\ open /\ Arg("main") \in Entry
      /\ Busy("main") /\ s[1].op = "method" /\ UNCHANGED <<S, open, left>>
      /\ MainGoes(a \o SubSeq(s, SelectInSeq(s, LAMBDA z : z.op = "lua"), Len(s)))
  BY Here DEF Throws, Op, Arg, MainGoes, Thrown
<1>2. PICK f, h : Stacked(s, left, S, f, h)
  BY Here, <1>1
<1>3. /\ Len(s) \in Nat /\ DOMAIN s = 1 .. Len(s) /\ 1 \in 1 .. Len(s) /\ 1 \in DOMAIN s
      /\ StackOf(S, f[1], h[1]) /\ f[1] \in Nat
  BY <1>1, <1>2, HeadIs
<1>4. PICK p \in 1 + 1 .. Len(s) :
        s[p].op = "lua" /\ f[1] = f[p] + 1 /\ \A m \in 1 .. p - 1 : s[m].op # "lua"
  BY <1>1, <1>2, <1>3 DEF Stacked, Levels, Finds
<1>5. p \in 1 .. Len(s) /\ p \in 1 .. Len(s) + 1 /\ p > 1 /\ p <= Len(s) /\ p \in DOMAIN s
  BY <1>3
<1>6. f[p] \in Nat /\ f[p] > 0
  <2>1. f[p] \in Nat
    BY <1>2, <1>5 DEF Stacked, Levels
  <2>2. f[p] # 0
    <3>1. p \in p .. Len(s)
      BY <1>5
    <3> QED
      BY <1>2, <1>4, <1>5, <3>1 DEF Stacked, Levels
  <2> QED
    BY <2>1, <2>2
<1>7. /\ a \in Seq(Entry) /\ a # <<>> /\ a[Len(a)].op = "error"
      /\ \A i \in DOMAIN a : a[i].op \in {"unlock", "error"} /\ (a[i].op = "error" <=> i = Len(a))
  <2>1. /\ Do("unlock") \in Entry /\ Do("error") \in Entry
        /\ Do("unlock").op = "unlock" /\ Do("error").op = "error"
    BY EntryKinds DEF Do
  <2> DEFINE x == Do("unlock")
             y == Do("error")
             q == IF Arg("main").locked THEN <<x>> ELSE <<>>
  <2>2. a = q \o <<y>>
    BY DEF Thrown
  <2> HIDE DEF x, y
  <2>3. q \in Seq(Entry) /\ Len(q) \in {0, 1} /\ \A i \in 1 .. Len(q) : q[i] = x
    <3>1. <<x>> \in Seq(Entry) /\ Len(<<x>>) = 1 /\ <<x>>[1] = x
      BY <2>1 DEF x
    <3>2. <<>> \in Seq(Entry) /\ Len(<<>>) = 0
      OBVIOUS
    <3> QED
      BY <3>1, <3>2
  <2> HIDE DEF a, q
  <2>4. a \in Seq(Entry) /\ Len(a) = Len(q) + 1 /\ a[Len(q) + 1] = y /\ \A i \in 1 .. Len(q) : a[i] = x
    BY <2>1, <2>2, <2>3, OneMore DEF y
  <2>5. DOMAIN a = 1 .. Len(q) + 1 /\ \A i \in DOMAIN a : i = Len(q) + 1 \/ i \in 1 .. Len(q)
    BY <2>3, <2>4
  <2>6. x.op = "unlock" /\ y.op = "error"
    BY <2>1 DEF x, y
  <2>7. \A i \in 1 .. Len(q) : i # Len(q) + 1
    BY <2>3
  <2> QED
    BY <2>3, <2>4, <2>5, <2>6, <2>7
<1>8. todo'["main"] = Put(a, s, p)
  <2>1. SelectInSeq(s, LAMBDA z : z.op = "lua") = p
    BY <1>1, <1>4, <1>5, FirstIs
  <2> QED
    BY <1>1, <2>1, MainGone DEF IInv, Put
<1> HIDE DEF a
<1>9. PICK n : n = 1
  OBVIOUS
<1>10. Fits(a, n, s, f, p)
  BY <1>6, <1>7, <1>9 DEF Fits, Ends, Checks
<1>11. f[p] + n = f[1] /\ f[p] + n > 0
  BY <1>3, <1>4, <1>6, <1>9
<1>12. StackOf(S, f[p] + n, 1)
  BY <1>3, <1>11 DEF StackOf
<1>13. \A i \in DOMAIN a :
         /\ a[i].op \notin {"setTop", "loadString", "remove", "insert"}
         /\ a[i].op = "pop" => a[i].i = 1
         /\ a[i].op \in {"pcall", "lua"} /\ a[i].args = 0 => i = Len(a) /\ p = Len(s) + 1
  BY <1>7
<1>14. Stands(Put(a, s, p), left, S)
  <2>1. f[p] > 0 => S.ci[2].func = S.ci[2].func
    OBVIOUS
  <2>2. ~(f[p] = 0 /\ n = 1) /\ s[1].op # "setTop"
    BY <1>1, <1>6
  <2> HIDE DEF s
  <2> QED
    BY <1>1, <1>2, <1>5, <1>7, <1>10, <1>11, <1>12, <1>13, <2>1, <2>2, StackDeep
<1> QED
  BY <1>1, <1>8, <1>14 DEF StackInv

LEMMA LoadStringStands ==
  ASSUME IInv, StackInv, LoadString("main")
  PROVE  StackInv'
<1> DEFINE s == todo["main"]
<1>1. /\ s \in Seq(Entry) /\ s # <<>> /\ left \in Nat /\ Arg("main") = s[1] /\ open
      /\ Busy("main") /\ s[1].op = "loadString" /\ open' = open
  BY Here DEF LoadString, Op, Arg, Native
<1>2. PICK f, h : Stacked(s, left, S, f, h)
  BY Here, <1>1
<1>3. /\ 1 \in DOMAIN s /\ Slotted(S) /\ StackOf(S, f[1], h[1])
  BY <1>1, <1>2, HeadIs
<1>4. f[1] = 0 /\ h[1] = 1
  BY <1>1, <1>2, <1>3 DEF Stacked, Places, Heights
<1>5. \A v : Effect(PushValueOf(S, v), 1)
  BY <1>3, Pushes
<1>6. CASE Native("main", PushValueOf(S, "function")) /\ Go("main") /\ UNCHANGED left
  <2>1. Effect(S', 1)
    BY <1>5, <1>6, EnvSet DEF Native
  <2>2. Grows(Arg("main")) = 1
    BY <1>1 DEF Grows
  <2> QED
    BY <1>1, <1>6, <2>1, <2>2, StackMoves
<1>7. CASE Native("main", PushValueOf(S, "string")) /\ todo' = [todo EXCEPT !["main"] = <<>>] /\ left' = 1
  <2>1. PICK U : U = S'
    OBVIOUS
  <2>2. Effect(U, 1)
    BY <1>5, <1>7, <2>1, EnvSet DEF Native
  <2>3. StackOf(U, 0, 1 + 1)
    <3>1. StackOf(S, 0, 1)
      BY <1>3, <1>4
    <3>2. Len(S.stk) = 1
      BY <3>1 DEF StackOf
    <3>3. Len(U.stk) = 1 + 1
      BY <2>2, <3>2 DEF Effect
    <3> QED
      BY <2>2, <3>1, <3>3 DEF Effect, StackOf
  <2>4. Stands(<<>>, 1, U)
    BY <2>3, StandsIdle
  <2>5. todo'["main"] = <<>>
    BY <1>7, MainGone DEF MainGoes, IInv
  <2> QED
    BY <1>7, <2>1, <2>4, <2>5 DEF StackInv
<1> QED
  BY <1>6, <1>7 DEF LoadString

(* Queued code begins with an empty stack.                                 *)
LEMMA SetTopStands ==
  ASSUME IInv, StackInv, SetTopZero("main")
  PROVE  StackInv'
<1> DEFINE s == todo["main"]
<1>1. /\ s \in Seq(Entry) /\ s # <<>> /\ left \in Nat /\ Arg("main") = s[1] /\ open
      /\ Busy("main") /\ s[1].op = "setTop" /\ open' = open /\ left' = 0
      /\ todo'["main"] = Put(<<>>, s, 2)
  BY Here DEF SetTopZero, Op, Arg, Native
<1> PICK D : S' = FromCPtr(SetTop(S, Arg("main").i), "main", D)
  BY DEF SetTopZero, Native
<1>2. PICK f, h : Stacked(s, left, S, f, h)
  BY Here, <1>1
<1>3. /\ Len(s) \in Nat /\ DOMAIN s = 1 .. Len(s) /\ 1 \in 1 .. Len(s) /\ 2 \in 1 .. Len(s) + 1 /\ 1 \in DOMAIN s
      /\ Slotted(S) /\ StackOf(S, f[1], h[1]) /\ f[1] \in Nat /\ f[2] \in Nat
      /\ f[1] = f[2] + (IF Ends(s[1]) THEN 1 ELSE 0)
      /\ f[1] = 0 => h[2] = 1 /\ S.base = 2
  BY <1>1, <1>2, HeadIs
<1>4. f[1] = 0 /\ s[1].i = 0 /\ f[2] = 0 /\ h[2] = 1
  <2>1. f[1] = 0 /\ s[1].i = 0
    BY <1>1, <1>2, <1>3 DEF Stacked, Places
  <2> QED
    BY <1>3, <2>1
<1>5. Resized(S, SetTop(S, 0), 1)
  <2>1. SetTop(S, 0) = CutTo(S, 2)
    BY <1>3, <1>4 DEF SetTop
  <2>2. PICK n \in Int : n = 2
    OBVIOUS
  <2>3. Resized(S, CutTo(S, n), n - 1)
    BY <1>3, <2>2, Cut
  <2> QED
    BY <2>1, <2>2, <2>3
<1>6. PICK U : U = S'
  OBVIOUS
<1>7. StackOf(U, 0, 1) /\ U.ci = S.ci
  <2>1. U = FromCPtr(SetTop(S, 0), "main", D)
    BY <1>1, <1>4, <1>6
  <2>2. Resized(S, U, 1)
    BY <1>5, <2>1 DEF Resized, FromCPtr, Collected, Slotted
  <2> QED
    BY <1>3, <1>4, <2>2 DEF Resized, StackOf
<1>8. PICK a \in Seq(Entry), n \in Nat, k \in Nat : a = <<>> /\ n = 0 /\ k = 2
  <2>1. <<>> \in Seq(Entry)
    OBVIOUS
  <2> QED
    BY <2>1
<1> DEFINE b == [i \in 1 .. 0 |-> 1]
<1>9. Len(a) = 0 /\ DOMAIN a = {}
  BY <1>8
<1>10. Fits(a, n, s, f, k) /\ Placed(a, n, s, f, k) /\ Tall(b, Len(a)) /\ Rises(a, b, h[k])
  BY <1>8, <1>9 DEF Fits, Placed, Tall, Rises
<1> HIDE DEF b
<1>11. EndHeight(Put(a, s, k), 0) = EndHeight(s, left)
  <2>1. k <= Len(s) \/ (Queued(s) <=> Queued(a))
    <3>1. ASSUME ~(k <= Len(s)) PROVE ~Queued(s)
      <4>1. Len(s) = 1
        <5>1. Len(s) \in Nat /\ 1 \in 1 .. Len(s) /\ ~(2 <= Len(s))
          BY <1>3, <1>8, <3>1
        <5>2. \A m \in Nat : 1 \in 1 .. m /\ ~(2 <= m) => m = 1
          OBVIOUS
        <5> QED
          BY <5>1, <5>2
      <4> QED
        BY <1>1, <4>1 DEF Queued, Last
    <3> QED
      BY <1>8, <3>1 DEF Queued
  <2>2. Queued(Put(a, s, k)) <=> Queued(s)
    BY <1>1, <1>3, <1>8, <2>1, QueuedKept
  <2>3. PICK t : t = Put(a, s, k)
    OBVIOUS
  <2>4. EndHeight(t, 0) = 1 + (IF Queued(t) THEN 1 ELSE 0)
    BY DEF EndHeight
  <2>5. EndHeight(s, left) = 1 + (IF Queued(s) THEN 1 ELSE 0)
    BY <1>1 DEF EndHeight
  <2> QED
    BY <2>2, <2>3, <2>4, <2>5
<1>12. StackOf(U, f[k] + n, IF a = <<>> THEN h[k] ELSE b[1]) /\ f[k] + n = 0 /\ ~(f[k] > 0) /\ ~(n = 1)
  BY <1>4, <1>7, <1>8
<1>13. Stands(Put(a, s, k), 0, U)
  BY <1>1, <1>2, <1>3, <1>8, <1>10, <1>11, <1>12, StackPut
<1> QED
  BY <1>1, <1>6, <1>8, <1>13 DEF StackInv

(* A check that fails leaves everything to the end of the block.           *)
LEMMA HeadFails ==
  ASSUME NEW s \in Seq(Entry), s # <<>>, Checks(s[1]),
         NEW v, NEW T, NEW f, NEW h, Stacked(s, v, T, f, h),
         NEW t \in Seq(Entry), Len(t) = Len(s), t[1].op = "fail",
         \A i \in 2 .. Len(s) : t[i] = s[i]
  PROVE  Stacked(t, v, T, f, h)
<1>1. Len(s) \in Nat /\ DOMAIN s = 1 .. Len(s) /\ DOMAIN t = 1 .. Len(s) /\ 1 \in 1 .. Len(s)
  BY TailIs, LenProperties
<1>2. \A i \in 1 .. Len(s) : i = 1 \/ i \in 2 .. Len(s)
  BY <1>1
<1>3. /\ \A i \in 1 .. Len(s) : \A op \in {"lua", "unlock", "setTop"} : t[i].op = op <=> s[i].op = op
      /\ \A i \in 1 .. Len(s) : /\ Ends(t[i]) <=> Ends(s[i])
                                /\ Checks(t[i]) <=> Checks(s[i])
                                /\ Grows(t[i]) = Grows(s[i])
                                /\ t[i] = s[i] \/ (i = 1 /\ t[i].op = "fail" /\ Checks(s[1]))
  <2>1. /\ \A op \in {"lua", "unlock", "setTop"} : t[1].op = op <=> s[1].op = op
        /\ Ends(t[1]) <=> Ends(s[1])
        /\ Checks(t[1]) <=> Checks(s[1])
        /\ Grows(t[1]) = Grows(s[1])
    BY DEF Checks, Ends, Grows
  <2> QED
    BY <1>2, <2>1
<1>4. ASSUME NEW g, NEW i \in 1 .. Len(s), NEW op \in {"lua", "unlock"}, NEW n, Finds(s, g, i, op, n)
      PROVE  Finds(t, g, i, op, n)
  <2>1. PICK p \in i + 1 .. Len(s) :
          s[p].op = op /\ g[i] = g[p] + n /\ \A m \in i .. p - 1 : s[m].op # op
    BY <1>4 DEF Finds
  <2>2. p \in 1 .. Len(s) /\ \A m \in i .. p - 1 : m \in 1 .. Len(s)
    BY <1>1
  <2>3. t[p].op = op /\ \A m \in i .. p - 1 : t[m].op # op
    BY <1>3, <2>1, <2>2
  <2>4. p \in i + 1 .. Len(t)
    OBVIOUS
  <2> QED
    BY <2>1, <2>3, <2>4 DEF Finds
<1>5. Levels(t, f)
  <2>1. ASSUME NEW i \in 1 .. Len(s)
        PROVE  (\A p \in i .. Len(s) : t[p].op # "lua") <=> \A p \in i .. Len(s) : s[p].op # "lua"
    <3>1. \A p \in i .. Len(s) : p \in 1 .. Len(s)
      BY <1>1
    <3> QED
      BY <1>3, <3>1
  <2>2. \A i \in 1 .. Len(s) : t[i].op = "method" => s[i].op = "method"
    BY <1>3
  <2>3. ASSUME NEW i \in 1 .. Len(s)
        PROVE  /\ f[i] = f[i + 1] + (IF Ends(t[i]) THEN 1 ELSE 0)
               /\ f[i] = 0 <=> \A p \in i .. Len(s) : t[p].op # "lua"
               /\ Checks(t[i]) => Finds(t, f, i, "unlock", 0)
               /\ t[i].op = "method" => Finds(t, f, i, "lua", 1)
    <3>1. /\ f[i] = f[i + 1] + (IF Ends(s[i]) THEN 1 ELSE 0)
          /\ f[i] = 0 <=> \A p \in i .. Len(s) : s[p].op # "lua"
          /\ Checks(s[i]) => Finds(s, f, i, "unlock", 0)
          /\ s[i].op = "method" => Finds(s, f, i, "lua", 1)
      BY <1>1 DEF Stacked, Levels
    <3> QED
      BY <1>3, <1>4, <2>1, <2>2, <3>1
  <2>4. f \in [1 .. Len(s) + 1 -> Nat] /\ f[Len(s) + 1] = 0
    BY DEF Stacked, Levels
  <2> QED
    BY <1>1, <2>3, <2>4 DEF Levels
<1>6. Places(t, f)
  <2>1. ASSUME NEW i \in 1 .. Len(s)
        PROVE  /\ t[i].op \in {"setTop", "loadString", "remove", "insert"} => f[i] = 0
               /\ t[i].op = "setTop" => i = 1 /\ t[i].i = 0
               /\ t[i].op = "loadString" => i = 1 \/ (i = 2 /\ t[1].op = "setTop")
               /\ t[i].op \in {"remove", "insert"} => t[i].i = -2
               /\ t[i].op = "pop" => t[i].i = 1
               /\ t[i].op \in {"pcall", "lua"} /\ t[i].args = 0 => i = Len(s)
    <3>1. CASE t[i].op = "fail"
      BY <3>1
    <3>2. CASE t[i] = s[i]
      <4>1. /\ s[i].op \in {"setTop", "loadString", "remove", "insert"} => f[i] = 0
            /\ s[i].op = "setTop" => i = 1 /\ s[i].i = 0
            /\ s[i].op = "loadString" => i = 1 \/ (i = 2 /\ s[1].op = "setTop")
            /\ s[i].op \in {"remove", "insert"} => s[i].i = -2
            /\ s[i].op = "pop" => s[i].i = 1
            /\ s[i].op \in {"pcall", "lua"} /\ s[i].args = 0 => i = Len(s)
          BY <1>1, Zenon DEF Stacked, Places
      <4>2. t[1].op = "setTop" <=> s[1].op = "setTop"
        BY <1>1, <1>3
      <4> QED
          BY <3>2, <4>1, <4>2, SMTT(60)
    <3> QED
      BY <1>3, <3>1, <3>2
  <2> QED
    BY <1>1, <2>1 DEF Places
<1>7. EndHeight(t, v) = EndHeight(s, v)
  <2>1. Queued(t) <=> Queued(s)
    <3>1. t # <<>> /\ Last(t) = t[Len(s)] /\ Last(s) = s[Len(s)] /\ Len(s) \in 1 .. Len(s)
      BY <1>1 DEF Last
    <3>2. \/ Last(t) = Last(s)
          \/ Last(t).op = "fail" /\ Checks(Last(s))
      BY <1>3, <3>1
    <3> QED
      BY <3>1, <3>2 DEF Queued, Checks
  <2>2. t[1].op # "setTop" /\ s[1].op # "setTop"
    BY DEF Checks
  <2> QED
    BY <2>1, <2>2 DEF EndHeight
<1>8. ASSUME NEW low, Heights(s, f, h, low, EndHeight(s, v)) PROVE Heights(t, f, h, low, EndHeight(s, v))
  <2>1. \A i \in 1 .. Len(s) : t[i].op \in {"insert", "loadString"} => s[i].op = t[i].op
    BY <1>3
  <2>2. ASSUME NEW i \in 1 .. Len(s)
        PROVE  /\ f[i] = 0 => h[i + 1] = (IF t[i].op = "setTop" THEN 1 ELSE h[i] + Grows(t[i]))
               /\ f[i] = 1 /\ f[i + 1] = 0 => h[i + 1] = low - 1
               /\ f[i] = 0 /\ Checks(t[i]) => Finds(t, h, i, "unlock", 1)
               /\ t[i].op = "insert" => h[i] > 1
               /\ t[i].op = "loadString" => h[i] = 1
    <3>1. /\ f[i] = 0 => h[i + 1] = (IF s[i].op = "setTop" THEN 1 ELSE h[i] + Grows(s[i]))
          /\ f[i] = 1 /\ f[i + 1] = 0 => h[i + 1] = low - 1
          /\ f[i] = 0 /\ Checks(s[i]) => Finds(s, h, i, "unlock", 1)
          /\ s[i].op = "insert" => h[i] > 1
          /\ s[i].op = "loadString" => h[i] = 1
      BY <1>1, <1>8 DEF Heights
    <3>2. Checks(t[i]) => Checks(s[i])
      BY <1>3
    <3>3. f[i] = 0 => h[i + 1] = (IF t[i].op = "setTop" THEN 1 ELSE h[i] + Grows(t[i]))
      BY <1>3, <3>1
    <3>4. f[i] = 0 /\ Checks(t[i]) => Finds(t, h, i, "unlock", 1)
      BY <1>4, <3>1, <3>2
    <3> QED
      BY <2>1, <3>1, <3>3, <3>4
  <2>3. h \in [1 .. Len(s) + 1 -> Nat \ {0}] /\ h[Len(s) + 1] = EndHeight(s, v)
    BY <1>8 DEF Heights
  <2> QED
    BY <1>1, <2>2, <2>3 DEF Heights
<1> QED
  BY <1>5, <1>6, <1>7, <1>8 DEF Stacked

LEMMA CheckStands ==
  ASSUME IInv, StackInv, Check("main")
  PROVE  StackInv'
<1> DEFINE s == todo["main"]
<1>1. /\ s \in Seq(Entry) /\ s # <<>> /\ left \in Nat /\ Arg("main") = s[1] /\ open
      /\ Busy("main") /\ Arg("main").op \in {"checkTable", "checkCallable"} /\ UNCHANGED <<open, left>>
      /\ Go("main") \/ todo'["main"] = Put(<<Do("fail")>>, s, 2)
  BY Here DEF Check, Op, Arg, Native, Go
<1> PICK D : S' = FromCPtr(S, "main", D)
  BY DEF Check, Native
<1>2. PICK f, h : Stacked(s, left, S, f, h)
  BY Here, <1>1
<1>3. Len(s) \in Nat /\ Slotted(S) /\ 2 \in 1 .. Len(s) + 1
  BY <1>1, <1>2, HeadIs
<1>4. CASE Go("main")
  <2>1. Effect(S, 0)
    BY <1>3, SlotsOf DEF Effect
  <2>2. Grows(Arg("main")) = 0
    BY <1>1 DEF Grows
  <2>3. Effect(S', Grows(Arg("main")))
    BY <1>1, <2>1, <2>2, EnvSet
  <2> QED
    BY <1>1, <1>4, <2>3, StackMoves
<1>5. CASE todo'["main"] = Put(<<Do("fail")>>, s, 2)
  <2>1. PICK a \in Seq(Entry), k \in 1 .. Len(s) + 1 : a = <<Do("fail")>> /\ k = 2
    <3>1. Do("fail") \in Entry
      BY EntryKinds
    <3>2. <<Do("fail")>> \in Seq(Entry)
      BY <3>1
    <3> QED
      BY <1>3, <3>2
  <2>2. PICK t : t = Put(a, s, k)
    OBVIOUS
  <2>3. Len(a) = 1 /\ a[1].op = "fail"
    BY <2>1 DEF Do
  <2>4. /\ t \in Seq(Entry) /\ Len(t) = Len(s) + (Len(a) + 1 - k)
        /\ \A i \in 1 .. Len(a) : i \in 1 .. Len(t) /\ t[i] = a[i]
        /\ \A j \in k .. Len(s) : t[j + (Len(a) + 1 - k)] = s[j]
    BY <1>1, <2>2, PutIs, ZenonT(60)
  <2>5. Len(t) = Len(s) /\ t[1].op = "fail" /\ \A j \in 2 .. Len(s) : t[j] = s[j]
    <3>1. Len(a) + 1 - k = 0 /\ 1 \in 1 .. Len(a)
      BY <2>1, <2>3
    <3>2. \A j \in 2 .. Len(s) : j + 0 = j
      BY <1>3
    <3> QED
      BY <1>3, <2>1, <2>3, <2>4, <3>1, <3>2
  <2>6. PICK U : U = S'
    OBVIOUS
  <2>7. Stacked(t, left, U, f, h)
    <3>1. Stacked(t, left, S, f, h)
      BY <1>1, <1>2, <2>4, <2>5, HeadFails DEF Checks
    <3>2. U.stk = S.stk /\ U.ci = S.ci /\ U.base = S.base /\ {"stk", "ci", "base"} \subseteq DOMAIN U
      BY <1>3, <2>6 DEF FromCPtr, Collected, Slotted
    <3> QED
      BY <3>1, <3>2 DEF Stacked, StackOf, Slotted
  <2>8. Stands(t, left, U)
    <3>1. f \in [1 .. Len(t) + 1 -> Nat] /\ h \in [1 .. Len(t) + 1 -> Nat]
      BY <2>7 DEF Stacked, Levels, Heights
    <3> QED
      BY <2>7, <3>1 DEF Stands
  <2>9. todo'["main"] = t
    BY <1>5, <2>1, <2>2
  <2> QED
    BY <1>1, <2>6, <2>8, <2>9 DEF StackInv
<1> QED
  BY <1>1, <1>4, <1>5

(* A pcall begins over its arguments.                                      *)
LEMMA PcallStands ==
  ASSUME IInv, StackInv, Pcall("main")
  PROVE  StackInv'
<1> DEFINE s == todo["main"]
           x == Arg("main")
           y == [x EXCEPT !.op = "lua"]
<1>1. /\ s \in Seq(Entry) /\ s # <<>> /\ left \in Nat /\ x = s[1] /\ open /\ x \in Entry
      /\ Busy("main") /\ s[1].op = "pcall" /\ UNCHANGED <<open, left>>
      /\ todo'["main"] = Put(<<y>>, s, 2)
  BY Here DEF Pcall, Op, Arg
<1> PICK D : S' = BeginFrame(FromCPtr(S, "main", D), x.args)
  BY DEF Pcall
<1>2. PICK f, h : Stacked(s, left, S, f, h)
  BY Here, <1>1
<1>3. /\ Len(s) \in Nat /\ DOMAIN s = 1 .. Len(s) /\ 1 \in 1 .. Len(s) /\ 2 \in 1 .. Len(s) + 1 /\ 1 \in DOMAIN s
      /\ Slotted(S) /\ StackOf(S, f[1], h[1]) /\ f[1] \in Nat /\ f[2] \in Nat
      /\ f[1] = f[2] + (IF Ends(s[1]) THEN 1 ELSE 0)
      /\ h[1] \in Slots
      /\ f[1] = 0 => h[2] = IF s[1].op = "setTop" THEN 1 ELSE h[1] + Grows(s[1])
  BY <1>1, <1>2, HeadIs
<1>4. /\ x.args \in {0, 1} /\ y \in Entry /\ y.op = "lua" /\ y.args = x.args
      /\ x.args = 0 => Len(s) = 1
  <2>1. x.args \in {0, 1} /\ y \in Entry
    BY <1>1, EntryFacts
  <2>2. y.op = "lua" /\ y.args = x.args
    BY <1>1 DEF Entry
  <2>3. x.args = 0 => Len(s) = 1
    BY <1>1, <1>2, <1>3 DEF Stacked, Places
  <2> QED
    BY <2>1, <2>2, <2>3
<1>5. f[1] = f[2] /\ Grows(s[1]) = -1 - x.args
  BY <1>1, <1>3 DEF Ends, Grows
<1> HIDE DEF y
<1>6. PICK a \in Seq(Entry), n \in Nat, k \in Nat : a = <<y>> /\ n = 1 /\ k = 2
  <2>1. <<y>> \in Seq(Entry)
    BY <1>4
  <2> QED
    BY <2>1
<1>7. Len(a) = 1 /\ DOMAIN a = {1} /\ a[1] = y /\ a # <<>>
  BY <1>6
<1>8. PICK U : U = S'
  OBVIOUS
<1>9. /\ StackOf(U, f[k] + n, 1)
      /\ f[k] > 0 => U.ci[2].func = S.ci[2].func
      /\ f[k] = 0 /\ n = 1 => h[k] = U.ci[2].func - 1
  <2> DEFINE T == FromCPtr(S, "main", D)
  <2>1. Slotted(T) /\ T.stk = S.stk /\ T.ci = S.ci /\ T.base = S.base
    BY <1>3 DEF FromCPtr, Collected, Slotted
  <2>2. U = BeginFrame(T, x.args)
    BY <1>1, <1>8
  <2> HIDE DEF T
  <2>3. PICK m \in Nat, q \in Nat, e \in Slots : m = x.args /\ q = f[1] /\ e = h[1]
    BY <1>3, <1>4
  <2>4. StackOf(T, q, e)
    BY <1>3, <2>1, <2>3 DEF StackOf
  <2>7. U = BeginFrame(T, m)
    BY <2>2, <2>3
  <2>5. /\ StackOf(U, q + 1, 1)
        /\ q = 0 => U.ci[2].func = e - m
        /\ q > 0 => U.ci[2].func = T.ci[2].func
    <3> HIDE DEF s, x
    <3>1. LET V == BeginFrame(T, m)
          IN  /\ \A w : StackOf(V, q + 1, w)
              /\ q = 0 => V.ci[2].func = e - m
              /\ q > 0 => V.ci[2].func = T.ci[2].func
      BY <2>4, FrameBegun, ZenonT(60)
    <3> QED
      BY <2>7, <3>1
  <2>6. q = 0 => h[2] = (h[1] - m) - 1
    <3>1. q = 0 => h[2] = h[1] + (-1 - m)
      BY <1>1, <1>3, <1>5, <2>3
    <3> QED
      <4>1. e + (-1 - m) = (e - m) - 1
        BY DEF Slots
      <4> QED
        BY ONLY <2>3, <3>1, <4>1
  <2> QED
    BY <1>5, <1>6, <2>1, <2>3, <2>5, <2>6
<1>10. Fits(a, n, s, f, k)
  BY <1>4, <1>6, <1>7 DEF Fits, Ends, Checks
<1>11. \A i \in DOMAIN a :
         /\ a[i].op \notin {"setTop", "loadString", "remove", "insert"}
         /\ a[i].op = "pop" => a[i].i = 1
         /\ a[i].op \in {"pcall", "lua"} /\ a[i].args = 0 => i = Len(a) /\ k = Len(s) + 1
  <2>1. y.args = 0 => k = Len(s) + 1
    <3>1. y.args = 0 => Len(s) = 1
      BY <1>4
    <3>2. k = 1 + 1
      BY <1>6
    <3> QED
      BY ONLY <3>1, <3>2
  <2>2. \A i \in DOMAIN a : i = 1 /\ a[i] = y
    BY <1>7
  <2> QED
    BY <1>4, <1>7, <2>1, <2>2
<1>12. k <= Len(s) \/ (Queued(s) <=> Queued(a))
  <2>1. ASSUME ~(k <= Len(s)) PROVE Queued(s) <=> Queued(a)
    <3>1. Len(s) = 1
      <4>1. \A m \in Nat : 1 \in 1 .. m /\ ~(2 <= m) => m = 1
        OBVIOUS
      <4> QED
        BY <1>3, <1>6, <2>1, <4>1
    <3>2. Last(s) = s[1] /\ Last(a) = y
      BY <1>7, <3>1 DEF Last
    <3> QED
      BY <1>1, <1>4, <1>7, <3>2 DEF Queued
  <2> QED
    BY <2>1
<1>13. Stands(Put(a, s, k), left, U)
  <2>1. f[k] + n > 0 /\ k \in 1 .. Len(s) + 1 /\ k > 1 /\ s[1].op # "setTop"
    BY <1>1, <1>3, <1>6
  <2> HIDE DEF s
  <2> QED
    BY <1>1, <1>2, <1>7, <1>9, <1>10, <1>11, <1>12, <2>1, StackDeep
<1> QED
  BY <1>1, <1>6, <1>8, <1>13 DEF StackInv

-----------------------------------------------------------------------------
(* Lua code ends                                                           *)

(* Lua code ended: its frame Z is taken down, the results stay.            *)
LEMMA Returned ==
  ASSUME NEW s \in Seq(Entry), s # <<>>, NEW v, NEW T, NEW f, NEW h, Stacked(s, v, T, f, h),
         NEW k \in 1 .. Len(s) + 1, k > 1, s[k - 1].op = "lua",
         NEW Z, StackOf(Z, f[k] + 1, 1), Z.ci[2].func = T.ci[2].func,
         NEW V, NEW results \in Seq(V), NEW U, U = EndFrame(Z, results)
  PROVE  /\ f[k] \in Nat /\ h[k] \in Slots
         /\ f[k] > 0 => StackOf(U, f[k], 1) /\ U.ci[2].func = T.ci[2].func
         /\ f[k] = 0 => StackOf(U, 0, h[k] + Len(results))
<1>1. Len(s) \in Nat /\ DOMAIN s = 1 .. Len(s) /\ k - 1 \in DOMAIN s /\ (k - 1) + 1 = k /\ 1 \in 1 .. Len(s) + 1
  BY LenProperties
<1> DEFINE low == IF f[1] = 0 THEN 0 ELSE T.ci[2].func
<1>2. Levels(s, f) /\ Heights(s, f, h, low, EndHeight(s, v))
  BY DEF Stacked
<1>3. f[k] \in Nat /\ h[k] \in Slots
  BY <1>2 DEF Levels, Heights, Slots
<1>4. f[k - 1] = f[k] + 1
  BY <1>1, <1>2 DEF Levels, Ends
<1>5. f[1] # 0
  <2>1. ASSUME f[1] = 0 PROVE FALSE
    <3>1. \A j \in 1 .. Len(s) + 1 : f[j] = 0
      BY <1>1, <1>2, <2>1, NoneLeft
    <3> QED
      BY <1>1, <1>3, <1>4, <3>1
  <2> QED
    BY <2>1
<1>6. f[k] = 0 => h[k] = Z.ci[2].func - 1
  <2>1. PICK m \in DOMAIN s : m = k - 1 /\ m + 1 = k
    BY <1>1
  <2>2. f[m] = 1 /\ f[m + 1] = 0 => h[m + 1] = low - 1
    BY <1>2 DEF Heights
  <2>3. f[k] = 0 => f[m] = 1 /\ f[m + 1] = 0
    BY <1>4, <2>1
  <2>4. low = Z.ci[2].func
    BY <1>5
  <2> HIDE DEF low
  <2> QED
    BY <2>1, <2>2, <2>3, <2>4
<1>7. PICK n \in Nat : n = f[k]
  BY <1>3
<1>8. StackOf(Z, n + 1, 1)
  BY <1>7
<1>9. LET W == EndFrame(Z, results)
      IN  /\ n = 0 /\ Z.ci[2].func > 0 => StackOf(W, n, Z.ci[2].func - 1 + Len(results))
          /\ n > 0 => (\A w : StackOf(W, n, w)) /\ W.ci[2].func = Z.ci[2].func
  BY <1>8, FrameEnded, ZenonT(60)
<1>10. n = 0 => Z.ci[2].func > 0 /\ Z.ci[2].func - 1 = h[k]
  <2>1. Z.ci[2].func \in Int
    <3>1. 2 \in DOMAIN Z.ci
      BY <1>8 DEF StackOf
    <3> QED
      BY <1>8, <3>1 DEF StackOf
  <2>2. n = 0 => h[k] = Z.ci[2].func - 1
    BY <1>6, <1>7
  <2> QED
    BY <1>3, <2>1, <2>2, SMTT(60) DEF Slots
<1> QED
  BY <1>3, <1>7, <1>9, <1>10

(* The calls a are about the results.                                      *)
Tidies(a) ==
  \A i \in DOMAIN a :
    a[i].op \in {"pushValue", "ref", "pop"} /\ (a[i].op = "pop" => a[i].i = 1)
LEMMA ReturnStands ==
  ASSUME NEW s \in Seq(Entry), s # <<>>, NEW v, NEW T, NEW f, NEW h, Stacked(s, v, T, f, h),
         s[1].op # "setTop", NEW k \in 1 .. Len(s) + 1, k > 1, s[k - 1].op = "lua",
         k <= Len(s) \/ ~Queued(s),
         NEW U, f[k] > 0 => StackOf(U, f[k], 1) /\ U.ci[2].func = T.ci[2].func,
         NEW a \in Seq(Entry), Tidies(a),
         NEW b, Tall(b, Len(a)), Rises(a, b, h[k]),
         f[k] = 0 => StackOf(U, 0, IF a = <<>> THEN h[k] ELSE b[1])
  PROVE  Stands(Put(a, s, k), v, U)
<1>1. f[k] \in Nat
  BY LevelsTyped DEF Stacked
<1>2. PICK n : n = 0
  OBVIOUS
<1>3. f[k] + n = f[k] /\ ~(n = 1)
  BY <1>1, <1>2
<1>4. StackOf(U, f[k] + n, IF a = <<>> THEN h[k] ELSE b[1])
  <2>1. CASE f[k] = 0
    BY <1>1, <1>3, <2>1
  <2>2. CASE f[k] > 0
    <3>1. StackOf(U, f[k], 1) /\ f[k] # 0
      BY <1>1, <2>2
    <3> QED
      BY <1>3, <3>1 DEF StackOf
  <2> QED
    BY <1>1, <2>1, <2>2
<1>5. Fits(a, n, s, f, k)
  BY <1>2 DEF Fits, Ends, Checks, Tidies
<1>6. Placed(a, n, s, f, k)
  <2>1. \A j \in k .. Len(s) : s[j].op \notin {"setTop", "loadString"}
    BY LaterPlain DEF Stacked
  <2> QED
    BY <2>1 DEF Placed, Allowed, Tidies
<1>7. EndHeight(Put(a, s, k), v) = EndHeight(s, v)
  <2>1. ~Queued(a)
    <3>1. a # <<>> => Len(a) \in DOMAIN a
      BY LenProperties, EmptySeq
    <3> QED
      BY <3>1 DEF Queued, Last, Tidies
  <2>2. \A i \in DOMAIN a : a[i].op # "setTop"
    BY DEF Tidies
  <2> QED
    BY <2>1, <2>2, EndKept DEF Stacked
<1> QED
  BY <1>1, <1>3, <1>4, <1>5, <1>6, <1>7, StackPut

(* Queued code ended.                                                      *)
LEMMA QueuedEnds ==
  ASSUME NEW s \in Seq(Entry), s # <<>>, NEW v \in Nat, NEW T, NEW f, NEW h, Stacked(s, v, T, f, h),
         s[1].op # "setTop", NEW k \in 1 .. Len(s) + 1, k > 1, s[k - 1].op = "lua", s[k - 1].args = 0,
         NEW Z, StackOf(Z, f[k] + 1, 1), Z.ci[2].func = T.ci[2].func,
         NEW V, NEW results \in Seq(V), NEW U, U = EndFrame(Z, results),
         NEW w \in Nat, w = v + 1 + Len(results)
  PROVE  SubSeq(s, k, Len(s)) = <<>> /\ Stands(<<>>, w, U)
<1>1. Len(s) \in Nat /\ DOMAIN s = 1 .. Len(s) /\ k - 1 \in DOMAIN s
  BY LenProperties
<1>2. k - 1 = Len(s)
  BY <1>1 DEF Stacked, Places
<1>3. k = Len(s) + 1 /\ s[Len(s)] = s[k - 1]
  BY <1>1, <1>2
<1>4. SubSeq(s, k, Len(s)) = <<>>
  BY <1>1, <1>3, SubSeqEmpty
<1>5. f[k] = 0 /\ h[k] = 1 + v + 1
  <2>1. Queued(s)
    BY <1>3 DEF Queued, Last
  <2>2. EndHeight(s, v) = 1 + v + 1
    BY <2>1 DEF EndHeight
  <2> QED
    BY <1>3, <2>2 DEF Stacked, Levels, Heights
<1>6. StackOf(U, 0, h[k] + Len(results))
  <2>1. /\ f[k] \in Nat /\ h[k] \in Slots
        /\ f[k] > 0 => StackOf(U, f[k], 1) /\ U.ci[2].func = T.ci[2].func
        /\ f[k] = 0 => StackOf(U, 0, h[k] + Len(results))
    BY Returned
  <2> QED
    BY <1>5, <2>1
<1>7. Len(results) \in Nat
  BY LenProperties
<1>8. h[k] + Len(results) = 1 + w
  BY <1>5, <1>7
<1> QED
  BY <1>4, <1>6, <1>8, StandsIdle

(* What becomes of the results, and how high the stack is.                 *)
LEMMA ResultsRise ==
  ASSUME NEW x \in Entry, x.op = "lua", NEW v, NEW e \in Slots
  PROVE  /\ Results(x, v) \in Seq(Entry)
         /\ Tidies(Results(x, v))
         /\ Results(x, v) = <<>> <=> x.n = 0
         /\ \E b : /\ Tall(b, Len(Results(x, v))) /\ Rises(Results(x, v), b, e)
                   /\ x.n # 0 => b[1] = e + 1
<1> DEFINE p == Index("pushValue", -1)
           r == Of("ref", x.o)
           q == Index("pop", 1)
<1>1. p \in Entry /\ q \in Entry /\ p.op = "pushValue" /\ q.op = "pop" /\ q.i = 1 /\ r.op = "ref"
  BY EntryKinds DEF Index, Of
<1>2. x.n # 0 => r \in Entry
  BY EntryKinds DEF Entry
<1>3. Results(x, v) = IF x.n = 0 THEN <<>>
                      ELSE (IF v \in {"table", "function"} THEN <<p, r>> ELSE <<>>) \o <<q>>
  BY DEF Results
<1>4. Grows(p) = 1 /\ Grows(q) = -1 /\ Grows(r) = -1 /\ ~Checks(p) /\ ~Checks(q) /\ ~Checks(r)
  BY <1>1 DEF Grows, Checks
<1>5. e \in Nat /\ e > 0
  BY DEF Slots
<1> HIDE DEF p, q, r
<1>6. CASE x.n = 0
  <2>1. Results(x, v) = <<>>
    BY <1>3, <1>6
  <2>2. <<>> \in Seq(Entry) /\ Len(<<>>) = 0 /\ DOMAIN <<>> = {}
    OBVIOUS
  <2>3. Tall(<<>>, Len(<<>>)) /\ Rises(<<>>, <<>>, e)
    BY <2>2 DEF Tall, Rises
  <2> QED
    BY <1>6, <2>1, <2>2, <2>3 DEF Tidies
<1>7. CASE x.n # 0 /\ v \notin {"table", "function"}
  <2>1. Results(x, v) = <<>> \o <<q>>
    BY <1>3, <1>7
  <2>2. PICK a : a = <<>> \o <<q>>
    OBVIOUS
  <2>3. a \in Seq(Entry) /\ Len(a) = 1 /\ a[1] = q
    <3>1. <<>> \in Seq(Entry) /\ Len(<<>>) = 0
      OBVIOUS
    <3> QED
      BY <1>1, <2>2, <3>1, OneMore
  <2>4. DOMAIN a = {1} /\ a # <<>>
    BY <2>3
  <2>5. PICK b : b = [i \in 1 .. 1 |-> e + 1]
    OBVIOUS
  <2>6. Tall(b, Len(a)) /\ Rises(a, b, e) /\ b[1] = e + 1
    <3>1. b[1] = e + 1
      BY <2>5
    <3> QED
      BY <1>1, <1>4, <1>5, <2>3, <2>4, <3>1 DEF Tall, Rises, Slots
  <2> QED
    BY <1>1, <1>7, <2>1, <2>2, <2>3, <2>4, <2>6 DEF Tidies
<1>8. CASE x.n # 0 /\ v \in {"table", "function"}
  <2>1. Results(x, v) = <<p, r>> \o <<q>>
    BY <1>3, <1>8
  <2>2. PICK a : a = <<p, r>> \o <<q>>
    OBVIOUS
  <2>3. a \in Seq(Entry) /\ Len(a) = 3 /\ a[1] = p /\ a[2] = r /\ a[3] = q
    <3>1. r \in Entry
      BY <1>2, <1>8
    <3>2. PICK c : c = <<p, r>>
      OBVIOUS
    <3>3. c \in Seq(Entry) /\ Len(c) = 2 /\ c[1] = p /\ c[2] = r
      BY <1>1, <3>1, <3>2
    <3>4. a = c \o <<q>>
      BY <2>2, <3>2
    <3>5. /\ a \in Seq(Entry) /\ Len(a) = Len(c) + 1 /\ a[Len(c) + 1] = q
          /\ \A i \in 1 .. Len(c) : a[i] = c[i]
      BY <1>1, <3>3, <3>4, OneMore
    <3> QED
      BY <3>3, <3>5
  <2>4. DOMAIN a = {1, 2, 3} /\ a # <<>>
    <3>1. DOMAIN a = 1 .. 3 /\ a # <<>>
      BY <2>3, LenProperties, SMTT(60)
    <3>2. 1 .. 3 = {1, 2, 3}
      OBVIOUS
    <3> QED
      BY <3>1, <3>2
  <2>5. PICK b : b = [i \in 1 .. 3 |-> IF i = 2 THEN e + 2 ELSE e + 1]
    OBVIOUS
  <2>6. b[1] = e + 1 /\ b[2] = e + 2 /\ b[3] = e + 1
    BY <2>5
  <2>7. Tall(b, Len(a))
    <3>1. \A i \in 1 .. 3 : i = 1 \/ i = 2 \/ i = 3
      OBVIOUS
    <3> QED
      BY <1>5, <2>3, <2>6, <3>1 DEF Tall, Slots
  <2>8. Rises(a, b, e)
    <3>1. b[2] = b[1] + 1 /\ b[3] = b[2] + -1 /\ e = b[3] + -1
      BY <1>5, <2>6
    <3>2. ASSUME NEW i \in DOMAIN a
          PROVE  /\ (IF i = Len(a) THEN e ELSE b[i + 1]) = b[i] + Grows(a[i])
                 /\ ~Checks(a[i]) /\ a[i].op # "insert"
      <4>1. CASE i = 1
        BY <1>1, <1>4, <2>3, <3>1, <4>1
      <4>2. CASE i = 2
        BY <1>1, <1>4, <2>3, <3>1, <4>2
      <4>3. CASE i = 3
        BY <1>1, <1>4, <2>3, <3>1, <4>3
      <4> QED
        BY <2>4, <4>1, <4>2, <4>3
    <3> QED
      BY <3>2 DEF Rises
  <2> QED
    BY <1>1, <1>8, <2>1, <2>2, <2>3, <2>4, <2>6, <2>7, <2>8 DEF Tidies
<1> QED
  BY <1>6, <1>7, <1>8

LEMMA LuaReturnsStands ==
  ASSUME IInv, StackInv, NEW v, LuaReturns("main", v)
  PROVE  StackInv'
<1> DEFINE s == todo["main"]
           x == Arg("main")
<1>1. /\ s \in Seq(Entry) /\ s # <<>> /\ left \in Nat /\ x = s[1] /\ open /\ x \in Entry
      /\ Busy("main") /\ s[1].op = "lua" /\ open' = open
      /\ S' = EndFrame(S, IF x.n = 0 THEN <<>> ELSE <<v>>)
      /\ todo'["main"] = Put(Results(x, v), s, 2)
      /\ left' = IF x.args = 0 THEN left + 1 ELSE left
  BY Here DEF LuaReturns, Op, Arg, Results
<1>2. PICK f, h : Stacked(s, left, S, f, h)
  BY Here, <1>1
<1>3. /\ Len(s) \in Nat /\ DOMAIN s = 1 .. Len(s) /\ 1 \in 1 .. Len(s) /\ 2 \in 1 .. Len(s) + 1
      /\ StackOf(S, f[1], h[1]) /\ f[1] \in Nat /\ f[2] \in Nat /\ h[2] \in Slots
      /\ f[1] = f[2] + (IF Ends(s[1]) THEN 1 ELSE 0)
  BY <1>1, <1>2, HeadIs
<1>4. x.args \in {0, 1} /\ x.n \in {0, 1} /\ (x.args = 0 => x.n = 0)
  BY <1>1 DEF Entry
<1>5. PICK k : k = 2
  OBVIOUS
<1>6. k \in 1 .. Len(s) + 1 /\ k > 1 /\ s[k - 1].op = "lua" /\ s[k - 1] = x /\ k - 1 = 1
  BY <1>1, <1>3, <1>5
<1>7. StackOf(S, f[k] + 1, 1)
  <2>1. f[1] = f[2] + 1 /\ f[1] # 0
    BY <1>1, <1>3 DEF Ends
  <2> QED
    BY <1>3, <1>5, <2>1 DEF StackOf
<1>8. PICK results \in Seq({v}) : results = IF x.n = 0 THEN <<>> ELSE <<v>>
  <2>1. <<>> \in Seq({v}) /\ <<v>> \in Seq({v})
    OBVIOUS
  <2> QED
    BY <2>1
<1>9. Len(results) = x.n
  BY <1>4, <1>8
<1>10. PICK U : U = S'
  OBVIOUS
<1>11. U = EndFrame(S, results)
  BY <1>1, <1>8, <1>10
<1>12. CASE x.args = 0
  <2>1. PICK w \in Nat : w = left + 1
    BY <1>1
  <2>2. w = left + 1 + Len(results) /\ s[k - 1].args = 0
    BY <1>1, <1>4, <1>6, <1>9, <1>12, <2>1
  <2>3. SubSeq(s, k, Len(s)) = <<>> /\ Stands(<<>>, w, U)
    <3>1. S.ci[2].func = S.ci[2].func /\ s[1].op # "setTop"
      BY <1>1
    <3> HIDE DEF s
    <3> QED
      BY <1>1, <1>2, <1>6, <1>7, <1>11, <2>2, <3>1, QueuedEnds
  <2>4. Results(x, v) = <<>>
    BY <1>4, <1>12 DEF Results
  <2>5. todo'["main"] = <<>>
    <3>1. <<>> \o <<>> = <<>>
      OBVIOUS
    <3> QED
      BY <1>1, <1>5, <2>3, <2>4, <3>1 DEF Put
  <2>6. left' = w
    BY <1>1, <1>12, <2>1
  <2> QED
    BY <1>1, <1>10, <2>3, <2>5, <2>6 DEF StackInv
<1>13. CASE x.args = 1
  <2>1. k <= Len(s) \/ ~Queued(s)
    <3>1. ASSUME ~(k <= Len(s)) PROVE ~Queued(s)
      <4>1. Len(s) = 1
        <5>1. \A m \in Nat : 1 \in 1 .. m /\ ~(2 <= m) => m = 1
          OBVIOUS
        <5> QED
          BY <1>3, <1>5, <3>1, <5>1
      <4>2. Last(s) = x
        BY <1>1, <4>1 DEF Last
      <4> QED
        BY <1>13, <4>2 DEF Queued
    <3> QED
      BY <3>1
  <2>2. PICK a : a = Results(x, v)
    OBVIOUS
  <2>3. h[k] \in Slots
    BY <1>3, <1>5
  <2>4. /\ a \in Seq(Entry)
        /\ Tidies(a)
        /\ a = <<>> <=> x.n = 0
        /\ \E b : Tall(b, Len(a)) /\ Rises(a, b, h[k]) /\ (x.n # 0 => b[1] = h[k] + 1)
    <3> HIDE DEF x
    <3> QED
      BY <1>1, <2>2, <2>3, ResultsRise
  <2>5. PICK b : Tall(b, Len(a)) /\ Rises(a, b, h[k]) /\ (x.n # 0 => b[1] = h[k] + 1)
    BY <2>4
  <2>6. /\ f[k] > 0 => StackOf(U, f[k], 1) /\ U.ci[2].func = S.ci[2].func
        /\ f[k] = 0 => StackOf(U, 0, IF a = <<>> THEN h[k] ELSE b[1])
    <3>1. S.ci[2].func = S.ci[2].func /\ s \in Seq(Entry) /\ s # <<>>
      BY <1>1
    <3>2. k \in 1 .. Len(s) + 1 /\ k > 1 /\ s[k - 1].op = "lua"
      BY <1>6
    <3>3. /\ f[k] > 0 => StackOf(U, f[k], 1) /\ U.ci[2].func = S.ci[2].func
          /\ f[k] = 0 => StackOf(U, 0, h[k] + Len(results))
      <4> HIDE DEF s, x
      <4> QED
        BY <1>2, <1>7, <1>11, <3>1, <3>2, Returned, SMTT(60)
    <3>4. h[k] + Len(results) = IF a = <<>> THEN h[k] ELSE b[1]
      BY <1>4, <1>9, <2>3, <2>4, <2>5 DEF Slots
    <3> QED
      BY <3>3, <3>4
  <2>7. Stands(Put(a, s, k), left, U)
    <3>1. s[1].op # "setTop" /\ s \in Seq(Entry) /\ s # <<>>
      BY <1>1
    <3>2. a \in Seq(Entry) /\ Tall(b, Len(a)) /\ Rises(a, b, h[k]) /\ Tidies(a)
      BY <2>4, <2>5
    <3>3. k \in 1 .. Len(s) + 1 /\ k > 1 /\ s[k - 1].op = "lua"
      BY <1>6
    <3> HIDE DEF s, x
    <3> QED
      BY <1>2, <2>1, <2>6, <3>1, <3>2, <3>3, ReturnStands
  <2>8. left' = left /\ todo'["main"] = Put(a, s, k)
    BY <1>1, <1>5, <1>13, <2>2
  <2> QED
    BY <1>1, <1>10, <2>7, <2>8 DEF StackInv
<1> QED
  BY <1>4, <1>12, <1>13

(* A value more is left below calls that take down what they put up.       *)
LEMMA OneMoreLeft ==
  ASSUME NEW t \in Seq(Entry), NEW v \in Nat, NEW T, Len(T.ci) = 1,
         Stands(t, v, T), \A i \in DOMAIN t : t[i].op \notin {"setTop", "loadString"},
         NEW m, Len(T.stk) = m,
         NEW U, StackOf(U, 0, m + 1)
  PROVE  Stands(t, v + 1, U)
<1>1. PICK f \in [1 .. Len(t) + 1 -> Nat], h \in [1 .. Len(t) + 1 -> Nat] : Stacked(t, v, T, f, h)
  BY DEF Stands
<1>2. Len(t) \in Nat /\ 1 \in 1 .. Len(t) + 1 /\ f[1] \in Nat
  BY <1>1, LenProperties
<1>3. f[1] = 0
  BY <1>1, <1>2 DEF Stacked, StackOf
<1>4. Levels(t, f) /\ Places(t, f) /\ Heights(t, f, h, 0, EndHeight(t, v)) /\ StackOf(T, 0, h[1])
  BY <1>1, <1>3 DEF Stacked
<1>5. EndHeight(t, v) \in Nat /\ EndHeight(t, v + 1) = EndHeight(t, v) + 1
  <2>1. t # <<>> => t[1].op # "setTop"
    <3>1. t # <<>> => 1 \in DOMAIN t
      BY EmptySeq, LenProperties
    <3> QED
      BY <3>1
  <2> QED
    BY <2>1 DEF EndHeight
<1>6. PICK e : e = [i \in 1 .. Len(t) + 1 |-> h[i] + 1]
  OBVIOUS
<1>7. Heights(t, f, e, 0, EndHeight(t, v + 1))
  <2>1. PICK n \in Nat : n = EndHeight(t, v)
    BY <1>5
  <2>2. Heights(t, f, h, 0, n)
    BY <1>4, <2>1
  <2>3. Heights(t, f, [i \in 1 .. Len(t) + 1 |-> h[i] + 1], 0, n + 1)
    BY <1>3, <1>4, <2>2, HeightsShift
  <2> QED
    BY <1>5, <1>6, <2>1, <2>3
<1>8. e[1] = h[1] + 1 /\ h[1] = m
  BY <1>2, <1>4, <1>6 DEF StackOf
<1>9. Stacked(t, v + 1, U, f, e)
  BY <1>3, <1>4, <1>7, <1>8 DEF Stacked
<1>10. e \in [1 .. Len(t) + 1 -> Nat]
  BY <1>1, <1>6
<1> QED
  BY <1>1, <1>9, <1>10 DEF Stands

(* The Lua code that ended is the only one iff nothing behind it is in Lua. *)
LEMMA NestIs ==
  ASSUME NEW s \in Seq(Entry), NEW f, Levels(s, f), NEW k \in 1 .. Len(s) + 1, k > 1,
         s[k - 1].op = "lua", \A i \in 1 .. k - 2 : s[i].op # "lua"
  PROVE  Cardinality({i \in DOMAIN s : s[i].op = "lua"}) = 1 <=> f[k] = 0
<1> DEFINE L == {i \in DOMAIN s : s[i].op = "lua"}
<1>1. Len(s) \in Nat /\ DOMAIN s = 1 .. Len(s) /\ k - 1 \in L
  BY LenProperties
<1>2. f[k] = 0 <=> \A p \in k .. Len(s) : s[p].op # "lua"
  <2>1. CASE k \in DOMAIN s
    BY <2>1 DEF Levels
  <2>2. CASE k = Len(s) + 1
    BY <1>1, <2>2 DEF Levels
  <2> QED
    BY <1>1, <2>1, <2>2
<1>3. IsFiniteSet(L)
  <2>1. IsFiniteSet(1 .. Len(s))
    BY <1>1, FS_Interval
  <2> QED
    BY <1>1, <2>1, FS_Subset
<1>4. ASSUME f[k] = 0 PROVE L = {k - 1}
  <2>1. \A i \in 1 .. Len(s) : i \in 1 .. k - 2 \/ i = k - 1 \/ i \in k .. Len(s)
    OBVIOUS
  <2> QED
    BY <1>1, <1>2, <1>4, <2>1
<1>5. ASSUME Cardinality(L) = 1 PROVE f[k] = 0
  <2>1. PICK x : L = {x}
    BY <1>3, <1>5, FS_Singleton
  <2>2. x = k - 1
    BY <1>1, <2>1
  <2>3. \A p \in k .. Len(s) : p \in DOMAIN s /\ p # k - 1
    BY <1>1
  <2> QED
    BY <1>2, <2>1, <2>2, <2>3
<1> QED
  BY <1>4, <1>5, FS_Singleton, <1>3

(* A pcall ended by an error: its message is on the stack U.               *)
LEMMA ErrorStands ==
  ASSUME NEW s \in Seq(Entry), s # <<>>, NEW v \in Nat, NEW T, NEW f, NEW h, Stacked(s, v, T, f, h),
         s[1].op # "setTop", NEW k \in 1 .. Len(s) + 1, k > 1, s[k - 1].op = "lua",
         s[k - 1].args = 1,
         NEW U, f[k] > 0 => StackOf(U, f[k], 1) /\ U.ci[2].func = T.ci[2].func,
         f[k] = 0 => StackOf(U, 0, h[k] + 1)
  PROVE  /\ Stands(Put(<<Index("pop", 1)>>, s, k), v, U)
         /\ f[k] > 0 => Stands(Put(<<>>, s, k), v, U)
         /\ f[k] = 0 => Stands(Put(<<>>, s, k), v + 1, U)
<1>1. Len(s) \in Nat /\ DOMAIN s = 1 .. Len(s) /\ k - 1 \in DOMAIN s
  BY LenProperties
<1>2. k <= Len(s) \/ ~Queued(s)
  <2>1. ASSUME ~(k <= Len(s)) PROVE ~Queued(s)
    <3>1. k - 1 = Len(s)
      BY <1>1, <2>1
    <3> QED
      BY <3>1 DEF Queued, Last
  <2> QED
    BY <2>1
<1>5. f[k] \in Nat /\ h[k] \in Slots
  BY LevelsTyped, HeightsTyped DEF Stacked, Tall
<1>6. Stands(Put(<<Index("pop", 1)>>, s, k), v, U)
  <2>1. PICK p : p = Index("pop", 1)
    OBVIOUS
  <2>2. p \in Entry /\ p.op = "pop" /\ p.i = 1 /\ ~Checks(p) /\ Grows(p) = -1
    BY <2>1, EntryKinds DEF Index, Checks, Grows
  <2>3. PICK a \in Seq(Entry) : a = <<p>>
    <3>1. <<p>> \in Seq(Entry)
      BY <2>2
    <3> QED
      BY <3>1
  <2>4. DOMAIN a = {1} /\ a[1] = p /\ Len(a) = 1 /\ a # <<>>
    BY <2>3
  <2>5. PICK e \in Slots : e = h[k]
    BY <1>5
  <2> PICK b : b = [i \in 1 .. 1 |-> e + 1]
    OBVIOUS
  <2>6. b[1] = h[k] + 1 /\ Tall(b, Len(a)) /\ Rises(a, b, h[k])
    <3>1. b[1] = e + 1 /\ e = b[1] + -1 /\ b[1] \in Slots
      BY ONLY b = [i \in 1 .. 1 |-> e + 1], e \in Slots DEF Slots
    <3>2. Tall(b, Len(a))
      BY <2>4, <3>1 DEF Tall
    <3>3. Rises(a, b, e)
      BY <2>2, <2>4, <3>1 DEF Rises
    <3> QED
      BY <2>5, <3>1, <3>2, <3>3
  <2>7. Tidies(a) /\ (IF a = <<>> THEN h[k] ELSE b[1]) = h[k] + 1
    BY <2>2, <2>4, <2>6 DEF Tidies
  <2>8. Stands(Put(a, s, k), v, U)
    BY <1>2, <2>6, <2>7, ReturnStands
  <2> QED
    BY <2>1, <2>3, <2>8
<1>7. ASSUME f[k] > 0 PROVE Stands(Put(<<>>, s, k), v, U)
  <2>1. StackOf(U, f[k], h[k])
    BY <1>5, <1>7 DEF StackOf
  <2> QED
    BY <1>2, <1>5, <1>7, <2>1, StackDrops
<1>8. ASSUME f[k] = 0 PROVE Stands(Put(<<>>, s, k), v + 1, U)
  <2>1. StackOf(U, 0, h[k] + 1)
    BY <1>8
  <2>2. PICK Y : Y = Pop(U, 1)
    OBVIOUS
  <2>3. Slotted(U) /\ Len(U.stk) = h[k] + 1 /\ Len(U.stk) > 0 /\ Len(U.stk) - 1 = h[k]
    <3>1. Slotted(U) /\ Len(U.stk) = h[k] + 1
      BY <2>1 DEF StackOf
    <3>2. PICK e \in Slots : e = h[k]
      BY <1>5
    <3>3. PICK m : m = Len(U.stk) /\ m = e + 1
      BY <3>1, <3>2
    <3>4. m > 0 /\ m - 1 = e
      BY ONLY <3>2, <3>3 DEF Slots
    <3> QED
      BY <3>1, <3>2, <3>3, <3>4
  <2>4. StackOf(Y, 0, h[k]) /\ Len(Y.ci) = 1 /\ Len(Y.stk) = h[k]
    <3>1. Slotted(Y) /\ Y.ci = U.ci /\ Y.base = U.base /\ Len(Y.stk) = h[k]
      BY <2>2, <2>3, PoppedOne DEF Resized
    <3>2. StackOf(Y, 0, h[k])
      BY <2>1, <3>1, StackSame
    <3> QED
      BY <3>1, <3>2 DEF StackOf
  <2>5. Stands(Put(<<>>, s, k), v, Y)
    <3>1. StackOf(Y, f[k], h[k]) /\ ~(f[k] > 0)
      BY <1>8, <2>4
    <3> QED
      BY <1>2, <3>1, StackDrops
  <2>6. PICK t \in Seq(Entry) : t = Put(<<>>, s, k) /\ t = SubSeq(s, k, Len(s))
    <3>1. SubSeq(s, k, Len(s)) \in Seq(Entry)
      BY <1>1, SubSeqProperties
    <3> QED
      BY <3>1, ConcatEmptySeq DEF Put
  <2>7. \A i \in DOMAIN t : t[i].op \notin {"setTop", "loadString"}
    <3>1. \A j \in k .. Len(s) : s[j].op \notin {"setTop", "loadString"}
      BY LaterPlain DEF Stacked
    <3>2. Len(t) = Len(s) + 1 - k /\ \A i \in 1 .. Len(t) : t[i] = s[i + k - 1]
      <4>1. \A i \in k .. Len(s) : s[i] \in Entry
        BY <1>1
      <4>2. /\ Len(t) = IF k <= Len(s) THEN Len(s) - k + 1 ELSE 0
            /\ \A i \in 1 .. Len(s) - k + 1 : t[i] = s[k + i - 1]
        <5>1. PICK n \in Nat, m \in Int : n = Len(s) /\ m = k
          BY <1>1
        <5>2. /\ Len(SubSeq(s, m, n)) = IF m <= n THEN n - m + 1 ELSE 0
              /\ \A i \in 1 .. n - m + 1 : SubSeq(s, m, n)[i] = s[m + i - 1]
          BY <4>1, <5>1, SubSeqProperties
        <5> QED
          BY <2>6, <5>1, <5>2
      <4>3. Len(t) = Len(s) - k + 1 /\ Len(t) = Len(s) + 1 - k
        BY <1>1, <4>2
      <4>4. \A i \in 1 .. Len(t) : k + i - 1 = i + k - 1
        BY <4>3, <1>1
      <4> QED
        BY <4>2, <4>3, <4>4
    <3>3. DOMAIN t = 1 .. Len(t) /\ \A i \in 1 .. Len(t) : i + k - 1 \in k .. Len(s)
      BY <1>1, <3>2, LenProperties
    <3> QED
      BY <3>1, <3>2, <3>3
  <2>9. Stands(t, v, Y)
    BY <2>5, <2>6
  <2>10. Stands(t, v + 1, U)
    BY <2>1, <2>4, <2>7, <2>9, OneMoreLeft
  <2> QED
    BY <2>6, <2>10
<1> QED
  BY <1>6, <1>7, <1>8

(* An error ends the Lua code before k, whose frame is Z's.                *)
LEMMA FailStands ==
  ASSUME IInv, StackInv, Busy("main"), NEW s, s = todo["main"], s[1].op # "setTop",
         NEW f, NEW h, Stacked(s, left, S, f, h),
         NEW k \in 1 .. Len(s) + 1, k > 1, s[k - 1].op = "lua",
         \A i \in 1 .. k - 2 : s[i].op # "lua",
         NEW Z, StackOf(Z, f[k] + 1, 1), Z.ci[2].func = S.ci[2].func,
         NEW v, Fail("main", s[k - 1], SubSeq(s, k, Len(s)), Z, v)
  PROVE  StackInv'
<1> DEFINE a == IF s[k - 1].args = 1 /\ v = "string" THEN <<Index("pop", 1)>> ELSE <<>>
<1>1. /\ open' = open /\ open /\ left \in Nat /\ s \in Seq(Entry) /\ s # <<>>
      /\ S' = EndFrame(Z, <<v>>) /\ MainGoes(Put(a, s, k))
  BY Here DEF Fail, MainGoes, Put
<1>2. todo'["main"] = Put(a, s, k)
  BY <1>1, MainGone DEF IInv
<1>3. left' = CASE s[k - 1].args = 0 -> left + 2
                [] s[k - 1].args = 1 /\ v = "string" -> left
                [] s[k - 1].args = 1 /\ v # "string" -> IF Nest = 1 THEN left + 1 ELSE left
  BY DEF Fail
<1>4. s[k - 1].args \in {0, 1}
  <2>1. k - 1 \in DOMAIN s
    BY <1>1, LenProperties
  <2>2. s[k - 1] \in Entry
    BY <1>1, <2>1, ElementOfSeq, LenProperties
  <2> QED
    BY <2>2 DEF Entry
<1>5. Nest = 1 <=> f[k] = 0
  BY <1>1, NestIs DEF Nest, Stacked
<1> PICK V : V = {v}
  OBVIOUS
<1>6. PICK q \in Seq(V) : q = <<v>> /\ Len(q) = 1
  <2>1. <<v>> \in Seq(V) /\ Len(<<v>>) = 1
    OBVIOUS
  <2> QED
    BY <2>1
<1>7. PICK U : U = S'
  OBVIOUS
<1>8. U = EndFrame(Z, q)
  BY <1>1, <1>6, <1>7
<1>9. CASE s[k - 1].args = 0
  <2>1. PICK w \in Nat : w = left + 2
    BY <1>1
  <2>2. w = left + 1 + Len(q)
    BY <1>1, <1>6, <2>1
  <2>3. SubSeq(s, k, Len(s)) = <<>> /\ Stands(<<>>, w, U)
    BY <1>1, <1>8, <1>9, <2>2, QueuedEnds, SMTT(60)
  <2>4. todo'["main"] = <<>>
    <3>1. <<>> \o <<>> = <<>>
      OBVIOUS
    <3> QED
      BY <1>2, <1>9, <2>3, <3>1 DEF Put
  <2>5. left' = w
    BY <1>3, <1>9, <2>1
  <2> QED
    BY <1>1, <1>7, <2>3, <2>4, <2>5 DEF StackInv
<1>10. CASE s[k - 1].args = 1
  <2>1. /\ f[k] \in Nat /\ h[k] \in Slots
        /\ f[k] > 0 => StackOf(U, f[k], 1) /\ U.ci[2].func = S.ci[2].func
        /\ f[k] = 0 => StackOf(U, 0, h[k] + Len(q))
    BY <1>1, <1>8, Returned
  <2>2. f[k] = 0 => StackOf(U, 0, h[k] + 1)
    BY <1>6, <2>1
  <2>3. /\ Stands(Put(<<Index("pop", 1)>>, s, k), left, U)
        /\ f[k] > 0 => Stands(Put(<<>>, s, k), left, U)
        /\ f[k] = 0 => Stands(Put(<<>>, s, k), left + 1, U)
    BY <1>1, <1>10, <2>1, <2>2, ErrorStands
  <2>4. CASE v = "string"
    BY <1>1, <1>2, <1>3, <1>7, <1>10, <2>3, <2>4 DEF StackInv
  <2>5. CASE v # "string"
    <3>1. a = <<>> /\ left' = IF f[k] = 0 THEN left + 1 ELSE left
      BY <1>3, <1>5, <1>10, <2>5
    <3>2. left' \in Nat /\ (f[k] = 0 \/ f[k] > 0)
      BY <1>1, <2>1, <3>1
    <3> QED
      BY <1>1, <1>2, <1>7, <2>3, <3>1, <3>2 DEF StackInv
  <2> QED
    BY <2>4, <2>5
<1> QED
  BY <1>4, <1>9, <1>10, SMTT(60)

LEMMA LuaFailsStands ==
  ASSUME IInv, StackInv, NEW v, LuaFails("main", v)
  PROVE  StackInv'
<1>1. PICK s : s = todo["main"]
  OBVIOUS
<1>2. /\ s \in Seq(Entry) /\ s # <<>> /\ Busy("main") /\ s[1].op = "lua" /\ Arg("main") = s[1]
      /\ \E f, h : Stacked(s, left, S, f, h)
  BY <1>1, Here DEF LuaFails, Op, Arg
<1>3. PICK f, h : Stacked(s, left, S, f, h)
  BY <1>2
<1>4. /\ Len(s) \in Nat /\ 2 \in 1 .. Len(s) + 1 /\ StackOf(S, f[1], h[1]) /\ f[2] \in Nat
      /\ f[1] = f[2] + (IF Ends(s[1]) THEN 1 ELSE 0)
  BY <1>2, <1>3, HeadIs
<1>5. PICK k \in 1 .. Len(s) + 1 : k = 2
  BY <1>4
<1>6. k > 1 /\ k - 1 = 1 /\ s[k - 1].op = "lua" /\ \A i \in 1 .. k - 2 : s[i].op # "lua"
  BY <1>2, <1>5
<1>7. StackOf(S, f[k] + 1, 1)
  <2>1. f[1] = f[2] + 1 /\ f[1] # 0
    BY <1>2, <1>4 DEF Ends
  <2> QED
    BY <1>4, <1>5, <2>1 DEF StackOf
<1>8. Fail("main", s[k - 1], SubSeq(s, k, Len(s)), S, v)
  <2>1. Tail(s) = SubSeq(s, 2, Len(s))
    OBVIOUS
  <2> QED
    BY <1>1, <1>2, <1>5, <1>6, <2>1 DEF LuaFails
<1>9. s[1].op # "setTop" /\ S.ci[2].func = S.ci[2].func
  BY <1>2
<1> QED
  BY <1>1, <1>2, <1>3, <1>6, <1>7, <1>8, <1>9, FailStands

LEMMA LuaErrorStands ==
  ASSUME IInv, StackInv, LuaError("main")
  PROVE  StackInv'
<1>1. PICK s : s = todo["main"]
  OBVIOUS
<1>2. /\ s \in Seq(Entry) /\ s # <<>> /\ Busy("main") /\ s[1].op = "error"
      /\ \E f, h : Stacked(s, left, S, f, h)
  BY <1>1, Here DEF LuaError, Op, Arg
<1>3. PICK f, h : Stacked(s, left, S, f, h)
  BY <1>2
<1>4. /\ Len(s) \in Nat /\ DOMAIN s = 1 .. Len(s) /\ 1 \in DOMAIN s
      /\ StackOf(S, f[1], h[1]) /\ f[2] \in Nat
      /\ f[1] = f[2] + (IF Ends(s[1]) THEN 1 ELSE 0)
  BY <1>2, <1>3, HeadIs
<1>5. 1 < Len(s) /\ s[2].op = "lua"
  BY <1>1, <1>2, <1>4 DEF IInv, MonitorInv, Balanced
<1>6. PICK k \in 1 .. Len(s) + 1 : k = 3
  BY <1>4, <1>5
<1>7. k > 1 /\ k - 1 = 2 /\ s[k - 1].op = "lua" /\ \A i \in 1 .. k - 2 : s[i].op # "lua"
  BY <1>2, <1>5, <1>6
<1>8. f[1] = f[2] + 1 /\ f[2] = f[k] + 1 /\ f[k] \in Nat
  <2>1. 2 \in DOMAIN s /\ 2 + 1 = k
    BY <1>4, <1>5, <1>6
  <2>2. f[2] = f[2 + 1] + (IF Ends(s[2]) THEN 1 ELSE 0) /\ f[k] \in Nat
    BY <1>3, <2>1 DEF Stacked, Levels
  <2> QED
    BY <1>2, <1>4, <1>5, <2>1, <2>2 DEF Ends
<1>9. PICK Z : Z = EndFrame(S, <<>>)
  OBVIOUS
<1>10. StackOf(Z, f[k] + 1, 1) /\ Z.ci[2].func = S.ci[2].func
  <2>1. PICK n \in Nat : n = f[2] /\ n > 0
    BY <1>8
  <2>2. StackOf(S, n + 1, h[1])
    BY <1>4, <1>8, <2>1
  <2>3. PICK q \in Seq({}) : q = <<>>
    <3>1. <<>> \in Seq({})
      OBVIOUS
    <3> QED
      BY <3>1
  <2>4. StackOf(EndFrame(S, q), n, 1) /\ EndFrame(S, q).ci[2].func = S.ci[2].func
    BY <2>1, <2>2, FrameEnded, SMTT(60)
  <2> QED
    BY <1>8, <1>9, <2>1, <2>3, <2>4
<1>11. Fail("main", s[k - 1], SubSeq(s, k, Len(s)), Z, "string")
  BY <1>1, <1>6, <1>7, <1>9 DEF LuaError
<1>12. s[1].op # "setTop"
  BY <1>2
<1> QED
  BY <1>1, <1>2, <1>3, <1>7, <1>10, <1>11, <1>12, FailStands

(* No pcall is under way where there are no frames.                        *)
LEMMA NoNest ==
  ASSUME NEW s \in Seq(Entry), s # <<>>, NEW f, Levels(s, f)
  PROVE  Cardinality({i \in DOMAIN s : s[i].op = "lua"}) = 0 <=> f[1] = 0
<1> DEFINE L == {i \in DOMAIN s : s[i].op = "lua"}
<1>1. Len(s) \in Nat /\ DOMAIN s = 1 .. Len(s) /\ 1 \in DOMAIN s
  BY TailIs, LenProperties
<1>2. f[1] = 0 <=> L = {}
  BY <1>1 DEF Levels
<1>3. IsFiniteSet(L)
  <2>1. IsFiniteSet(1 .. Len(s))
    BY <1>1, FS_Interval
  <2> QED
    BY <1>1, <2>1, FS_Subset
<1>4. Cardinality(L) = 0 <=> L = {}
  BY <1>3, FS_EmptySet
<1> QED
  BY <1>2, <1>4

(* getObject finds a Java object, or leaves by the end of the block: then  *)
(* its value stays, or goes with the frame it is in.                       *)
LEMMA GetObjectStands ==
  ASSUME IInv, StackInv, GetObject("main")
  PROVE  StackInv'
<1>1. PICK s : s = todo["main"]
  OBVIOUS
<1>2. /\ s \in Seq(Entry) /\ s # <<>> /\ left \in Nat /\ Arg("main") = s[1] /\ open /\ open' = open
      /\ Busy("main") /\ s[1].op = "getObject"
  BY <1>1, Here DEF GetObject, Op, Arg, Native
<1> PICK D : S' = FromCPtr(S, "main", D)
  BY DEF GetObject, Native
<1>3. PICK f, h : Stacked(s, left, S, f, h)
  BY <1>1, <1>2, Here
<1>4. /\ Len(s) \in Nat /\ DOMAIN s = 1 .. Len(s) /\ 1 \in 1 .. Len(s) /\ 1 \in DOMAIN s
      /\ Slotted(S) /\ StackOf(S, f[1], h[1]) /\ f[1] \in Nat
      /\ h[1] \in Slots /\ (f[1] = 0 => Len(S.stk) = h[1] /\ Len(S.stk) > 0)
  BY <1>2, <1>3, HeadIs
<1>5. CASE Go("main") /\ UNCHANGED left
  <2>1. Effect(S, 0)
    BY <1>4, SlotsOf DEF Effect
  <2>2. Grows(Arg("main")) = 0
    BY <1>2 DEF Grows
  <2>3. Effect(S', Grows(Arg("main")))
    BY <2>1, <2>2, EnvSet
  <2> QED
    BY <1>2, <1>5, <2>3, StackMoves
<1>6. CASE /\ todo' = [todo EXCEPT !["main"] = UpToUnlock(@)]
           /\ left' = IF Nest = 0 THEN left + 1 ELSE left
  <2>1. Nest = 0 <=> f[1] = 0
    BY <1>1, <1>2, <1>3, NoNest DEF Nest, Stacked
  <2>2. PICK p \in 1 + 1 .. Len(s) :
          s[p].op = "unlock" /\ f[1] = f[p] + 0 /\ \A m \in 1 .. p - 1 : s[m].op # "unlock"
    BY <1>2, <1>3, <1>4 DEF Stacked, Levels, Finds, Checks
  <2>3. p \in 1 .. Len(s) /\ p \in 1 .. Len(s) + 1 /\ p > 1 /\ p <= Len(s)
    BY <1>4
  <2>4. f[p] = f[1]
    <3>1. f[p] \in Nat
      BY <1>3, <2>3 DEF Stacked, Levels
    <3> QED
      BY <2>2, <3>1
  <2>5. PICK t : t = Put(<<>>, s, p)
    OBVIOUS
  <2>6. t = SubSeq(s, p, Len(s)) /\ t \in Seq(Entry)
    <3>1. SubSeq(s, p, Len(s)) \in Seq(Entry)
      BY <1>2, <1>4, <2>3, SubSeqProperties
    <3> QED
      BY <2>5, <3>1, ConcatEmptySeq DEF Put
  <2>7. todo'["main"] = t
    <3>1. UpToUnlock(s) = SubSeq(s, p, Len(s))
      BY <1>2, <2>2, <2>3, FirstIs
    <3>2. MainGoes(UpToUnlock(s))
      BY <1>1, <1>6 DEF MainGoes
    <3> QED
      BY <2>6, <3>1, <3>2, MainGone DEF IInv
  <2>8. PICK U : U = S'
    OBVIOUS
  <2>12. Slotted(U) /\ U.stk = S.stk /\ U.ci = S.ci /\ U.base = S.base
    BY <1>4, <2>8 DEF FromCPtr, Collected, Slotted
  <2>9. StackOf(U, f[1], h[1]) /\ U.ci[2].func = S.ci[2].func
    BY <1>4, <2>12 DEF StackOf
  <2>10. CASE f[1] # 0
    <3>1. StackOf(U, f[p], h[p])
      BY <2>4, <2>9, <2>10 DEF StackOf
    <3>2. Stands(Put(<<>>, s, p), left, U)
      BY <1>2, <1>3, <2>3, <2>9, <3>1, StackDrops
    <3>3. left' = left
      BY <1>6, <2>1, <2>10
    <3> QED
      BY <1>2, <2>5, <2>7, <2>8, <3>2, <3>3 DEF StackInv
  <2>11. CASE f[1] = 0
    <3>1. Heights(s, f, h, 0, EndHeight(s, left))
      BY <1>3, <2>11 DEF Stacked
    <3>2. PICK q \in 1 + 1 .. Len(s) :
            s[q].op = "unlock" /\ h[1] = h[q] + 1 /\ \A m \in 1 .. q - 1 : s[m].op # "unlock"
      BY <1>2, <1>4, <2>11, <3>1 DEF Heights, Finds, Checks
    <3>3. q = p
      <4>1. ~(q \in 1 .. p - 1) /\ ~(p \in 1 .. q - 1)
        BY <2>2, <3>2
      <4>2. q \in 1 .. Len(s) /\ p \in 1 .. Len(s)
        BY <1>4
      <4> QED
        BY ONLY <4>1, <4>2, <1>4
    <3>4. h[1] = h[p] + 1 /\ h[p] \in Nat
      <4>1. h[p] \in Nat
        BY <2>3, <3>1 DEF Heights
      <4> QED
        BY <3>2, <3>3, <4>1
    <3>5. PICK W : W = Pop(S, 1)
      OBVIOUS
    <3>6. Effect(W, -1)
      BY <1>4, <3>5, Pops
    <3>7. StackOf(W, f[p], h[p])
      <4>1. Len(W.stk) = h[p]
        BY <1>4, <2>11, <3>4, <3>6 DEF Effect
      <4> QED
        BY <1>4, <2>4, <3>6, <4>1, StackSame DEF Effect
    <3>8. Stands(t, left, W)
      <4>1. W.ci[2].func = S.ci[2].func
        BY <3>6 DEF Effect
      <4> QED
        BY <1>2, <1>3, <2>3, <2>5, <3>7, <4>1, StackDrops
    <3>9. PICK e, g : Stacked(t, left, W, e, g)
      BY <3>8 DEF Stands
    <3>10. /\ Len(t) = Len(s) - p + 1 /\ DOMAIN t = 1 .. Len(t) /\ t # <<>>
           /\ \A i \in 1 .. Len(t) : i + p - 1 \in 2 .. Len(s) /\ t[i] = s[i + p - 1]
      <4>1. /\ Len(t) = Len(s) - p + 1
            /\ \A i \in 1 .. Len(t) : t[i] = s[p + i - 1]
        BY <1>2, <1>4, <2>3, <2>6, SubSeqProperties
      <4>2. \A i \in 1 .. Len(t) : i + p - 1 \in 2 .. Len(s) /\ p + i - 1 = i + p - 1
        BY <1>4, <2>3, <4>1
      <4>3. Len(t) > 0 /\ DOMAIN t = 1 .. Len(t)
        BY <1>4, <2>3, <2>6, <4>1, LenProperties
      <4> QED
        BY <4>1, <4>2, <4>3
    <3>11. \A i \in DOMAIN t : t[i].op \notin {"setTop", "loadString"}
      <4>1. \A j \in 2 .. Len(s) : s[j].op \notin {"setTop", "loadString"}
        <5>1. \A j \in 2 .. Len(s) : j \in DOMAIN s /\ j # 1
          BY <1>4
        <5> QED
          BY <1>2, <1>3, <5>1 DEF Stacked, Places
      <4> QED
        BY <3>10, <4>1
    <3>12. e[1] = 0
      <4>1. \A i \in 1 .. Len(s) : s[i].op # "lua"
        BY <1>3, <1>4, <2>11 DEF Stacked, Levels
      <4>2. \A i \in 1 .. Len(t) : t[i].op # "lua"
        <5>1. \A j \in 2 .. Len(s) : j \in 1 .. Len(s)
          BY <1>4
        <5> QED
          BY <3>10, <4>1, <5>1
      <4>3. 1 \in DOMAIN t
        BY <2>6, <3>10, TailIs
      <4> QED
        BY <3>9, <4>2, <4>3 DEF Stacked, Levels
    <3>13. StackOf(U, 0, g[1] + 1)
      <4>1. StackOf(W, 0, g[1])
        BY <3>9, <3>12 DEF Stacked
      <4>2. g[1] = h[p]
        BY <2>4, <2>11, <3>7, <4>1 DEF StackOf
      <4> QED
        BY <2>9, <2>11, <3>4, <4>2
    <3>14. Stands(t, left + 1, U)
      BY <1>2, <2>6, <3>9, <3>10, <3>11, <3>12, <3>13, OneHigher
    <3>15. left' = left + 1
      BY <1>6, <2>1, <2>11
    <3> QED
      BY <1>2, <2>7, <2>8, <3>14, <3>15 DEF StackInv
  <2> QED
    BY <2>10, <2>11
<1> QED
  BY <1>5, <1>6 DEF GetObject

-----------------------------------------------------------------------------
(* Java methods are started                                                *)

(* The native calls of a Java method.                                      *)
Ordinary(x) ==
  /\ x.op \notin {"lua", "return", "error", "method", "setTop", "loadString", "insert"}
  /\ x.op = "remove" => x.i = -2
  /\ x.op = "pop" => x.i = 1
  /\ x.op = "pcall" => x.args # 0
Method(a) ==
  /\ a \in Seq(Entry) /\ a # <<>>
  /\ \A i \in DOMAIN a :
       /\ Ordinary(a[i])
       /\ Checks(a[i]) => \E p \in i + 1 .. Len(a) :
            a[p].op = "unlock" /\ \A m \in i .. p - 1 : a[m].op # "unlock"

(* They leave the stack as high as they found it; c is how much higher it  *)
(* is before each.                                                         *)
Inside(b, c) ==
  /\ b \in Seq(Entry) /\ b # <<>> /\ c[1] = 0
  /\ \A i \in DOMAIN b :
       /\ Ordinary(b[i]) /\ b[i].op \notin {"lock", "unlock"}
       /\ c[i] \in Nat /\ (IF i = Len(b) THEN 0 ELSE c[i + 1]) = c[i] + Grows(b[i])
       /\ Checks(b[i]) => c[i] = 1

LEMMA BlockRises ==
  ASSUME NEW b, NEW c, Inside(b, c), NEW e \in Slots
  PROVE  LET a == Synchronized(b)
         IN  Method(a) /\ \E d : Tall(d, Len(a)) /\ Rises(a, d, e) /\ d[1] = e
<1> DEFINE n == Len(b)
           d == [i \in 1 .. n + 2 |-> IF i \in 2 .. n + 1 THEN e + c[i - 1] ELSE e]
<1>1. b \in Seq(Entry) /\ n \in Nat /\ n > 0 /\ DOMAIN b = 1 .. n
  BY LenProperties, EmptySeq DEF Inside
<1>2. PICK a : a = Synchronized(b)
  OBVIOUS
<1>3. /\ a \in Seq(Entry) /\ Len(a) = n + 2 /\ a[1].op = "lock" /\ a[n + 2].op = "unlock"
      /\ \A i \in DOMAIN a : i \in {1, n + 2} \/ (i - 1 \in DOMAIN b /\ a[i] = b[i - 1])
  <2>1. \A i \in DOMAIN b :
          b[i].op \notin {"lock", "unlock", "lua", "method", "error", "loadString"}
    BY DEF Inside, Ordinary
  <2> QED
    BY <1>1, <1>2, <2>1, BlockBalanced
<1>4. DOMAIN a = 1 .. n + 2 /\ a # <<>>
  BY <1>1, <1>3, LenProperties, EmptySeq
<1>5. \A i \in 1 .. n + 2 : i = 1 \/ i = n + 2 \/ (i \in 2 .. n + 1 /\ i # 1 /\ i # n + 2 /\ i - 1 \in 1 .. n)
  BY <1>1
<1>6. \A i \in 2 .. n + 1 : i \in 1 .. n + 2 /\ i - 1 \in DOMAIN b /\ a[i] = b[i - 1]
  BY <1>1, <1>3, <1>4
<1>7. /\ d[1] = e /\ d[n + 2] = e /\ \A i \in 2 .. n + 1 : d[i] = e + c[i - 1]
  BY <1>1
<1> HIDE DEF n, d
<1>8. e \in Nat /\ e > 0
  BY DEF Slots
<1>9. \A j \in 1 .. n : c[j] \in Nat
  BY <1>1 DEF Inside
<1>10. Tall(d, Len(a))
  <2>1. \A i \in 2 .. n + 1 : i - 1 \in 1 .. n /\ d[i] = e + c[i - 1]
    BY <1>1, <1>7
  <2>2. \A i \in 2 .. n + 1 : d[i] \in Slots
    BY <1>8, <1>9, <2>1 DEF Slots
  <2>3. d[1] \in Slots /\ d[n + 2] \in Slots
    BY <1>7
  <2> QED
    BY <1>3, <1>5, <2>2, <2>3 DEF Tall
<1>11. ASSUME NEW i \in 2 .. n + 1, Checks(a[i])
       PROVE  /\ d[i] = e + 1 /\ n + 2 \in i + 1 .. Len(a)
              /\ \A m \in i .. (n + 2) - 1 : a[m].op # "unlock"
  <2>1. i - 1 \in DOMAIN b /\ Checks(b[i - 1])
    BY <1>6, <1>11
  <2>2. c[i - 1] = 1
    BY <2>1 DEF Inside
  <2>3. \A m \in i .. (n + 2) - 1 : m \in 2 .. n + 1
    BY <1>1
  <2>4. \A m \in 2 .. n + 1 : a[m].op # "unlock"
    BY <1>6 DEF Inside
  <2> QED
    BY <1>1, <1>3, <1>7, <2>2, <2>3, <2>4
<1>12. ~Checks(a[1]) /\ ~Checks(a[n + 2]) /\ Grows(a[1]) = 0 /\ Grows(a[n + 2]) = 0
       /\ Ordinary(a[1]) /\ Ordinary(a[n + 2]) /\ a[1].op # "insert" /\ a[n + 2].op # "insert"
  BY <1>3 DEF Checks, Grows, Ordinary
<1>13. Method(a)
  <2>1. ASSUME NEW i \in 2 .. n + 1
        PROVE  /\ Ordinary(a[i])
               /\ Checks(a[i]) => \E p \in i + 1 .. Len(a) :
                    a[p].op = "unlock" /\ \A m \in i .. p - 1 : a[m].op # "unlock"
    <3>1. Ordinary(a[i])
      BY <1>6 DEF Inside
    <3> QED
      BY <1>3, <1>11, <3>1
  <2> QED
    BY <1>3, <1>4, <1>5, <1>12, <2>1 DEF Method
<1>14. Rises(a, d, e)
  <2>1. (IF 1 = Len(a) THEN e ELSE d[1 + 1]) = d[1] + Grows(a[1])
    <3>1. 2 \in 2 .. n + 1 /\ 2 - 1 = 1 /\ 1 # Len(a) /\ 1 + 1 = 2
      BY <1>1, <1>3
    <3>2. d[2] = e + 0
      BY <1>7, <3>1 DEF Inside
    <3> QED
      BY <1>7, <1>8, <1>12, <3>1, <3>2
  <2>2. (IF n + 2 = Len(a) THEN e ELSE d[n + 2 + 1]) = d[n + 2] + Grows(a[n + 2])
    BY <1>3, <1>7, <1>8, <1>12
  <2>3. ASSUME NEW i \in 2 .. n + 1
        PROVE  /\ (IF i = Len(a) THEN e ELSE d[i + 1]) = d[i] + Grows(a[i])
               /\ Checks(a[i]) => Finds(a, d, i, "unlock", 1)
               /\ a[i].op # "insert"
    <3>1. PICK j \in 1 .. n : j = i - 1 /\ i = j + 1
      BY <1>1
    <3>2. /\ (IF j = n THEN 0 ELSE c[j + 1]) = c[j] + Grows(b[j])
          /\ c[j] \in Nat /\ Ordinary(b[j])
      BY <1>1 DEF Inside, n
    <3>3. a[i] = b[j] /\ d[i] = e + c[j]
      BY <1>6, <1>7, <3>1
    <3>4. i # Len(a) /\ d[i + 1] = d[i] + Grows(a[i])
      <4>1. CASE j = n
        <5>1. i + 1 = n + 2 /\ i # Len(a)
          BY <1>1, <1>3, <3>1, <4>1
        <5>2. Grows(b[j]) \in Int
          BY <1>1, EntryGrows, ElementOfSeq
        <5>3. d[i + 1] = e
          BY <1>7, <5>1
        <5>4. 0 = c[j] + Grows(b[j])
          BY <3>2, <4>1
        <5>5. e = e + c[j] + Grows(b[j])
          BY <1>8, <3>2, <5>2, <5>4
        <5> QED
          BY <3>3, <5>1, <5>3, <5>5
      <4>2. CASE j # n
        <5>1. i + 1 \in 2 .. n + 1 /\ i # Len(a) /\ i + 1 - 1 = j + 1
          BY <1>1, <1>3, <3>1, <4>2
        <5>2. Grows(b[j]) \in Int
          BY <1>1, EntryGrows, ElementOfSeq
        <5>3. d[i + 1] = e + c[j + 1]
          BY <1>7, <5>1
        <5> QED
          BY <1>8, <3>2, <3>3, <4>2, <5>1, <5>2, <5>3
      <4> QED
        BY <4>1, <4>2
    <3>5. ASSUME Checks(a[i]) PROVE Finds(a, d, i, "unlock", 1)
      <4>1. d[i] = d[n + 2] + 1
        BY <1>7, <1>11, <3>5
      <4> QED
        BY <1>3, <1>11, <3>5, <4>1 DEF Finds
    <3> QED
      BY <3>2, <3>3, <3>4, <3>5 DEF Ordinary
  <2> QED
    BY <1>4, <1>5, <1>12, <2>1, <2>2, <2>3 DEF Rises
<1> QED
  BY <1>2, <1>7, <1>10, <1>13, <1>14

LEMMA MethodFacts ==
  ASSUME NEW a, Method(a), NEW s \in Seq(Entry), NEW f, NEW k, NEW n, n = 0
  PROVE  Fits(a, n, s, f, k) /\ ~Queued(a) /\ \A i \in DOMAIN a : a[i].op # "setTop"
<1>1. Fits(a, n, s, f, k)
  BY DEF Method, Ordinary, Fits, Ends
<1>2. ~Queued(a)
  <2>1. Len(a) \in DOMAIN a
    BY LenProperties, EmptySeq DEF Method
  <2> QED
    BY <2>1 DEF Method, Ordinary, Queued, Last
<1> QED
  BY <1>1, <1>2 DEF Method, Ordinary

(* Started at rest, it finds the stack at its height.                      *)
LEMMA MethodStands ==
  ASSUME StackInv, open, todo["main"] = <<>>, NEW a, Method(a),
         NEW d, Tall(d, Len(a)), Rises(a, d, 1 + left), d[1] = 1 + left
  PROVE  Stands(a, left, S)
<1>1. PICK s \in Seq(Entry) : s = <<>>
  <2>1. <<>> \in Seq(Entry)
    OBVIOUS
  <2> QED
    BY <2>1
<1>2. PICK f, h : Stacked(s, left, S, f, h)
  BY <1>1 DEF StackInv, Stands
<1>3. Len(s) = 0 /\ DOMAIN s = {}
  BY <1>1
<1>4. f[1] = 0 /\ h[1] = 1 + left /\ StackOf(S, 0, 1 + left)
  <2>1. Len(s) + 1 = 1
    BY <1>3
  <2>2. f[1] = 0
    BY <1>2, <2>1 DEF Stacked, Levels
  <2>3. h[1] = EndHeight(s, left)
    BY <1>2, <2>1 DEF Stacked, Heights
  <2>4. EndHeight(s, left) = 1 + left
    BY <1>1 DEF EndHeight, Queued, StackInv
  <2> QED
    BY <1>2, <2>2, <2>3, <2>4 DEF Stacked
<1>5. PICK k \in 1 .. Len(s) + 1, n \in Nat : k = 1 /\ n = 0
  BY <1>3
<1>6. Fits(a, n, s, f, k) /\ ~Queued(a) /\ \A i \in DOMAIN a : a[i].op # "setTop"
  BY <1>5, MethodFacts
<1>7. a \in Seq(Entry) /\ a # <<>>
  BY DEF Method
<1>8. f[k] + n = 0 /\ ~(f[k] > 0) /\ n # 1
  BY <1>4, <1>5
<1>9. Placed(a, n, s, f, k)
  <2>1. \A i \in DOMAIN a : Allowed(a[i], f[k] + n) /\ ~(a[i].op \in {"pcall", "lua"} /\ a[i].args = 0)
    BY <1>8 DEF Method, Ordinary, Allowed
  <2>2. \A j \in k .. Len(s) : FALSE
    BY <1>3, <1>5
  <2> QED
    BY <2>1, <2>2 DEF Placed
<1>10. EndHeight(Put(a, s, k), left) = EndHeight(s, left)
  <2>1. Queued(s) <=> Queued(a)
    BY <1>1, <1>6 DEF Queued
  <2> QED
    <3>1. /\ a \in Seq(Entry) /\ s \in Seq(Entry) /\ k \in 1 .. Len(s) + 1
          /\ s # <<>> => s[1].op # "setTop"
          /\ a = <<>> => k > 1
      BY <1>1, <1>7
    <3>2. Places(s, f)
      BY <1>2 DEF Stacked
    <3>3. \A i \in DOMAIN a : a[i].op # "setTop"
      BY <1>6
    <3> QED
      BY ONLY <2>1, <3>1, <3>2, <3>3, EndKept
<1>11. StackOf(S, f[k] + n, IF a = <<>> THEN h[k] ELSE d[1])
  BY <1>4, <1>7, <1>8
<1>12. Rises(a, d, h[k])
  BY <1>4, <1>5
<1>13. Stands(Put(a, s, k), left, S)
  BY <1>2, <1>6, <1>7, <1>8, <1>9, <1>10, <1>11, <1>12, StackPut
<1>14. Put(a, s, k) = a
  <2>1. SubSeq(s, k, Len(s)) = <<>>
    BY <1>3, <1>5, SubSeqEmpty
  <2> QED
    BY <1>7, <2>1, ConcatEmptySeq DEF Put
<1> QED
  BY <1>13, <1>14

(* Started by a method Lua called, whatever the height.                    *)
LEMMA MethodNested ==
  ASSUME IInv, StackInv, NEW a, Method(a), \A i \in DOMAIN a : a[i].op # "remove",
         Nested(a), UNCHANGED <<open, S, left>>
  PROVE  StackInv'
<1>1. PICK s : s = todo["main"]
  OBVIOUS
<1>2. /\ s \in Seq(Entry) /\ s # <<>> /\ Busy("main") /\ s[1].op = "method" /\ left \in Nat
      /\ todo'["main"] = Put(a, s, 2)
      /\ \E f, h : Stacked(s, left, S, f, h)
  BY <1>1, Here DEF Nested, Op, Arg
<1>3. PICK f, h : Stacked(s, left, S, f, h)
  BY <1>2
<1>4. /\ Len(s) \in Nat /\ DOMAIN s = 1 .. Len(s) /\ 1 \in 1 .. Len(s) /\ 2 \in 1 .. Len(s) + 1
      /\ StackOf(S, f[1], h[1]) /\ f[1] \in Nat /\ f[2] \in Nat
      /\ f[1] = f[2] + (IF Ends(s[1]) THEN 1 ELSE 0)
  BY <1>2, <1>3, HeadIs
<1>5. PICK p \in 1 + 1 .. Len(s) : s[p].op = "lua" /\ f[1] = f[p] + 1
  BY <1>2, <1>3, <1>4, ZenonT(60) DEF Stacked, Levels, Finds
<1>6. f[2] = f[1] /\ f[2] > 0 /\ 2 <= Len(s)
  <2>1. f[p] \in Nat
    BY <1>3, <1>4 DEF Stacked, Levels
  <2> QED
    BY <1>2, <1>4, <1>5, <2>1 DEF Ends
<1>7. PICK k \in 1 .. Len(s) + 1, n \in Nat : k = 2 /\ n = 0
  BY <1>4
<1>8. f[k] + n = f[2] /\ f[k] = f[2] /\ f[k] + n > 0 /\ n # 1 /\ k > 1 /\ k <= Len(s)
  <2>1. k > 1 /\ k <= Len(s) /\ f[k] = f[2] /\ n # 1
    BY <1>6, <1>7
  <2>2. f[2] + n = f[2]
    BY <1>4, <1>7
  <2> QED
    BY <1>6, <2>1, <2>2
<1>9. Fits(a, n, s, f, k)
  BY <1>2, <1>7, MethodFacts
<1>10. StackOf(S, f[k] + n, 1)
  <2>1. StackOf(S, f[2], 1)
    BY <1>4, <1>6 DEF StackOf
  <2> QED
    BY <1>8, <2>1
<1>11. /\ a \in Seq(Entry) /\ a # <<>>
       /\ \A i \in DOMAIN a :
            /\ a[i].op \notin {"setTop", "loadString", "remove", "insert"}
            /\ a[i].op = "pop" => a[i].i = 1
            /\ a[i].op \in {"pcall", "lua"} /\ a[i].args = 0 => i = Len(a) /\ k = Len(s) + 1
  BY DEF Method, Ordinary
<1>12. Stands(Put(a, s, k), left, S)
  <2>1. s[1].op # "setTop" /\ S.ci[2].func = S.ci[2].func
    BY <1>2
  <2> QED
    BY <1>2, <1>3, <1>8, <1>9, <1>10, <1>11, <2>1, StackDeep
<1> QED
  BY <1>2, <1>7, <1>12 DEF StackInv

(* A synchronized method that is started.                                  *)
LEMMA BlockStands ==
  ASSUME IInv, StackInv, NEW b, NEW c, Inside(b, c), UNCHANGED <<open, S, left>>,
         \/ Begins(Synchronized(b))
         \/ Nested(Synchronized(b)) /\ \A i \in DOMAIN b : b[i].op # "remove"
  PROVE  StackInv'
<1>1. PICK a : a = Synchronized(b)
  OBVIOUS
<1>2. PICK e \in Slots : left \in Nat /\ e = 1 + left
  BY DEF StackInv, Slots
<1>3. Method(a) /\ \E d : Tall(d, Len(a)) /\ Rises(a, d, e) /\ d[1] = e
  BY <1>1, BlockRises
<1>4. CASE Begins(a)
  <2>1. todo["main"] = <<>> /\ open /\ MainGoes(a)
    BY <1>4 DEF Begins, Busy, MainGoes
  <2>2. Stands(a, left, S)
    BY <1>2, <1>3, <2>1, MethodStands
  <2>3. todo'["main"] = a
    BY <2>1, MainGone DEF IInv
  <2> QED
    BY <1>2, <2>2, <2>3 DEF StackInv
<1>5. CASE Nested(a) /\ \A i \in DOMAIN b : b[i].op # "remove"
  <2>1. \A i \in DOMAIN a : a[i].op # "remove"
    <3>1. \A i \in DOMAIN b :
            b[i].op \notin {"lock", "unlock", "lua", "method", "error", "loadString"}
      BY DEF Inside, Ordinary
    <3>2. /\ a[1].op = "lock" /\ a[Len(a)].op = "unlock"
          /\ \A i \in DOMAIN a : i \in {1, Len(a)} \/ (i - 1 \in DOMAIN b /\ a[i] = b[i - 1])
      BY <1>1, <3>1, BlockBalanced DEF Inside
    <3> QED
      BY <1>5, <3>2
  <2> QED
    BY <1>3, <1>5, <2>1, MethodNested
<1> QED
  BY <1>1, <1>4, <1>5

LEMMA GlobalInside ==
  ASSUME NEW o \in Objects, NEW g \in {"function", "x"}
  PROVE  \E b, c : /\ Inside(b, c) /\ OfGlobal(o, g) = Synchronized(b)
                   /\ \A i \in DOMAIN b : b[i].op # "remove"
<1> DEFINE body == <<Value("getGlobal", g), Index("pushValue", -1), Of("ref", o), Index("pop", 1)>>
           level == <<0, 1, 2, 1>>
<1>1. /\ Value("getGlobal", g) \in Entry /\ Index("pushValue", -1) \in Entry
      /\ Of("ref", o) \in Entry /\ Index("pop", 1) \in Entry
      /\ Value("getGlobal", g).op = "getGlobal" /\ Index("pushValue", -1).op = "pushValue"
      /\ Of("ref", o).op = "ref" /\ Index("pop", 1).op = "pop" /\ Index("pop", 1).i = 1
  BY EntryKinds DEF Value, Index, Of
<1>2. /\ body \in Seq(Entry) /\ Len(body) = 4 /\ DOMAIN body = 1 .. 4 /\ body # <<>>
      /\ body[1].op = "getGlobal" /\ body[2].op = "pushValue" /\ body[3].op = "ref"
      /\ body[4].op = "pop" /\ body[4].i = 1
  BY <1>1
<1>3. OfGlobal(o, g) = Synchronized(body)
  BY DEF OfGlobal
<1>4. level[1] = 0 /\ level[2] = 1 /\ level[3] = 2 /\ level[4] = 1
  OBVIOUS
<1> PICK b, c : b = body /\ c = level
  OBVIOUS
<1> HIDE DEF body, level
<1>5. /\ Grows(b[1]) = 1 /\ Grows(b[2]) = 1 /\ Grows(b[3]) = -1 /\ Grows(b[4]) = -1
  BY <1>2 DEF Grows
<1>6. ASSUME NEW i \in DOMAIN b
      PROVE  /\ Ordinary(b[i]) /\ b[i].op \notin {"lock", "unlock", "remove"}
             /\ c[i] \in Nat /\ (IF i = Len(b) THEN 0 ELSE c[i + 1]) = c[i] + Grows(b[i])
             /\ Checks(b[i]) => c[i] = 1
  <2>1. i = 1 \/ i = 2 \/ i = 3 \/ i = 4
    BY <1>2
  <2>2. CASE i = 1
    BY <1>2, <1>4, <1>5, <2>2 DEF Ordinary, Checks
  <2>3. CASE i = 2
    BY <1>2, <1>4, <1>5, <2>3 DEF Ordinary, Checks
  <2>4. CASE i = 3
    BY <1>2, <1>4, <1>5, <2>4 DEF Ordinary, Checks
  <2>5. CASE i = 4
    BY <1>2, <1>4, <1>5, <2>5 DEF Ordinary, Checks
  <2> QED
    BY <2>1, <2>2, <2>3, <2>4, <2>5
<1>7. Inside(b, c)
  BY <1>2, <1>4, <1>6 DEF Inside
<1> QED
  BY <1>3, <1>6, <1>7

LEMMA CallInside ==
  ASSUME NEW o \in Objects, NEW n \in {0, 1}, NEW r \in Objects
  PROVE  \E b, c : /\ Inside(b, c) /\ CallOf(o, n, r) = Synchronized(b)
                   /\ \A i \in DOMAIN b : b[i].op # "remove"
<1> DEFINE call == [op |-> "pcall", args |-> 1, n |-> n, o |-> r]
           body == <<Of("push", o), Do("checkCallable"), Index("pop", 1),
                     Of("push", o), Do("pushObjectValue"), call>>
           level == <<0, 1, 1, 0, 1, 2>>
<1>1. /\ Of("push", o) \in Entry /\ Do("checkCallable") \in Entry /\ Index("pop", 1) \in Entry
      /\ Do("pushObjectValue") \in Entry /\ call \in Entry
      /\ Of("push", o).op = "push" /\ Do("checkCallable").op = "checkCallable"
      /\ Index("pop", 1).op = "pop" /\ Index("pop", 1).i = 1
      /\ Do("pushObjectValue").op = "pushObjectValue" /\ call.op = "pcall" /\ call.args = 1
  BY EntryKinds DEF Of, Do, Index
<1>2. CallOf(o, n, r) = Synchronized(body)
  BY DEF CallOf
<1> HIDE DEF call
<1>3. /\ body \in Seq(Entry) /\ Len(body) = 6 /\ DOMAIN body = 1 .. 6 /\ body # <<>>
      /\ body[1].op = "push" /\ body[2].op = "checkCallable"
      /\ body[3].op = "pop" /\ body[3].i = 1 /\ body[4].op = "push"
      /\ body[5].op = "pushObjectValue" /\ body[6].op = "pcall" /\ body[6].args = 1
  BY <1>1
<1>4. /\ level[1] = 0 /\ level[2] = 1 /\ level[3] = 1 /\ level[4] = 0 /\ level[5] = 1 /\ level[6] = 2
  OBVIOUS
<1> PICK b, c : b = body /\ c = level
  OBVIOUS
<1> HIDE DEF body, level
<1>5. /\ Grows(b[1]) = 1 /\ Grows(b[2]) = 0 /\ Grows(b[3]) = -1 /\ Grows(b[4]) = 1
      /\ Grows(b[5]) = 1 /\ Grows(b[6]) = -2
  BY <1>3 DEF Grows
<1>6. ASSUME NEW i \in DOMAIN b
      PROVE  /\ Ordinary(b[i]) /\ b[i].op \notin {"lock", "unlock", "remove"}
             /\ c[i] \in Nat /\ (IF i = Len(b) THEN 0 ELSE c[i + 1]) = c[i] + Grows(b[i])
             /\ Checks(b[i]) => c[i] = 1
  <2>1. i = 1 \/ i = 2 \/ i = 3 \/ i = 4 \/ i = 5 \/ i = 6
    BY <1>3
  <2>2. CASE i = 1
    BY <1>3, <1>4, <1>5, <2>2 DEF Ordinary, Checks
  <2>3. CASE i = 2
    BY <1>3, <1>4, <1>5, <2>3 DEF Ordinary, Checks
  <2>4. CASE i = 3
    BY <1>3, <1>4, <1>5, <2>4 DEF Ordinary, Checks
  <2>5. CASE i = 4
    BY <1>3, <1>4, <1>5, <2>5 DEF Ordinary, Checks
  <2>6. CASE i = 5
    BY <1>3, <1>4, <1>5, <2>6 DEF Ordinary, Checks
  <2>7. CASE i = 6
    BY <1>3, <1>4, <1>5, <2>7 DEF Ordinary, Checks
  <2> QED
    BY <2>1, <2>2, <2>3, <2>4, <2>5, <2>6, <2>7
<1>7. Inside(b, c)
  BY <1>3, <1>4, <1>6 DEF Inside
<1> QED
  BY <1>2, <1>6, <1>7

LEMMA ObjectInside ==
  ASSUME NEW o \in Objects
  PROVE  \E b, c : /\ Inside(b, c) /\ GetObjectOf(o) = Synchronized(b)
                   /\ \A i \in DOMAIN b : b[i].op # "remove"
<1> DEFINE body == <<Of("push", o), Do("getObject"), Index("pop", 1)>>
           level == <<0, 1, 1>>
<1>1. /\ Of("push", o) \in Entry /\ Do("getObject") \in Entry /\ Index("pop", 1) \in Entry
      /\ Of("push", o).op = "push" /\ Do("getObject").op = "getObject"
      /\ Index("pop", 1).op = "pop" /\ Index("pop", 1).i = 1
  BY EntryKinds DEF Of, Do, Index
<1>2. /\ body \in Seq(Entry) /\ Len(body) = 3 /\ DOMAIN body = 1 .. 3 /\ body # <<>>
      /\ body[1].op = "push" /\ body[2].op = "getObject" /\ body[3].op = "pop" /\ body[3].i = 1
  BY <1>1
<1>3. GetObjectOf(o) = Synchronized(body)
  BY DEF GetObjectOf
<1>4. level[1] = 0 /\ level[2] = 1 /\ level[3] = 1
  OBVIOUS
<1> PICK b, c : b = body /\ c = level
  OBVIOUS
<1> HIDE DEF body, level
<1>5. /\ Grows(b[1]) = 1 /\ Grows(b[2]) = 0 /\ Grows(b[3]) = -1
  BY <1>2 DEF Grows
<1>6. ASSUME NEW i \in DOMAIN b
      PROVE  /\ Ordinary(b[i]) /\ b[i].op \notin {"lock", "unlock", "remove"}
             /\ c[i] \in Nat /\ (IF i = Len(b) THEN 0 ELSE c[i + 1]) = c[i] + Grows(b[i])
             /\ Checks(b[i]) => c[i] = 1
  <2>1. i = 1 \/ i = 2 \/ i = 3
    BY <1>2
  <2>2. CASE i = 1
    BY <1>2, <1>4, <1>5, <2>2 DEF Ordinary, Checks
  <2>3. CASE i = 2
    BY <1>2, <1>4, <1>5, <2>3 DEF Ordinary, Checks
  <2>4. CASE i = 3
    BY <1>2, <1>4, <1>5, <2>4 DEF Ordinary, Checks
  <2> QED
    BY <2>1, <2>2, <2>3, <2>4
<1>7. Inside(b, c)
  BY <1>2, <1>4, <1>6 DEF Inside
<1> QED
  BY <1>3, <1>6, <1>7

LEMMA FieldInside ==
  ASSUME NEW o \in Objects, NEW q \in Objects
  PROVE  \E b, c : Inside(b, c) /\ OfField(o, q) = Synchronized(b)
<1> DEFINE body == <<Of("push", q), Do("checkTable"), Index("pop", 1),
                     Of("push", q), Value("pushString", "string"), Index("getTable", -2),
                     Index("remove", -2), Index("pushValue", -1), Of("ref", o), Index("pop", 1)>>
           level == <<0, 1, 1, 0, 1, 2, 2, 1, 2, 1>>
<1>1. /\ Of("push", q) \in Entry /\ Do("checkTable") \in Entry /\ Index("pop", 1) \in Entry
      /\ Value("pushString", "string") \in Entry /\ Index("getTable", -2) \in Entry
      /\ Index("remove", -2) \in Entry /\ Index("pushValue", -1) \in Entry /\ Of("ref", o) \in Entry
  BY EntryKinds
<1>2. /\ Of("push", q).op = "push" /\ Do("checkTable").op = "checkTable"
      /\ Index("pop", 1).op = "pop" /\ Index("pop", 1).i = 1
      /\ Value("pushString", "string").op = "pushString" /\ Index("getTable", -2).op = "getTable"
      /\ Index("remove", -2).op = "remove" /\ Index("remove", -2).i = -2
      /\ Index("pushValue", -1).op = "pushValue" /\ Of("ref", o).op = "ref"
  BY DEF Of, Do, Index, Value
<1>3. OfField(o, q) = Synchronized(body)
  BY DEF OfField
<1>4. /\ body \in Seq(Entry) /\ Len(body) = 10 /\ DOMAIN body = 1 .. 10 /\ body # <<>>
      /\ body[1].op = "push" /\ body[2].op = "checkTable" /\ body[3].op = "pop" /\ body[3].i = 1
      /\ body[4].op = "push" /\ body[5].op = "pushString" /\ body[6].op = "getTable"
      /\ body[7].op = "remove" /\ body[7].i = -2 /\ body[8].op = "pushValue"
      /\ body[9].op = "ref" /\ body[10].op = "pop" /\ body[10].i = 1
  BY <1>1, <1>2
<1>5. /\ level[1] = 0 /\ level[2] = 1 /\ level[3] = 1 /\ level[4] = 0 /\ level[5] = 1
      /\ level[6] = 2 /\ level[7] = 2 /\ level[8] = 1 /\ level[9] = 2 /\ level[10] = 1
  OBVIOUS
<1> PICK b, c : b = body /\ c = level
  OBVIOUS
<1> HIDE DEF body, level
<1>6. /\ Grows(b[1]) = 1 /\ Grows(b[2]) = 0 /\ Grows(b[3]) = -1 /\ Grows(b[4]) = 1
      /\ Grows(b[5]) = 1 /\ Grows(b[6]) = 0 /\ Grows(b[7]) = -1 /\ Grows(b[8]) = 1
      /\ Grows(b[9]) = -1 /\ Grows(b[10]) = -1
  BY <1>4 DEF Grows
<1> DEFINE Right(i) ==
             /\ Ordinary(b[i]) /\ b[i].op \notin {"lock", "unlock"}
             /\ c[i] \in Nat /\ (IF i = Len(b) THEN 0 ELSE c[i + 1]) = c[i] + Grows(b[i])
             /\ Checks(b[i]) => c[i] = 1
<1>7. Right(1) /\ Right(2) /\ Right(3) /\ Right(4) /\ Right(5)
  <2>1. Right(1)
    BY <1>4, <1>5, <1>6 DEF Ordinary, Checks
  <2>2. Right(2)
    BY <1>4, <1>5, <1>6 DEF Ordinary, Checks
  <2>3. Right(3)
    BY <1>4, <1>5, <1>6 DEF Ordinary, Checks
  <2>4. Right(4)
    BY <1>4, <1>5, <1>6 DEF Ordinary, Checks
  <2>5. Right(5)
    BY <1>4, <1>5, <1>6 DEF Ordinary, Checks
  <2> HIDE DEF Right
  <2> QED
    BY <2>1, <2>2, <2>3, <2>4, <2>5
<1>8. Right(6) /\ Right(7) /\ Right(8) /\ Right(9) /\ Right(10)
  <2>1. Right(6)
    BY <1>4, <1>5, <1>6 DEF Ordinary, Checks
  <2>2. Right(7)
    BY <1>4, <1>5, <1>6 DEF Ordinary, Checks
  <2>3. Right(8)
    BY <1>4, <1>5, <1>6 DEF Ordinary, Checks
  <2>4. Right(9)
    BY <1>4, <1>5, <1>6 DEF Ordinary, Checks
  <2>5. Right(10)
    BY <1>4, <1>5, <1>6 DEF Ordinary, Checks
  <2> HIDE DEF Right
  <2> QED
    BY <2>1, <2>2, <2>3, <2>4, <2>5
<1> HIDE DEF Right
<1>9. \A i \in DOMAIN b : Right(i)
  <2>1. \A i \in 1 .. 10 : i \in {1, 2, 3, 4, 5} \/ i \in {6, 7, 8, 9, 10}
    OBVIOUS
  <2> QED
    BY <1>4, <1>7, <1>8, <2>1
<1>10. Inside(b, c)
  BY <1>4, <1>5, <1>9 DEF Inside, Right
<1> QED
  BY <1>3, <1>10

(* Queued code is started from whatever height.                            *)
LEMMA QueuedStands ==
  ASSUME StackInv, open, todo["main"] = <<>>
  PROVE  Stands(RunQueuedCode, left, S)
<1> DEFINE call == [op |-> "pcall", args |-> 0, n |-> 0]
           code == <<Index("setTop", 0), Do("loadString"), Value("getGlobal", "table"),
                     Value("getField", "function"), Index("remove", -2), Index("insert", -2), call>>
<1>1. /\ Index("setTop", 0).op = "setTop" /\ Index("setTop", 0).i = 0 /\ Do("loadString").op = "loadString"
      /\ Value("getGlobal", "table").op = "getGlobal" /\ Value("getField", "function").op = "getField"
      /\ Index("remove", -2).op = "remove" /\ Index("insert", -2).op = "insert"
      /\ Index("remove", -2).i = -2 /\ Index("insert", -2).i = -2
      /\ call.op = "pcall" /\ call.n = 0 /\ call.args = 0
  BY DEF Index, Do, Value
<1>2. RunQueuedCode = code
  BY DEF RunQueuedCode
<1> HIDE DEF call
<1>3. /\ Len(code) = 7 /\ DOMAIN code = 1 .. 7 /\ code # <<>>
      /\ code[1].op = "setTop" /\ code[1].i = 0 /\ code[2].op = "loadString" /\ code[3].op = "getGlobal"
      /\ code[4].op = "getField" /\ code[5].op = "remove" /\ code[5].i = -2
      /\ code[6].op = "insert" /\ code[6].i = -2 /\ code[7].op = "pcall" /\ code[7].args = 0
  BY <1>1
<1>4. PICK e : e = 1 + left /\ e \in Slots
  BY DEF StackInv, Slots
<1> DEFINE none == [i \in 1 .. 8 |-> 0]
           level == <<e, 1, 2, 3, 4, 3, 3, 2>>
<1>5. /\ level \in [1 .. 8 -> Slots] /\ level[1] = e /\ level[2] = 1 /\ level[3] = 2 /\ level[4] = 3
      /\ level[5] = 4 /\ level[6] = 3 /\ level[7] = 3 /\ level[8] = 2
  <2>1. \A i \in 1 .. 8 : i \in {1, 2, 3, 4} \/ i \in {5, 6, 7, 8}
    OBVIOUS
  <2>2. /\ level[1] = e /\ level[2] = 1 /\ level[3] = 2 /\ level[4] = 3
        /\ level[5] = 4 /\ level[6] = 3 /\ level[7] = 3 /\ level[8] = 2
    OBVIOUS
  <2>3. level = [i \in 1 .. 8 |-> level[i]]
    OBVIOUS
  <2> HIDE DEF level
  <2>4. 1 \in Slots /\ 2 \in Slots /\ 3 \in Slots /\ 4 \in Slots
    BY DEF Slots
  <2>5. \A i \in 1 .. 8 : level[i] \in Slots
    BY <1>4, <2>1, <2>2, <2>4
  <2> QED
    BY <2>2, <2>3, <2>5
<1>6. none \in [1 .. 8 -> Nat] /\ \A i \in 1 .. 8 : none[i] = 0
  OBVIOUS
<1> PICK s, f, h : s = code /\ f = none /\ h = level
  OBVIOUS
<1> HIDE DEF code, none, level
<1>7. Len(s) + 1 = 8 /\ \A i \in DOMAIN s : i \in {1, 2, 3, 4} \/ i \in {5, 6, 7}
  BY <1>3
<1>8. \A i \in DOMAIN s :
        s[i].op \in {"setTop", "loadString", "getGlobal", "getField", "remove", "insert", "pcall"}
  BY <1>3, <1>7
<1>9. Levels(s, f)
  <2>1. \A i \in DOMAIN s : i \in 1 .. 8 /\ i + 1 \in 1 .. 8
    BY <1>3
  <2>2. \A i \in DOMAIN s : ~Ends(s[i]) /\ ~Checks(s[i]) /\ s[i].op # "method" /\ s[i].op # "lua"
    BY <1>8 DEF Ends, Checks
  <2>3. \A i \in DOMAIN s : \A p \in i .. Len(s) : p \in DOMAIN s
    BY <1>3
  <2> QED
    BY <1>6, <1>7, <2>1, <2>2, <2>3 DEF Levels
<1>10. Places(s, f)
  BY <1>3, <1>6, <1>7 DEF Places
<1>11. EndHeight(s, left) = 2
  <2>1. Queued(s)
    BY <1>3 DEF Queued, Last
  <2> QED
    BY <1>3, <2>1 DEF EndHeight
<1>12. Heights(s, f, h, 0, 2)
  <2> DEFINE Right(i) ==
               /\ h[i + 1] = (IF s[i].op = "setTop" THEN 1 ELSE h[i] + Grows(s[i]))
               /\ ~Checks(s[i])
               /\ s[i].op = "insert" => h[i] > 1
               /\ s[i].op = "loadString" => h[i] = 1
  <2>1. Right(1)
    BY <1>3, <1>5 DEF Checks
  <2>2. Right(2)
    BY <1>3, <1>5 DEF Checks, Grows
  <2>3. Right(3)
    BY <1>3, <1>5 DEF Checks, Grows
  <2>4. Right(4)
    BY <1>3, <1>5 DEF Checks, Grows
  <2>5. Right(5)
    BY <1>3, <1>5 DEF Checks, Grows
  <2>6. Right(6)
    BY <1>3, <1>5 DEF Checks, Grows
  <2>7. Right(7)
    BY <1>3, <1>5 DEF Checks, Grows
  <2>8. \A i \in DOMAIN s : f[i] = 0 /\ f[i + 1] = 0
    BY <1>3, <1>6
  <2> HIDE DEF Right
  <2>9. \A i \in DOMAIN s : Right(i)
    BY <1>7, <2>1, <2>2, <2>3, <2>4, <2>5, <2>6, <2>7
  <2>10. h \in [1 .. Len(s) + 1 -> Nat \ {0}] /\ h[Len(s) + 1] = 2
    BY <1>5, <1>7 DEF Slots
  <2> QED
    BY <2>8, <2>9, <2>10 DEF Heights, Right
<1>13. StackOf(S, f[1], h[1])
  <2>1. PICK g, k : Stacked(<<>>, left, S, g, k)
    BY DEF StackInv, Stands
  <2>2. Len(<<>>) + 1 = 1 /\ EndHeight(<<>>, left) = e
    BY <1>4 DEF EndHeight, Queued, StackInv
  <2>3. g[1] = 0 /\ k[1] = e
    BY <2>1, <2>2 DEF Stacked, Levels, Heights
  <2>4. StackOf(S, 0, e)
    BY <2>1, <2>3 DEF Stacked
  <2> QED
    BY <1>5, <1>6, <2>4
<1>14. Stacked(s, left, S, f, h)
  <2>1. f[1] = 0
    BY <1>6
  <2> QED
    BY <1>9, <1>10, <1>11, <1>12, <1>13, <2>1 DEF Stacked
<1>15. f \in [1 .. Len(s) + 1 -> Nat] /\ h \in [1 .. Len(s) + 1 -> Nat]
  BY <1>9, <1>12 DEF Levels, Heights
<1> QED
  BY <1>2, <1>14, <1>15 DEF Stands

-----------------------------------------------------------------------------
(* The finalizer thread, and the beginning                                 *)

LEMMA OpenStack ==
  ASSUME StackInv, open
  PROVE  {"stk", "ci", "base"} \subseteq DOMAIN S
  BY DEF StackInv, Stands, Stacked, StackOf, Slotted

(* The finalizer thread leaves the stack alone.                            *)
LEMMA FinalizerStands ==
  ASSUME IInv, StackInv, NativeStep("finalizer") \/ \E o \in Objects : Finalize(o)
  PROVE  StackInv'
<1>1. CASE NativeStep("finalizer")
  <2>1. Lock("finalizer") \/ Unlock("finalizer") \/ IfOpen("finalizer") \/ UnRef("finalizer")
    BY <1>1, FinalizerMoves
  <2>2. UNCHANGED <<open, left>>
    BY <2>1 DEF Lock, Unlock, IfOpen, UnRef, Native
  <2>3. todo'["main"] = todo["main"]
    <3>1. PICK t : todo' = [todo EXCEPT !["finalizer"] = t]
      BY <2>1 DEF Lock, Unlock, IfOpen, UnRef, Go, Then
    <3> QED
      BY <3>1 DEF IInv, ShapeInv, Threads
  <2>4. S' = S \/ \E k, D : S' = FromCPtr(Unref(S, k), "finalizer", D)
    BY <2>1 DEF Lock, Unlock, IfOpen, UnRef, Native
  <2>5. open => /\ {"stk", "ci", "base"} \subseteq DOMAIN S'
                /\ S'.stk = S.stk /\ S'.ci = S.ci /\ S'.base = S.base
    BY <2>4, OpenStack DEF FromCPtr, Collected, Unref
  <2> QED
    BY <2>2, <2>3, <2>5, StackStays
<1>2. ASSUME NEW o \in Objects, Finalize(o) PROVE StackInv'
  <2>1. UNCHANGED <<open, left, S>> /\ todo' = [todo EXCEPT !["finalizer"] = FinalizeOf(o)]
    BY <1>2 DEF Finalize
  <2>2. todo'["main"] = todo["main"]
    BY <2>1 DEF IInv, ShapeInv, Threads
  <2> QED
    BY <2>1, <2>2, OpenStack, StackStays
<1> QED
  BY <1>1, <1>2

(* A new state has an empty stack.                                         *)
LEMMA NewStands ==
  ASSUME NEW id
  PROVE  Stands(<<>>, 0, NewState("main", id))
<1>1. PICK frame : frame = [func |-> 1, base |-> 2, top |-> 2 + MinStack]
  OBVIOUS
<1>2. PICK stk, ci : stk = <<NilValue>> /\ ci = <<frame>>
  OBVIOUS
<1>3. PICK U : U = NewState("main", id)
  OBVIOUS
<1>4. {"stk", "ci", "base"} \subseteq DOMAIN U /\ U.stk = stk /\ U.ci = ci /\ U.base = 2
  BY <1>1, <1>2, <1>3 DEF NewState
<1>5. /\ stk \in Seq({stk[i] : i \in DOMAIN stk}) /\ Len(stk) = 1
      /\ ci \in Seq({ci[i] : i \in DOMAIN ci}) /\ Len(ci) = 1 /\ ci[1] = frame /\ DOMAIN ci = {1}
  BY <1>2
<1>6. frame.func = 1 /\ frame.base = 2
  BY <1>1
<1>7. Slotted(U)
  BY <1>4, <1>5 DEF Slotted
<1>8. PICK n \in Nat : n = 0
  OBVIOUS
<1>9. StackOf(U, 0, 1 + n)
  BY <1>4, <1>5, <1>6, <1>7, <1>8 DEF StackOf
<1> QED
  BY <1>3, <1>8, <1>9, StandsIdle

LEMMA NewStateStands ==
  ASSUME IInv, NewLuaState
  PROVE  StackInv'
<1>1. todo'["main"] = <<>> /\ left' = 0 /\ S' = NewState("main", NextStateIndex)
  BY DEF NewLuaState, Busy
<1>2. PICK U : U = S'
  OBVIOUS
<1>3. Stands(<<>>, 0, U)
  BY <1>1, <1>2, NewStands
<1> QED
  BY <1>1, <1>2, <1>3 DEF StackInv

LEMMA StackBegins ==
  ASSUME Init
  PROVE  StackInv
<1>1. todo["main"] = <<>> /\ left = 0 /\ S = NewState("main", 0)
  BY DEF Init, Threads
<1>2. Stands(<<>>, 0, S)
  BY <1>1, NewStands
<1> QED
  BY <1>1, <1>2 DEF StackInv

LEMMA StartStands ==
  ASSUME IInv, StackInv, Start
  PROVE  StackInv'
<1>1. UNCHANGED <<open, S, left>>
  BY DEF Start
<1>2. ASSUME NEW o \in Objects, NEW g \in {"function", "x"},
             Begins(OfGlobal(o, g)) \/ Nested(OfGlobal(o, g))
      PROVE  StackInv'
  <2>1. PICK b, c : /\ Inside(b, c) /\ OfGlobal(o, g) = Synchronized(b)
                    /\ \A i \in DOMAIN b : b[i].op # "remove"
    BY GlobalInside
  <2> QED
    BY <1>1, <1>2, <2>1, BlockStands
<1>3. ASSUME NEW o \in Objects, NEW p \in Objects, Begins(OfField(o, p))
      PROVE  StackInv'
  <2>1. PICK b, c : Inside(b, c) /\ OfField(o, p) = Synchronized(b)
    BY FieldInside
  <2> QED
    BY <1>1, <1>3, <2>1, BlockStands
<1>4. ASSUME NEW o \in Objects, NEW n \in {0, 1}, NEW r \in Objects,
             Begins(CallOf(o, n, r)) \/ Nested(CallOf(o, n, r))
      PROVE  StackInv'
  <2>1. PICK b, c : /\ Inside(b, c) /\ CallOf(o, n, r) = Synchronized(b)
                    /\ \A i \in DOMAIN b : b[i].op # "remove"
    BY CallInside
  <2> QED
    BY <1>1, <1>4, <2>1, BlockStands
<1>5. ASSUME NEW o \in Objects, Begins(GetObjectOf(o)) \/ Nested(GetObjectOf(o))
      PROVE  StackInv'
  <2>1. PICK b, c : /\ Inside(b, c) /\ GetObjectOf(o) = Synchronized(b)
                    /\ \A i \in DOMAIN b : b[i].op # "remove"
    BY ObjectInside
  <2> QED
    BY <1>1, <1>5, <2>1, BlockStands
<1>6. ASSUME NEW a, Begins(a), Stands(a, left, S)
      PROVE  StackInv'
  <2>1. PICK U : U = S'
    OBVIOUS
  <2>2. todo'["main"] = a /\ open' = open /\ left' = left /\ left \in Nat /\ U = S
    BY <1>1, <1>6, <2>1, MainGone DEF Begins, MainGoes, IInv, StackInv
  <2> QED
    BY <1>6, <2>1, <2>2 DEF StackInv
<1>7. CASE Begins(GiveToLua)
  <2>1. /\ Do("pushJavaObject") \in Entry /\ Value("setGlobal", "x") \in Entry
        /\ Do("pushJavaObject").op = "pushJavaObject" /\ Value("setGlobal", "x").op = "setGlobal"
    BY EntryKinds DEF Do, Value
  <2>2. PICK a : a = GiveToLua
    OBVIOUS
  <2>3. /\ a \in Seq(Entry) /\ Len(a) = 2 /\ DOMAIN a = {1, 2} /\ a # <<>>
        /\ a[1].op = "pushJavaObject" /\ a[2].op = "setGlobal"
    BY <2>1, <2>2 DEF GiveToLua
  <2>4. Method(a)
    BY <2>3 DEF Method, Ordinary, Checks
  <2>5. PICK e \in Slots : e = 1 + left
    BY DEF StackInv, Slots
  <2>6. PICK d : d = <<e, e + 1>>
    OBVIOUS
  <2>7. d[1] = e /\ d[2] = e + 1 /\ e \in Nat /\ e > 0
    BY <2>6 DEF Slots
  <2>8. Tall(d, Len(a)) /\ Rises(a, d, e)
    <3>1. ~Checks(a[1]) /\ ~Checks(a[2]) /\ Grows(a[1]) = 1 /\ Grows(a[2]) = -1
      BY <2>3 DEF Checks, Grows
    <3>2. Tall(d, Len(a))
      <4>1. \A i \in 1 .. 2 : i = 1 \/ i = 2
        OBVIOUS
      <4> QED
        BY <2>3, <2>7, <4>1 DEF Tall, Slots
    <3>3. Rises(a, d, e)
      BY <2>3, <2>7, <3>1 DEF Rises
    <3> QED
      BY <3>2, <3>3
  <2>9. Stands(a, left, S)
    BY <1>7, <2>4, <2>5, <2>7, <2>8, MethodStands DEF Begins, Busy
  <2> QED
    BY <1>6, <1>7, <2>2, <2>9
<1>8. CASE Begins(RunQueuedCode)
  <2>1. Stands(RunQueuedCode, left, S)
    BY <1>8, QueuedStands DEF Begins, Busy
  <2> QED
    BY <1>6, <1>8, <2>1
<1> QED
  BY <1>2, <1>3, <1>4, <1>5, <1>7, <1>8 DEF Start

LEMMA MainStands ==
  ASSUME IInv, StackInv, NativeStep("main") \/ LuaStep("main")
  PROVE  StackInv'
<1>1. CASE \/ StackOp("main") \/ PushOp("main") \/ GetGlobal("main") \/ SetGlobal("main")
           \/ GetField("main")
           \/ \E v \in {"nil", "function"} : GetTable("main", v)
           \/ PushObject("main")
           \/ \E u \in FreeUserdata(S), kind \in {"object", "function"} : PushJavaObject("main", u, kind)
           \/ PushObjectValue("main") \/ RegisterValue("main")
           \/ Lock("main") \/ Unlock("main")
  BY <1>1, StackSteps
<1>2. CASE SetTopZero("main") \/ LoadString("main") \/ Check("main") \/ LeaveBlock("main")
           \/ GetObject("main") \/ Pcall("main")
  BY <1>2, SetTopStands, LoadStringStands, CheckStands, LeaveBlockStands, GetObjectStands, PcallStands
<1>3. ASSUME NativeStep("main") PROVE StackInv'
  BY <1>1, <1>2, <1>3, MainNever DEF NativeStep
<1>4. ASSUME NEW v, LuaReturns("main", v) \/ LuaFails("main", v) PROVE StackInv'
  BY <1>4, LuaReturnsStands, LuaFailsStands
<1>5. CASE \/ \E u \in Userdata : ObjectIndex("main", u) \/ ObjectIndexReturn("main", u)
                                  \/ JavaFunctionCall("main", u) \/ CollectUserdata("main", u)
           \/ JavaBindClass("main") \/ ClassIndex("main") \/ JavaNew("main")
           \/ JavaNewInstance("main") \/ JavaLoadLib("main")
           \/ \E o \in Objects : JavaCreateProxy("main", o)
  BY <1>5, CallsStand
<1>6. CASE CallbackReturns("main") \/ Throws("main") \/ LuaError("main")
  BY <1>6, CallbackReturnsStands, ThrowsStands, LuaErrorStands
<1>7. ASSUME LuaStep("main") PROVE StackInv'
  BY <1>4, <1>5, <1>6, <1>7 DEF LuaStep
<1> QED
  BY <1>3, <1>7

(* The invariant of the stack holds as well.                               *)
THEOREM StackInvariance == Spec => []StackInv
<1>1. Init => StackInv
  BY StackBegins
<1>2. IInv /\ StackInv /\ [Next]_vars => StackInv'
  <2> SUFFICES ASSUME IInv, StackInv, [Next]_vars PROVE StackInv'
    OBVIOUS
  <2>1. CASE NativeStep("main") \/ LuaStep("main")
    BY <2>1, MainStands
  <2>2. CASE NativeStep("finalizer") \/ \E o \in Objects : Finalize(o)
    BY <2>2, FinalizerStands
  <2>3. CASE Start
    BY <2>3, StartStands
  <2>4. CASE MethodReturns
    BY <2>4, MethodReturnsStands
  <2>5. CASE Close
    <3>1. left' = left /\ ~open'
      BY <2>5 DEF Close
    <3> QED
      BY <3>1 DEF StackInv
  <2>6. CASE NewLuaState
    BY <2>6, NewStateStands
  <2>7. CASE UNCHANGED vars
    <3>1. UNCHANGED <<open, todo, S, left>>
      BY <2>7 DEF vars
    <3> QED
      BY <3>1, OpenStack, StackStays
  <2> QED
    BY <2>1, <2>2, <2>3, <2>4, <2>5, <2>6, <2>7 DEF Next, Threads
<1> QED
  BY <1>1, <1>2, BridgeInvariance, PTL DEF Spec

-----------------------------------------------------------------------------
(* What the project says of the bridge                                     *)

(* A key of the registry belongs to one LuaObject from luaL_ref to         *)
(* luaL_unref, and the value stays under it, whatever the two threads do.  *)
THEOREM ReferencesNeverShared == Spec => []RefsKept
<1>1. IInv => RefsKept
  BY DEF IInv
<1> QED
  BY <1>1, BridgeInvariance, PTL

(* The main thread leaves what the finalizer thread has before it.         *)
LEMMA MainAlone ==
  ASSUME ShapeInv, NativeStep("main") \/ LuaStep("main") \/ Start \/ MethodReturns
  PROVE  todo'["finalizer"] = todo["finalizer"]
<1> DEFINE Alone == todo'["finalizer"] = todo["finalizer"]
<1>0. todo = [j \in Threads |-> todo[j]] /\ "finalizer" \in Threads /\ "finalizer" # "main"
  BY DEF ShapeInv, Threads
<1>1. ASSUME NEW a, Then("main", a) PROVE Alone
  BY <1>0, <1>1 DEF Then
<1> SUFFICES Alone
  OBVIOUS
<1> HIDE DEF Alone
<1>2. Go("main") => Alone
  BY <1>1 DEF Go
<1>7. UNCHANGED todo => Alone
  BY DEF Alone
<1>3. CASE NativeStep("main")
  <2>1. CASE \/ Lock("main") \/ Unlock("main") \/ StackOp("main") \/ PushOp("main")
             \/ GetGlobal("main") \/ SetGlobal("main") \/ SetTopZero("main") \/ GetField("main")
             \/ \E v \in {"nil", "function"} : GetTable("main", v)
             \/ PushObject("main")
             \/ \E u \in FreeUserdata(S), kind \in {"object", "function"} : PushJavaObject("main", u, kind)
             \/ PushObjectValue("main") \/ RegisterValue("main") \/ UnRef("main")
    <3>1. Go("main")
      BY <2>1 DEF Lock, Unlock, StackOp, PushOp, GetGlobal, SetGlobal, SetTopZero, GetField, GetTable,
                  PushObject, PushJavaObject, PushObjectValue, RegisterValue, UnRef
    <3> QED
      BY <1>2, <3>1
  <2>2. CASE LoadString("main")
    <3>1. ASSUME todo' = [todo EXCEPT !["main"] = <<>>] PROVE Alone
      BY <1>0, <3>1 DEF Alone
    <3> QED
      BY <1>2, <2>2, <3>1 DEF LoadString
  <2>3. CASE Check("main")
    <3>1. \/ Then("main", IF Last(S.stk) = "table" THEN <<>> ELSE <<Do("fail")>>)
          \/ Then("main", IF Last(S.stk) \in {"function", "table", "class"} \cup Userdata
                          THEN <<>> ELSE <<Do("fail")>>)
      BY <2>3 DEF Check
    <3> QED
      BY <1>1, <3>1
  <2>4. CASE LeaveBlock("main")
    BY <1>0, <2>4 DEF LeaveBlock, Alone
  <2>5. CASE GetObject("main")
    <3>1. ASSUME todo' = [todo EXCEPT !["main"] = UpToUnlock(@)] PROVE Alone
      BY <1>0, <3>1 DEF Alone
    <3> QED
      BY <1>2, <2>5, <3>1 DEF GetObject
  <2>6. CASE IfOpen("main")
    BY <1>0, <2>6 DEF IfOpen, Alone
  <2>7. CASE Pcall("main")
    BY <1>1, <2>7 DEF Pcall
  <2> QED
    BY <1>3, <2>1, <2>2, <2>3, <2>4, <2>5, <2>6, <2>7 DEF NativeStep
<1>4. CASE LuaStep("main")
  <2>1. ASSUME NEW args, NEW a, CallBack("main", args, a) PROVE Alone
    BY <1>0, <2>1 DEF CallBack, Alone
  <2>2. ASSUME NEW q, NEW rest, NEW s, NEW v, Fail("main", q, rest, s, v) PROVE Alone
    BY <1>0, <2>2 DEF Fail, Alone
  <2>3. ASSUME NEW v, LuaReturns("main", v) PROVE Alone
    BY <1>0, <2>3 DEF LuaReturns, Then, Alone
  <2>4. ASSUME NEW v, LuaFails("main", v) PROVE Alone
    BY <2>2, <2>4 DEF LuaFails
  <2>10. CASE LuaError("main")
    <3>1. Fail("main", todo["main"][2], SubSeq(todo["main"], 3, Len(todo["main"])), EndFrame(S, <<>>), "string")
      BY <2>10 DEF LuaError
    <3> QED
      BY <2>2, <3>1
  <2>5. ASSUME NEW u, \/ ObjectIndex("main", u) \/ ObjectIndexReturn("main", u)
                      \/ JavaFunctionCall("main", u) \/ CollectUserdata("main", u)
        PROVE  Alone
    <3>1. UNCHANGED todo \/ \E args, a : CallBack("main", args, a)
      BY <2>5 DEF ObjectIndex, ObjectIndexReturn, JavaFunctionCall, CollectUserdata
    <3> QED
      BY <1>7, <2>1, <3>1
  <2>6. CASE \/ JavaBindClass("main") \/ ClassIndex("main") \/ JavaNew("main")
             \/ JavaNewInstance("main") \/ JavaLoadLib("main")
    <3>1. UNCHANGED todo \/ \E args, a : CallBack("main", args, a)
      BY <2>6 DEF JavaBindClass, ClassIndex, JavaNew, JavaNewInstance, JavaLoadLib
    <3> QED
      BY <1>7, <2>1, <3>1
  <2>7. ASSUME NEW o, JavaCreateProxy("main", o) PROVE Alone
    <3>1. \E args, a : CallBack("main", args, a)
      BY <2>7 DEF JavaCreateProxy
    <3> QED
      BY <2>1, <3>1
  <2>8. CASE CallbackReturns("main")
    BY <1>2, <2>8 DEF CallbackReturns
  <2>9. CASE Throws("main")
    BY <1>0, <2>9 DEF Throws, Alone
  <2> QED
    BY <1>4, <2>3, <2>4, <2>5, <2>6, <2>7, <2>8, <2>9, <2>10 DEF LuaStep
<1>5. CASE Start
  <2>1. ASSUME NEW a, Begins(a) \/ Nested(a) PROVE Alone
    BY <1>0, <2>1 DEF Begins, Nested, Then, Alone
  <2>2. \E a : Begins(a) \/ Nested(a)
    BY <1>5 DEF Start
  <2> QED
    BY <2>1, <2>2
<1>6. CASE MethodReturns
  <2>1. ASSUME todo' = [todo EXCEPT !["main"] = SubSeq(@, 3, Len(@))] PROVE Alone
    BY <1>0, <2>1 DEF Alone
  <2> QED
    BY <1>2, <1>6, <2>1 DEF MethodReturns
<1> QED
  BY <1>3, <1>4, <1>5, <1>6

(* The finalizer thread makes no native call while Lua code is under way.  *)
LEMMA NoNativeCall ==
  ASSUME IInv, UnRef("finalizer")
  PROVE  ~InsideLua("main")
<1>1. PICK d : Balanced(todo["main"], d) /\ Held(d[1])
  BY MonitorWitness
<1>2. /\ todo["main"] \in Seq(Entry) /\ 1 \in 1 .. Len(todo["main"]) + 1
      /\ \A k \in DOMAIN todo["main"] : 1 \in 1 .. k
  BY LenProperties DEF IInv, ShapeInv
<1>3. FinalizerHolds(made)
  <2>1. Busy("finalizer") /\ Head(todo["finalizer"]).op = "unref" /\ FinalizerInv
    BY DEF UnRef, Op, IInv
  <2>2. PICK o \in Objects : Finalizes(o) /\ \A g : FinalizerHolds(g) <=> g = object[o].of
    BY <2>1, FinalizerAt
  <2> QED
    BY <2>1, <2>2 DEF Finalizes
<1>4. d[1] = 0
  BY <1>1, <1>2, <1>3 DEF Held, Balanced, Depths
<1> QED
  BY <1>1, <1>2, <1>4 DEF InsideLua, Balanced

(* While Lua code or a method it called runs, the environment that         *)
(* luajava.c finds in the registry is the one of the thread running it,    *)
(* whatever native calls, and collections in them, came between; and gc is *)
(* run by that thread alone, also in the native calls of those methods.    *)
THEOREM CallbacksHaveTheirEnv == Spec => OwnEnv
<1> DEFINE Fine == \A j \in Threads : InsideLua(j) => S.env = j /\ (Collects => Collector = j)
<1>1. IInv /\ [Next]_vars => [Fine]_vars
  <2> SUFFICES ASSUME IInv, Next, NEW j \in Threads, InsideLua(j)
               PROVE  S.env = j /\ (Collects => Collector = j)
    OBVIOUS
  <2>1. j = "main"
    BY FinalizerCalls DEF IInv, Threads
  <2>2. S.env = j
    BY DEF IInv, EnvIsRunning
  <2>3. ASSUME Collects PROVE todo'["finalizer"] = todo["finalizer"]
    <3>1. CASE NativeStep("main") \/ LuaStep("main") \/ Start \/ MethodReturns
      BY <3>1, MainAlone DEF IInv
    <3>2. CASE NativeStep("finalizer")
      <4>1. Lock("finalizer") \/ Unlock("finalizer") \/ IfOpen("finalizer")
        BY <2>1, <3>2, FinalizerMoves, NoNativeCall
      <4>2. S' = S
        BY <4>1 DEF Lock, Unlock, IfOpen
      <4> QED
        BY <2>3, <4>2 DEF Collects
    <3>3. CASE \E o \in Objects : Finalize(o)
      <4>1. S' = S
        BY <3>3 DEF Finalize
      <4> QED
        BY <2>3, <4>1 DEF Collects
    <3>4. CASE Close
      BY <2>3, <3>4 DEF Close, Collects
    <3>5. CASE NewLuaState
      <4>1. todo["main"] = <<>>
        BY <3>5 DEF NewLuaState, Busy
      <4> QED
        BY <2>1, <4>1 DEF InsideLua
    <3> QED
      BY <3>1, <3>2, <3>3, <3>4, <3>5 DEF Next, Threads
  <2>4. Collects => Collector = "main"
    BY <2>3 DEF Collector
  <2> QED
    BY <2>1, <2>2, <2>4
<1> QED
  BY <1>1, BridgeInvariance, PTL DEF Spec, OwnEnv

(* The stateIndex a callback passes finds the LuaState that called it,     *)
(* wherever removeLuaState and newLuaState moved the entries of the list.  *)
THEOREM CallbacksFindTheirState == Spec => []StateFound
<1>1. ASSUME IInv PROVE StateFound
  <2>1. ~InsideLua("finalizer")
    BY <1>1, FinalizerCalls DEF IInv
  <2>2. ASSUME InsideLua("main") PROVE states[S.index + 1] = made
    <3>1. open
      BY <1>1, <2>2 DEF IInv, ShapeInv, InsideLua, Busy
    <3> QED
      BY <1>1, <3>1 DEF IInv, StatesInv
  <2> QED
    BY <2>1, <2>2 DEF StateFound, Threads
<1> QED
  BY <1>1, BridgeInvariance, PTL

(* LuaObject.finalize reaches luaL_unref only with its own state open: the *)
(* test and the call are one step of the monitor that close needs as well. *)
THEOREM FinalizersKeepOff == Spec => []ClosedUntouched
<1>1. ASSUME IInv PROVE ClosedUntouched
  <2> SUFFICES ASSUME Op("finalizer", "unref") PROVE open /\ Target("finalizer") = made
    BY DEF ClosedUntouched
  <2>1. Busy("finalizer") /\ Head(todo["finalizer"]).op = "unref"
    BY DEF Op
  <2>2. PICK o \in Objects : Finalizes(o) /\ Arg("finalizer").o = o
    BY <1>1, <2>1, FinalizerAt DEF IInv
  <2> QED
    BY <2>1, <2>2 DEF Finalizes, Target
<1> QED
  BY <1>1, BridgeInvariance, PTL

(* Between methods the Lua stack holds what queued code, failed calls and  *)
(* getObject left and nothing else, however callbacks, exceptions and Lua  *)
(* errors ended the methods before.                                        *)
THEOREM NothingElseStays == Spec => []NothingElseLeft
<1>1. ASSUME StackInv PROVE NothingElseLeft
  <2> SUFFICES ASSUME open, todo["main"] = <<>> PROVE GetTop(S) = left
    BY DEF NothingElseLeft, Busy
  <2>1. PICK s : s = todo["main"]
    OBVIOUS
  <2>2. PICK f, h : Stacked(s, left, S, f, h)
    BY <1>1, <2>1 DEF StackInv, Stands
  <2>3. Len(s) + 1 = 1 /\ EndHeight(s, left) = 1 + left /\ left \in Nat
    BY <1>1, <2>1 DEF EndHeight, Queued, StackInv
  <2>4. f[1] = 0 /\ h[1] = 1 + left
    BY <2>2, <2>3 DEF Stacked, Levels, Heights
  <2>5. StackOf(S, 0, 1 + left)
    BY <2>2, <2>4 DEF Stacked
  <2>6. Len(S.stk) = 1 + left /\ S.base = 2
    BY <2>5 DEF StackOf
  <2> QED
    BY <2>3, <2>6 DEF GetTop, Top
<1> QED
  BY <1>1, StackInvariance, PTL
=============================================================================
