-------------------- MODULE ContextInferenceEngineProofs --------------------
(***************************************************************************)
(* Proofs about ContextInferenceEngine, for every set of names and every   *)
(* set of rule lines: its invariants; that it implements SymbolRules,      *)
(* where a parsed line is a definition, a whole update is one atomic       *)
(* change and every other step is one the caller does not see; and that    *)
(* what it keeps up to date step by step is what resetSymbolValues         *)
(* computes from scratch.                                                  *)
(***************************************************************************)
EXTENDS EngineInvariant, EngineReset, FiniteSetTheorems, FunctionTheorems,
        WellFoundedInduction, TLAPS

-----------------------------------------------------------------------------
(* Facts about names and ids                                               *)

(* What the assumptions say of the names and of Known.                     *)
LEMMA NamesFacts ==
  ASSUME TypeOK
  PROVE  /\ NULL \notin Names
         /\ Defined \subseteq InternalNames
         /\ Known \subseteq Names
         /\ SystemNames \cap Defined = {}
         /\ \A n \in Names : Id(n) \in Int
         /\ \A n \in SystemNames : Id(n) = -1
         /\ \A s \in InternalNames : Id(s) = id[s] /\ id[s] \in Nat
<1>1. NULL \notin Names /\ SystemNames \cap InternalNames = {}
  BY NameAssumption
<1>2. Defined \subseteq InternalNames
  BY DEF Defined, TypeOK
<1>3. \A s \in InternalNames : Id(s) = id[s] /\ id[s] \in Nat
  BY <1>1 DEF Id, TypeOK
<1>4. \A n \in SystemNames : Id(n) = -1
  BY DEF Id
<1> QED
  BY <1>1, <1>2, <1>3, <1>4 DEF Known, Names

(* Two defined symbols never share an id.                                  *)
LEMMA KnownIds ==
  ASSUME TypeOK, OrderInv,
         NEW m \in Known, NEW n \in Known, Id(m) = Id(n), m \notin SystemNames
  PROVE  m = n
<1>1. m \in Defined /\ m \in InternalNames /\ Id(m) = id[m] /\ id[m] \in Nat
  BY NamesFacts DEF Known
<1>2. n \notin SystemNames
  <2>1. SUFFICES ASSUME n \in SystemNames PROVE FALSE
    OBVIOUS
  <2>2. Id(n) = -1
    BY <2>1, NamesFacts
  <2> QED
    BY <2>2, <1>1
<1>3. n \in Defined /\ n \in InternalNames /\ Id(n) = id[n]
  BY <1>2, NamesFacts DEF Known
<1>4. PICK i \in DOMAIN symbolsById : m = symbolsById[i]
  BY <1>1 DEF Defined
<1>5. PICK j \in DOMAIN symbolsById : n = symbolsById[j]
  BY <1>3 DEF Defined
<1>6. i \in Int /\ j \in Int
  BY DEF TypeOK
<1>7. id[m] = i - 1 /\ id[n] = j - 1
  BY <1>4, <1>5 DEF OrderInv
<1>8. i - 1 = j - 1
  BY <1>1, <1>3, <1>7
<1> QED
  BY <1>4, <1>5, <1>6, <1>8

(* The engine starts in the invariant: no symbol is defined yet.           *)
LEMMA InitIInv == Init => IInv
<1> SUFFICES ASSUME Init PROVE IInv
  OBVIOUS
<1> USE DEF Init
<1>1. TypeOK
  <2>1. symbolsById \in Seq(InternalNames) /\ modifySet \in Seq(Names)
    OBVIOUS
  <2>2. \A c \in Clause : /\ DOMAIN marks[c] \subseteq Names
                           /\ marks[c] \in [DOMAIN marks[c] -> 0..3]
    OBVIOUS
  <2> QED
    BY <2>1, <2>2 DEF TypeOK, Names
<1>2. Defined = {} /\ Live = {}
  BY DEF Defined, Live, Clause
<1>3. OrderInv
  BY <1>2 DEF OrderInv, Names
<1>4. QueueInv
  BY DEF QueueInv
<1>5. HoldInv
  <2>1. \A s \in InternalNames : symbolClauses[s] = {} /\ Holding(s) = {}
    BY DEF Holding
  <2>2. \A s \in InternalNames : IsFiniteSet(symbolClauses[s])
                                /\ holdCount[s] = Cardinality(Holding(s))
    BY <2>1, FS_EmptySet
  <2>3. \A s \in InternalNames : symbols[s] = FALSE /\ holdCount[s] = 0
    BY DEF Names
  <2>4. \A s \in InternalNames : symbols[s] <=> holdCount[s] > 0
    <3> HIDE DEF Init
    <3> QED
      BY <2>3
  <2> QED
    BY <2>2, <2>4 DEF HoldInv
<1>6. WaitingInv
  <2>1. \A c \in Clause : DOMAIN marks[c] = {} /\ Unsatisfied(c) = {}
    BY DEF Unsatisfied
  <2> QED
    BY <2>1, FS_EmptySet DEF WaitingInv
<1>7. MarkInv
  BY <1>2 DEF MarkInv
<1>8. SeenInv /\ ReportedInOrder /\ NoChangeLost
  BY DEF SeenInv, ReportedInOrder, NoChangeLost
<1> QED
  BY <1>1, <1>3, <1>4, <1>5, <1>6, <1>7, <1>8 DEF IInv

-----------------------------------------------------------------------------
(* Steps that leave the rules alone                                        *)

(* What is defined, known and live depends on the parsed rules only.       *)
LEMMA RulesKept ==
  ASSUME UNCHANGED ruleVars
  PROVE  /\ Defined' = Defined /\ Known' = Known /\ Live' = Live
         /\ \A n : Id(n)' = Id(n)
  BY DEF ruleVars, Defined, Known, Live, Id

(* OrderInv is kept by a step that leaves the rules alone.                 *)
LEMMA OrderKept ==
  ASSUME OrderInv, UNCHANGED ruleVars,
         \A c \in Clause : DOMAIN marks'[c] = DOMAIN marks[c]
  PROVE  OrderInv'
<1>1. /\ Defined' = Defined /\ Known' = Known /\ Live' = Live
      /\ \A n : Id(n)' = Id(n)
  BY RulesKept
<1>2. Live \subseteq Clause
  BY DEF Live
<1>3. UNCHANGED <<symbolsById, id, symbolClauses, clauses>>
  BY DEF ruleVars
<1>4. \A x : {c \in Live : x \in DOMAIN marks'[c]} = {c \in Live : x \in DOMAIN marks[c]}
  BY <1>2
<1> QED
  BY <1>1, <1>2, <1>3, <1>4 DEF OrderInv

(* HoldInv and WaitingInv are kept where the counters do not change.       *)
LEMMA CountersKept ==
  ASSUME UNCHANGED <<holdCount, waitingCount, marks, symbolClauses>>
  PROVE  /\ WaitingInv => WaitingInv'
         /\ \A s : Holding(s)' = Holding(s)
         /\ HoldInv /\ (\A s \in InternalNames : symbols'[s] = symbols[s]) => HoldInv'
  BY DEF WaitingInv, HoldInv, Unsatisfied, Holding

(* The whole of the parsed state is kept by a step of the loop that visits *)
(* no clause.                                                              *)
LEMMA StateKept ==
  ASSUME OrderInv, WaitingInv,
         UNCHANGED <<holdCount, waitingCount, marks, ruleVars>>
  PROVE  /\ OrderInv' /\ WaitingInv'
         /\ Known' = Known /\ Live' = Live /\ \A n : Id(n)' = Id(n)
         /\ HoldInv /\ (\A s \in InternalNames : symbols'[s] = symbols[s]) => HoldInv'
<1>1. \A c \in Clause : DOMAIN marks'[c] = DOMAIN marks[c]
  OBVIOUS
<1>2. OrderInv'
  BY <1>1, OrderKept
<1>3. UNCHANGED <<holdCount, waitingCount, marks, symbolClauses>>
  BY DEF ruleVars
<1> QED
  BY <1>2, <1>3, CountersKept, RulesKept

(* The end of loading keeps the invariant.                                 *)
LEMMA FinishLoadingIInv ==
  ASSUME IInv, FinishLoading
  PROVE  IInv'
<1> USE DEF FinishLoading, IInv
<1>1. OrderInv' /\ WaitingInv' /\ HoldInv' /\ Known' = Known /\ Live' = Live
      /\ \A n : Id(n)' = Id(n)
  BY StateKept
<1>2. TypeOK'
  BY DEF TypeOK, ruleVars, loopVars, seenVars
<1>3. QueueInv'
  BY <1>1 DEF QueueInv, ruleVars, loopVars
<1>4. MarkInv'
  BY <1>1 DEF MarkInv, Pending, loopVars
<1>5. SeenInv' /\ NoChangeLost'
  BY DEF SeenInv, NoChangeLost, loopVars, seenVars
<1>6. ReportedInOrder'
  BY <1>1 DEF ReportedInOrder, loopVars
<1> QED
  BY <1>1, <1>2, <1>3, <1>4, <1>5, <1>6

(* updateSystemSymbol up to its loop: the system symbol changes and is the *)
(* only name queued, so that its marks are the only ones that lag.         *)
LEMMA BeginUpdateIInv ==
  ASSUME IInv, NEW name \in SystemNames, NEW value \in BOOLEAN,
         BeginUpdate(name, value)
  PROVE  IInv'
<1> USE DEF BeginUpdate, IInv
<1>0. name \in Names /\ \A s \in InternalNames : s # name
  BY NameAssumption DEF Names
<1>1. \A n \in Names : symbols'[n] = IF n = name THEN value ELSE symbols[n]
  BY DEF TypeOK
<1>2. OrderInv' /\ WaitingInv' /\ Known' = Known /\ Live' = Live
      /\ \A n : Id(n)' = Id(n)
  BY StateKept
<1>3. \A s \in InternalNames : symbols'[s] = symbols[s]
  BY <1>0, <1>1 DEF Names
<1>4. HoldInv'
  BY <1>3, StateKept
<1>5. TypeOK'
  BY <1>0 DEF TypeOK, ruleVars, seenVars
<1>6. QueueInv'
  BY <1>2, NameAssumption DEF QueueInv, Known
<1>7. MarkInv'
  <2> SUFFICES ASSUME NEW c \in Live, NEW x \in DOMAIN marks[c], ~Pending(c, x)'
               PROVE  marks[c][x] >= 2 <=> symbols'[x] # (marks[c][x] % 2 = 1)
    BY <1>2 DEF MarkInv
  <2>1. c \in Clause /\ x \in Names
    BY DEF Live, TypeOK
  <2>2. x # NULL
    BY <2>1, NamesFacts
  <2>3. x # name
    BY <1>0, <2>1, <2>2 DEF Pending
  <2>4. ~Pending(c, x)
    BY <2>1 DEF Pending, QueueInv
  <2> QED
    BY <1>1, <2>1, <2>3, <2>4 DEF MarkInv
<1>8. SeenInv'
  BY DEF SeenInv
<1>9. NoChangeLost'
  BY <1>1 DEF NoChangeLost, SeenInv, seenVars
<1>10. ReportedInOrder'
  BY DEF ReportedInOrder
<1> QED
  BY <1>2, <1>4, <1>5, <1>6, <1>7, <1>8, <1>9, <1>10

(* When the queue is empty no mark lags, and the caller sees the values.   *)
LEMMA EndUpdateIInv ==
  ASSUME IInv, EndUpdate
  PROVE  IInv'
<1> USE DEF EndUpdate, IInv
<1>1. OrderInv' /\ WaitingInv' /\ HoldInv' /\ Known' = Known /\ Live' = Live
      /\ \A n : Id(n)' = Id(n)
  BY StateKept
<1>2. TypeOK'
  BY DEF TypeOK, ruleVars, loopVars
<1>3. QueueInv'
  BY <1>1 DEF QueueInv, ruleVars, loopVars
<1>4. MarkInv'
  BY <1>1 DEF MarkInv, Pending, loopVars
<1>5. SeenInv' /\ NoChangeLost'
  BY DEF SeenInv, NoChangeLost
<1>6. ReportedInOrder'
  BY <1>1 DEF ReportedInOrder, loopVars
<1> QED
  BY <1>1, <1>2, <1>3, <1>4, <1>5, <1>6

-----------------------------------------------------------------------------
(* Taking a name from the queue                                            *)

(* A name that was handled just before is dropped: nothing waits for it.   *)
LEMMA PollRepeatedIInv ==
  ASSUME IInv, NEW n \in Names, PollRepeated(n)
  PROVE  IInv'
<1> USE DEF PollRepeated, IInv
<1>1. OrderInv' /\ WaitingInv' /\ HoldInv' /\ Known' = Known /\ Live' = Live
      /\ \A m : Id(m)' = Id(m)
  BY StateKept
<1>2. queue[n] > 0 /\ last # NULL
  BY NamesFacts DEF IsFirst
<1>3. \A m \in Names : queue'[m] = IF m = n THEN queue[n] - 1 ELSE queue[m]
  BY DEF TypeOK, Dequeue
<1>4. TypeOK'
  <2>1. queue' \in [Names -> Nat]
    BY <1>2 DEF TypeOK, Dequeue
  <2> QED
    BY <2>1 DEF TypeOK, ruleVars, seenVars
<1>5. QueueInv'
  <2>1. \A m \in Names : queue'[m] > 0 => queue[m] > 0
    BY <1>2, <1>3
  <2> QED
    BY <1>1, <1>2, <2>1 DEF QueueInv, ruleVars
<1>6. MarkInv'
  <2> SUFFICES ASSUME NEW c \in Live, NEW x \in DOMAIN marks[c], ~Pending(c, x)'
               PROVE  marks[c][x] >= 2 <=> symbols[x] # (marks[c][x] % 2 = 1)
    BY <1>1 DEF MarkInv
  <2>1. x \in Names
    BY DEF Live, TypeOK
  <2>2. ~Pending(c, x)
    BY <1>3, <2>1 DEF Pending
  <2> QED
    BY <2>2 DEF MarkInv
<1>7. SeenInv'
  BY DEF SeenInv
<1>8. NoChangeLost'
  <2>1. \E i \in DOMAIN modifySet : modifySet[i] = n
    BY <1>2 DEF QueueInv, TypeOK
  <2> QED
    BY <1>3, <2>1 DEF NoChangeLost, seenVars
<1>9. ReportedInOrder'
  BY <1>1 DEF ReportedInOrder
<1> QED
  BY <1>1, <1>4, <1>5, <1>6, <1>7, <1>8, <1>9

(* Taking a new name moves last forward in the order and hands the marks of*)
(* the name over from the queue to todo.                                   *)
LEMMA PollIInv ==
  ASSUME IInv, NEW n \in Names, Poll(n)
  PROVE  IInv'
<1> USE DEF Poll, IInv
<1>1. OrderInv' /\ WaitingInv' /\ HoldInv' /\ Known' = Known /\ Live' = Live
      /\ \A m : Id(m)' = Id(m)
  BY StateKept
<1>2. /\ queue[n] > 0 /\ n \in Known
      /\ \A m \in Names : queue[m] > 0 => Id(n) <= Id(m)
  BY DEF IsFirst, QueueInv
<1>3. \A m \in Names : queue'[m] = IF m = n THEN queue[n] - 1 ELSE queue[m]
  BY DEF TypeOK, Dequeue
<1>4. \A m \in Names : queue'[m] > 0 => queue[m] > 0
  BY <1>2, <1>3
<1>5. modifySet' = Append(modifySet, n)
  BY DEF Report
<1>6. last # NULL => Id(last) < Id(n)
  BY <1>2 DEF QueueInv
<1>7. TypeOK'
  <2>1. queue' \in [Names -> Nat]
    BY <1>2 DEF TypeOK, Dequeue
  <2>2. modifySet' \in Seq(Names) /\ v' \in BOOLEAN /\ todo' \in SUBSET Clause
    BY <1>5 DEF TypeOK
  <2> QED
    BY <2>1, <2>2 DEF TypeOK, ruleVars, seenVars
<1>8. \A m \in Names : queue'[m] > 0 /\ m # n => Id(n) < Id(m)
  <2> SUFFICES ASSUME NEW m \in Names, queue[m] > 0, m # n
               PROVE  Id(n) < Id(m)
    BY <1>4
  <2>1. m \in Known /\ Id(n) <= Id(m) /\ Id(n) \in Int /\ Id(m) \in Int
    BY <1>2, NamesFacts DEF QueueInv
  <2>2. n \notin SystemNames
    <3>1. SUFFICES ASSUME n \in SystemNames PROVE FALSE
      OBVIOUS
    <3>2. last # NULL
      BY <1>2 DEF QueueInv
    <3>3. last \in Names /\ Id(last) < -1
      BY <1>6, <3>1, <3>2, NamesFacts DEF TypeOK
    <3> QED
      BY <3>3, NamesFacts DEF Names
  <2>3. Id(n) # Id(m)
    BY <1>2, <2>1, <2>2, KnownIds
  <2> QED
    BY <2>1, <2>3
<1>9. QueueInv'
  <2>1. n # NULL
    BY NamesFacts
  <2>2. modifySet' # <<>> /\ modifySet'[Len(modifySet')] = n
    <3>1. modifySet \in Seq(Names)
      BY DEF TypeOK
    <3> HIDE DEF Poll, IInv
    <3> QED
      BY <1>5, <3>1
  <2> QED
    BY <1>1, <1>2, <1>4, <1>8, <2>1, <2>2 DEF QueueInv, ruleVars
<1>10. MarkInv'
  <2> SUFFICES ASSUME NEW c \in Live, NEW x \in DOMAIN marks[c], ~Pending(c, x)'
               PROVE  marks[c][x] >= 2 <=> symbols[x] # (marks[c][x] % 2 = 1)
    BY <1>1 DEF MarkInv
  <2>1. x \in Names /\ c \in clauses[x]
    BY DEF Live, TypeOK, OrderInv
  <2>2. x # n
    BY <2>1 DEF Pending
  <2>3. ~Pending(c, x)
    BY <1>3, <2>1, <2>2 DEF Pending
  <2> QED
    BY <2>3 DEF MarkInv
<1>11. SeenInv'
  BY DEF SeenInv
<1>12. NoChangeLost'
  <2>1. SUFFICES ASSUME NEW m \in Names, symbols[m] # before[m]
                 PROVE  queue'[m] > 0 \/ \E i \in DOMAIN modifySet' : modifySet'[i] = m
    BY DEF NoChangeLost, seenVars
  <2>2. \A i \in DOMAIN modifySet : i \in DOMAIN modifySet' /\ modifySet'[i] = modifySet[i]
    BY <1>5 DEF TypeOK
  <2>3. Len(modifySet) + 1 \in DOMAIN modifySet' /\ modifySet'[Len(modifySet) + 1] = n
    BY <1>5 DEF TypeOK
  <2> QED
    BY <1>3, <2>1, <2>2, <2>3 DEF NoChangeLost
<1>13. ReportedInOrder'
  <2>1. SUFFICES ASSUME NEW i \in DOMAIN modifySet', NEW j \in DOMAIN modifySet', i < j
                 PROVE  Id(modifySet'[i]) < Id(modifySet'[j])
    BY <1>1 DEF ReportedInOrder
  <2>2. modifySet \in Seq(Names) /\ Len(modifySet') = Len(modifySet) + 1
    BY <1>5 DEF TypeOK
  <2>3. i \in DOMAIN modifySet /\ modifySet'[i] = modifySet[i]
    BY <1>5, <2>1, <2>2
  <2>4. CASE j \in DOMAIN modifySet
    <3>1. modifySet'[j] = modifySet[j]
      BY <1>5, <2>2, <2>4
    <3> QED
      BY <2>1, <2>3, <2>4, <3>1 DEF ReportedInOrder
  <2>5. CASE j \notin DOMAIN modifySet
    <3>1. modifySet'[j] = n /\ modifySet # <<>>
      BY <1>5, <2>2, <2>3, <2>5
    <3>2. last # NULL /\ modifySet[Len(modifySet)] = last
      BY <3>1 DEF QueueInv
    <3>3. Id(modifySet[i]) <= Id(last)
      <4>1. CASE i = Len(modifySet)
        BY <2>2, <2>3, <3>2, <4>1, NamesFacts
      <4>2. CASE i # Len(modifySet)
        <5>1. Len(modifySet) \in DOMAIN modifySet /\ i < Len(modifySet)
          BY <2>2, <2>3, <4>2
        <5>2. Id(modifySet[i]) < Id(last)
          BY <2>3, <3>2, <5>1 DEF ReportedInOrder
        <5> QED
          BY <2>2, <2>3, <3>2, <5>1, <5>2, NamesFacts
      <4> QED
        BY <4>1, <4>2
    <3>4. Id(modifySet[i]) \in Int /\ Id(last) \in Int /\ Id(n) \in Int
      BY <2>2, <2>3, <3>2, NamesFacts DEF TypeOK
    <3> QED
      BY <1>6, <2>3, <3>1, <3>2, <3>3, <3>4
  <2> QED
    BY <2>4, <2>5
<1> QED
  BY <1>1, <1>7, <1>9, <1>10, <1>11, <1>12, <1>13

-----------------------------------------------------------------------------
(* Notifying a clause                                                      *)

(* What the code of an item tells: bit 0 its negation, bit 1 that it holds.*)
LEMMA MarkFacts ==
  ASSUME NEW neg \in BOOLEAN, NEW b \in BOOLEAN
  PROVE  /\ Mark(neg, b) \in 0..3
         /\ Mark(neg, b) % 2 = 1 <=> neg
         /\ Mark(neg, b) >= 2 <=> b # neg
  BY DEF Mark

(* notifySymbol keeps the negation and makes the mark follow the value.    *)
LEMMA NotifiedMarkFacts ==
  ASSUME NEW m \in 0..3, NEW b \in BOOLEAN
  PROVE  /\ NotifiedMark(m, b) \in 0..3
         /\ NotifiedMark(m, b) % 2 = 1 <=> m % 2 = 1
         /\ NotifiedMark(m, b) >= 2 <=> b # (m % 2 = 1)
<1>1. (m % 2 = 1) \in BOOLEAN
  OBVIOUS
<1> QED
  BY <1>1, MarkFacts DEF NotifiedMark

(* Notifying keeps the counter at or above the number of unsatisfied items *)
(* of a clause, and equal to it where it was equal.                        *)
LEMMA NotifiedWaitingFacts ==
  ASSUME TypeOK, NEW c \in Clause, NEW x \in DOMAIN marks[c], NEW b \in BOOLEAN,
         IsFiniteSet(DOMAIN marks[c]),
         waitingCount[c] >= Cardinality(Unsatisfied(c)),
         DOMAIN marks'[c] = DOMAIN marks[c],
         \A y \in DOMAIN marks[c] :
           marks'[c][y] = IF y = x THEN NotifiedMark(marks[c][x], b) ELSE marks[c][y]
  PROVE  LET w == waitingCount[c]
             w2 == NotifiedWaiting(w, marks[c][x], b)
         IN  /\ w2 \in Nat
             /\ w2 >= Cardinality(Unsatisfied(c)')
             /\ w = Cardinality(Unsatisfied(c)) => w2 = Cardinality(Unsatisfied(c)')
<1> DEFINE w == waitingCount[c]
           w2 == NotifiedWaiting(w, marks[c][x], b)
           m == marks[c][x]
           m2 == NotifiedMark(m, b)
           U == Unsatisfied(c)
           U2 == Unsatisfied(c)'
<1>1. m \in 0..3 /\ m2 \in 0..3 /\ w \in Nat
  BY NotifiedMarkFacts DEF TypeOK
<1>2. IsFiniteSet(U) /\ Cardinality(U) \in Nat
  BY FS_Subset, FS_CardinalityType DEF Unsatisfied
<1>3. U = {y \in DOMAIN marks[c] : marks[c][y] < 2}
      /\ U2 = {y \in DOMAIN marks[c] : marks'[c][y] < 2}
  BY DEF Unsatisfied
<1>4. CASE m < 2 /\ m2 >= 2
  <2>1. U2 = U \ {x} /\ x \in U
    BY <1>1, <1>3, <1>4
  <2>2. w2 = w - 1
    BY <1>1, <1>4 DEF NotifiedWaiting
  <2>3. Cardinality(U2) = Cardinality(U) - 1 /\ Cardinality(U2) \in Nat
    <3> HIDE DEF U, U2
    <3> QED
      BY <1>2, <2>1, FS_RemoveElement, FS_CardinalityType
  <2> HIDE DEF U, U2, w, w2
  <2> QED
    BY <1>1, <1>2, <2>2, <2>3 DEF U, U2, w, w2
<1>5. CASE m >= 2 /\ m2 < 2
  <2>1. U2 = U \cup {x} /\ x \notin U
    BY <1>1, <1>3, <1>5
  <2>2. w2 = w + 1
    BY <1>1, <1>5 DEF NotifiedWaiting
  <2>3. Cardinality(U2) = Cardinality(U) + 1
    <3> HIDE DEF U, U2
    <3> QED
      BY <1>2, <2>1, FS_AddElement
  <2> QED
    BY <1>1, <1>2, <2>2, <2>3
<1>6. CASE ~(m < 2 /\ m2 >= 2) /\ ~(m >= 2 /\ m2 < 2)
  <2>1. U2 = U
    BY <1>1, <1>3, <1>6
  <2>2. w2 = w
    BY <1>6 DEF NotifiedWaiting
  <2> QED
    BY <1>1, <2>1, <2>2
<1> QED
  BY <1>4, <1>5, <1>6

(* One round of the inner loop: the counter follows the mark, the hold     *)
(* count follows the counter, and a symbol that flips is queued behind last*)
(* because its id is larger than those of its items.                       *)
LEMMA VisitIInv ==
  ASSUME IInv, NEW c \in Clause, Visit(c)
  PROVE  IInv'
<1> USE DEF IInv
<1> DEFINE s == c[1]
           waiting == NotifiedWaiting(waitingCount[c], marks[c][last], v)
           gains == waitingCount[c] # 0 /\ waiting = 0
           loses == waitingCount[c] = 0 /\ waiting # 0
           hold == CASE gains -> holdCount[s] + 1
                     [] loses -> holdCount[s] - 1
                     [] OTHER -> holdCount[s]
           flips == Flips(gains, loses, hold)
<1>1. /\ phase = "updating" /\ c \in todo
      /\ todo' = todo \ {c}
      /\ waitingCount' = [waitingCount EXCEPT ![c] = waiting]
      /\ marks' = [marks EXCEPT ![c][last] = NotifiedMark(@, v)]
      /\ holdCount' = [holdCount EXCEPT ![s] = hold]
      /\ symbols' = IF flips THEN [symbols EXCEPT ![s] = gains] ELSE symbols
      /\ queue' = IF flips THEN [queue EXCEPT ![s] = @ + 1] ELSE queue
      /\ UNCHANGED <<phase, ruleVars, last, v, modifySet, seenVars>>
  BY DEF Visit
<1>2. last # NULL /\ last \in Names /\ c \in clauses[last] /\ v = symbols[last]
  BY <1>1 DEF QueueInv, TypeOK
<1>3. /\ c \in Live /\ c \in symbolClauses[s] /\ last \in DOMAIN marks[c]
      /\ s \in InternalNames /\ s \in Defined /\ s \in Names
      /\ Id(last) < Id(s)
  <2>1. c \in Live /\ last \in DOMAIN marks[c] /\ s \in InternalNames
    BY <1>2 DEF OrderInv, Clause
  <2>2. Id(last) < id[s]
    BY <2>1 DEF OrderInv
  <2> QED
    BY <2>1, <2>2, NamesFacts DEF Live, OrderInv, Names
<1>4. s # last
  BY <1>2, <1>3, NamesFacts
<1>5. /\ waitingCount[c] \in Nat /\ holdCount[s] \in Nat /\ v \in BOOLEAN
      /\ marks[c] \in [DOMAIN marks[c] -> 0..3] /\ DOMAIN marks[c] \subseteq Names
  BY <1>3 DEF TypeOK
<1>6. /\ marks' = [d \in Clause |-> marks'[d]]
      /\ marks'[c] = [marks[c] EXCEPT ![last] = NotifiedMark(@, v)]
      /\ \A d \in Clause : d # c => marks'[d] = marks[d]
      /\ \A d \in Clause : DOMAIN marks'[d] = DOMAIN marks[d]
  BY <1>1, <1>3 DEF TypeOK
<1> HIDE DEF s
<1>7. /\ waiting \in Nat
      /\ waiting >= Cardinality(Unsatisfied(c)')
      /\ waitingCount[c] = Cardinality(Unsatisfied(c)) => waiting = Cardinality(Unsatisfied(c)')
  <2>1. IsFiniteSet(DOMAIN marks[c]) /\ waitingCount[c] >= Cardinality(Unsatisfied(c))
    BY DEF WaitingInv
  <2>2. \A y \in DOMAIN marks[c] :
          marks'[c][y] = IF y = last THEN NotifiedMark(marks[c][last], v) ELSE marks[c][y]
    BY <1>3, <1>6
  <2> QED
    BY <1>3, <1>5, <1>6, <2>1, <2>2, NotifiedWaitingFacts
<1> HIDE DEF waiting
<1>8. /\ waitingCount' \in [Clause -> Nat] /\ waitingCount'[c] = waiting
      /\ \A d \in Clause : d # c => waitingCount'[d] = waitingCount[d]
  BY <1>1, <1>7 DEF TypeOK
<1>9. UNCHANGED symbolClauses
  BY <1>1 DEF ruleVars
<1>10. \A t \in InternalNames : t # s => Holding(t)' = Holding(t)
  <2>1. \A t \in InternalNames : t # s => c \notin symbolClauses[t]
    BY DEF OrderInv, s
  <2> QED
    BY <1>8, <1>9, <2>1 DEF Holding, TypeOK
<1>11. /\ hold \in Nat /\ hold = Cardinality(Holding(s)')
       /\ IF flips THEN gains <=> hold > 0 ELSE symbols[s] <=> hold > 0
  <2>1. /\ holdCount[s] = Cardinality(Holding(s)) /\ IsFiniteSet(Holding(s))
        /\ symbols[s] <=> holdCount[s] > 0
    BY <1>3, FS_Subset DEF HoldInv, Holding
  <2>2. \A d \in symbolClauses[s] : d \in Clause
    BY <1>3 DEF TypeOK
  <2>3. CASE gains
    <3>1. Holding(s)' = Holding(s) \cup {c} /\ c \notin Holding(s)
      BY <1>3, <1>8, <1>9, <2>2, <2>3 DEF Holding
    <3>2. hold = holdCount[s] + 1 /\ ~loses
      BY <2>3
    <3>3. Cardinality(Holding(s)') = Cardinality(Holding(s)) + 1
      BY <2>1, <3>1, FS_AddElement
    <3>4. flips <=> hold = 1
      BY <2>3, <3>2 DEF Flips
    <3> HIDE DEF hold, flips, gains
    <3> QED
      BY <1>5, <2>1, <2>3, <3>2, <3>3, <3>4
  <2>4. CASE loses
    <3>1. Holding(s)' = Holding(s) \ {c} /\ c \in Holding(s)
      BY <1>3, <1>8, <1>9, <2>2, <2>4 DEF Holding
    <3>2. hold = holdCount[s] - 1 /\ ~gains
      BY <2>4
    <3>3. Cardinality(Holding(s)') = Cardinality(Holding(s)) - 1 /\ Cardinality(Holding(s)') \in Nat
      BY <2>1, <3>1, FS_RemoveElement, FS_CardinalityType
    <3>4. flips <=> hold = 0
      BY <2>4, <3>2 DEF Flips
    <3> HIDE DEF hold, flips, gains
    <3> QED
      BY <1>5, <2>1, <2>4, <3>2, <3>3, <3>4
  <2>5. CASE ~gains /\ ~loses
    <3>1. Holding(s)' = Holding(s)
      BY <1>3, <1>5, <1>7, <1>8, <1>9, <2>2, <2>5 DEF Holding
    <3>2. hold = holdCount[s] /\ ~flips
      BY <2>5 DEF Flips
    <3> HIDE DEF hold, flips, gains
    <3> QED
      BY <1>5, <2>1, <3>1, <3>2
  <2> QED
    BY <2>3, <2>4, <2>5
<1>12. gains \in BOOLEAN /\ flips \in BOOLEAN
  BY DEF Flips
<1> HIDE DEF hold, flips, gains
<1>13. /\ symbols' \in [Names -> BOOLEAN]
       /\ \A n \in Names : n # s => symbols'[n] = symbols[n]
       /\ ~flips => symbols'[s] = symbols[s]
       /\ flips => symbols'[s] = gains
  BY <1>1, <1>3, <1>12 DEF TypeOK
<1>14. /\ queue' \in [Names -> Nat]
       /\ \A n \in Names : n # s => queue'[n] = queue[n]
       /\ ~flips => queue'[s] = queue[s]
       /\ flips => queue'[s] = queue[s] + 1
  BY <1>1, <1>3, <1>12 DEF TypeOK
<1>15. OrderInv' /\ Known' = Known /\ Live' = Live /\ \A n : Id(n)' = Id(n)
  BY <1>1, <1>6, OrderKept, RulesKept
<1>16. TypeOK'
  <2>1. holdCount' \in [InternalNames -> Nat]
    BY <1>1, <1>3, <1>11 DEF TypeOK
  <2>2. \A d \in Clause : /\ DOMAIN marks'[d] \subseteq Names
                          /\ marks'[d] \in [DOMAIN marks'[d] -> 0..3]
    <3>1. marks'[c] \in [DOMAIN marks[c] -> 0..3]
      BY <1>3, <1>5, <1>6, NotifiedMarkFacts
    <3> QED
      BY <1>6, <3>1 DEF TypeOK
  <2>3. todo' \in SUBSET Clause
    BY <1>1 DEF TypeOK
  <2> QED
    BY <1>1, <1>6, <1>8, <1>13, <1>14, <2>1, <2>2, <2>3 DEF TypeOK, ruleVars, seenVars
<1>17. QueueInv'
  <2>1. \A n \in Names : queue'[n] > 0 => n \in Known
    BY <1>3, <1>14 DEF QueueInv, Known
  <2>2. \A n \in Names : queue'[n] > 0 /\ n # last => Id(last) < Id(n)
    BY <1>2, <1>3, <1>14 DEF QueueInv
  <2>3. v' = symbols'[last']
    BY <1>1, <1>2, <1>4, <1>13
  <2> QED
    BY <1>1, <1>2, <1>15, <2>1, <2>2, <2>3 DEF QueueInv, ruleVars
<1>18. HoldInv'
  <2>1. holdCount' \in [InternalNames -> Nat] /\ holdCount'[s] = hold
        /\ \A t \in InternalNames : t # s => holdCount'[t] = holdCount[t]
    BY <1>1, <1>3, <1>11 DEF TypeOK
  <2>2. \A t \in InternalNames : t # s => symbols'[t] = symbols[t]
    BY <1>13 DEF Names
  <2>3. symbols'[s] <=> hold > 0
    BY <1>11, <1>12, <1>13
  <2>4. \A t \in InternalNames : holdCount'[t] = Cardinality(Holding(t)')
    BY <1>10, <1>11, <2>1 DEF HoldInv
  <2>5. \A t \in InternalNames : symbols'[t] <=> holdCount'[t] > 0
    BY <2>1, <2>2, <2>3 DEF HoldInv
  <2> QED
    BY <1>9, <2>4, <2>5 DEF HoldInv
<1>19. WaitingInv'
  <2>1. \A d \in Clause : d # c => Unsatisfied(d)' = Unsatisfied(d)
    BY <1>6 DEF Unsatisfied
  <2>2. waitingCount'[c] >= Cardinality(Unsatisfied(c)')
        /\ (NoRepeatedItems => waitingCount'[c] = Cardinality(Unsatisfied(c)'))
    BY <1>7, <1>8 DEF WaitingInv
  <2> QED
    BY <1>6, <1>8, <2>1, <2>2 DEF WaitingInv
<1>20. MarkInv'
  <2> SUFFICES ASSUME NEW d \in Live, NEW x \in DOMAIN marks[d], ~Pending(d, x)'
               PROVE  marks'[d][x] >= 2 <=> symbols'[x] # (marks'[d][x] % 2 = 1)
    <3>1. \A d \in Live : DOMAIN marks'[d] = DOMAIN marks[d]
      BY <1>6 DEF Live
    <3> QED
      BY <1>15, <3>1 DEF MarkInv
  <2>1. d \in Clause /\ x \in Names /\ marks[d] \in [DOMAIN marks[d] -> 0..3]
    BY DEF Live, TypeOK
  <2>2. symbols'[x] = symbols[x]
    <3>1. CASE x # s
      BY <1>13, <2>1, <3>1
    <3>2. CASE x = s
      <4>1. queue'[s] = 0
        BY <1>1, <1>3, <1>4, <1>14, <3>2 DEF Pending
      <4>2. ~flips
        BY <1>3, <1>14, <4>1 DEF TypeOK
      <4> QED
        BY <1>13, <3>2, <4>2
    <3> QED
      BY <3>1, <3>2
  <2>3. CASE d = c /\ x = last
    <3>1. marks[c][last] \in 0..3 /\ marks'[c][last] = NotifiedMark(marks[c][last], v)
      BY <1>3, <1>5, <1>6
    <3> QED
      BY <1>2, <1>5, <2>2, <2>3, <3>1, NotifiedMarkFacts
  <2>4. CASE ~(d = c /\ x = last)
    <3>1. marks'[d][x] = marks[d][x]
      BY <1>3, <1>6, <2>1, <2>4
    <3>2. ~Pending(d, x)
      BY <1>1, <1>3, <1>14, <2>1, <2>4 DEF Pending, TypeOK
    <3> QED
      BY <2>2, <3>1, <3>2 DEF MarkInv
  <2> QED
    BY <2>3, <2>4
<1>21. SeenInv'
  BY <1>1 DEF SeenInv
<1>22. NoChangeLost'
  <2> SUFFICES ASSUME NEW n \in Names, symbols'[n] # before[n]
               PROVE  queue'[n] > 0 \/ \E i \in DOMAIN modifySet : modifySet[i] = n
    BY <1>1 DEF NoChangeLost, seenVars
  <2>1. CASE symbols'[n] = symbols[n]
    <3>1. queue[n] \in Nat
      BY DEF TypeOK
    <3>2. queue'[n] = queue[n] \/ queue'[n] = queue[n] + 1
      BY <1>12, <1>14
    <3>3. queue[n] > 0 => queue'[n] > 0
      BY <3>1, <3>2
    <3> QED
      BY <2>1, <3>3 DEF NoChangeLost
  <2>2. CASE symbols'[n] # symbols[n]
    BY <1>3, <1>12, <1>13, <1>14, <2>2 DEF TypeOK
  <2> QED
    BY <2>1, <2>2
<1>23. ReportedInOrder'
  BY <1>1, <1>15 DEF ReportedInOrder
<1> QED
  BY <1>15, <1>16, <1>17, <1>18, <1>19, <1>20, <1>21, <1>22, <1>23

-----------------------------------------------------------------------------
(* Parsing a line                                                          *)

(* Among the places where an item is written one is the last.              *)
LEMMA LastOf ==
  ASSUME NEW n \in Nat, NEW T, T \subseteq 1..n, T # {}
  PROVE  \E x \in T : \A y \in T : y <= x
<1> DEFINE R == {ss \in Nat \X Nat : ss[1] < ss[2]}
           W == {n - i : i \in T}
<1>1. IsWellFoundedOn(R, Nat)
  BY NatLessThanWellFounded DEF OpToRel
<1>2. W \subseteq Nat /\ W # {}
  <2>1. \A i \in T : n - i \in Nat
    OBVIOUS
  <2>2. PICK i \in T : TRUE
    OBVIOUS
  <2>3. n - i \in W
    OBVIOUS
  <2> QED
    BY <2>1, <2>3
<1>3. PICK w \in W : \A z \in W : <<z, w>> \notin R
  <2> HIDE DEF R, W
  <2> QED
    BY <1>1, <1>2, WFMin
<1>4. PICK x \in T : w = n - x
  OBVIOUS
<1>5. ASSUME NEW y \in T PROVE y <= x
  <2>1. n - y \in W /\ n - y \in Nat /\ w \in Nat
    BY <1>2
  <2>2. ~(n - y < w)
    BY <1>3, <2>1
  <2> QED
    BY <1>4, <2>1, <2>2
<1> QED
  BY <1>4, <1>5

(* What a clause starts with: the marks agree with the values, and the     *)
(* counter covers the items that are not satisfied.                        *)
LEMMA ParsedFacts ==
  ASSUME TypeOK, NEW ns \in Namespaces, NEW tokens \in Seq(Token),
         \A i \in DOMAIN tokens :
           \/ tokens[i].item \in SystemNames
           \/ tokens[i].item \in LocalNames /\ <<ns, tokens[i].item>> \in Defined
  PROVE  LET lits == ParsedLiterals(ns, tokens)
             pm == ParsedMarks(lits)
             U == {x \in DOMAIN pm : pm[x] < 2}
         IN  /\ DOMAIN pm \subseteq Known /\ IsFiniteSet(DOMAIN pm)
             /\ pm \in [DOMAIN pm -> 0..3]
             /\ \A x \in DOMAIN pm : pm[x] >= 2 <=> symbols[x] # (pm[x] % 2 = 1)
             /\ ParsedWaiting(lits) \in Nat
             /\ ParsedWaiting(lits) >= Cardinality(U)
             /\ (\A i, j \in DOMAIN tokens : tokens[i].item = tokens[j].item => i = j)
                  => ParsedWaiting(lits) = Cardinality(U)
<1> DEFINE lits == ParsedLiterals(ns, tokens)
           pm == ParsedMarks(lits)
           D == DOMAIN tokens
           X == {lits[i].item : i \in D}
           P == {i \in D : lits[i].mark < 2}
           U == {x \in DOMAIN pm : pm[x] < 2}
<1>1. DOMAIN lits = D /\ D = 1..Len(tokens) /\ Len(tokens) \in Nat /\ IsFiniteSet(D)
  BY FS_Interval DEF ParsedLiterals
<1>2. \A i \in D : /\ lits[i].item = Qualify(ns, tokens[i].item)
                   /\ lits[i].mark = Mark(tokens[i].negated, symbols[lits[i].item])
                   /\ tokens[i].negated \in BOOLEAN
  <2> TAKE i \in D
  <2>1. tokens[i] \in Token
    OBVIOUS
  <2>2. tokens[i].negated \in BOOLEAN
    BY <2>1 DEF Token
  <2> DEFINE item == Qualify(ns, tokens[i].item)
             mark == Mark(tokens[i].negated, symbols[item])
  <2>3. lits[i] = [item |-> item, mark |-> mark]
    BY DEF ParsedLiterals
  <2> HIDE DEF lits, item, mark
  <2>4. lits[i].item = item /\ lits[i].mark = mark
    BY <2>3
  <2> QED
    BY <2>2, <2>4 DEF item, mark
<1>3. \A i \in D : lits[i].item \in Known /\ symbols[lits[i].item] \in BOOLEAN
  <2> TAKE i \in D
  <2> HIDE DEF lits
  <2>1. lits[i].item \in Known
    <3>1. CASE tokens[i].item \in SystemNames
      BY <1>2, <3>1 DEF Qualify, Known
    <3>2. CASE tokens[i].item \notin SystemNames
      BY <1>2, <3>2 DEF Qualify, Known
    <3> QED
      BY <3>1, <3>2
  <2>2. lits[i].item \in Names
    BY <2>1, NamesFacts
  <2> QED
    BY <2>1, <2>2 DEF TypeOK
<1>4. \A i \in D : /\ lits[i].mark \in 0..3
                   /\ lits[i].mark >= 2 <=> symbols[lits[i].item] # (lits[i].mark % 2 = 1)
  <2> TAKE i \in D
  <2> DEFINE neg == tokens[i].negated
             val == symbols[lits[i].item]
  <2>1. neg \in BOOLEAN /\ val \in BOOLEAN /\ lits[i].mark = Mark(neg, val)
    BY <1>2, <1>3
  <2> HIDE DEF neg, lits
  <2> QED
    BY <2>1, MarkFacts
<1> HIDE DEF lits
<1>5. DOMAIN pm = X
  BY <1>1 DEF ParsedMarks
<1> DEFINE Last(x, i) == lits[i].item = x /\ \A j \in D : lits[j].item = x => j <= i
           at == [x \in X |-> CHOOSE i \in D : Last(x, i)]
<1>6. \A x \in X : at[x] \in D /\ lits[at[x]].item = x /\ pm[x] = lits[at[x]].mark
  <2> TAKE x \in X
  <2>1. \E i \in D : Last(x, i)
    <3> DEFINE T == {i \in D : lits[i].item = x}
    <3>1. T \subseteq 1..Len(tokens) /\ T # {}
      BY <1>1
    <3>2. \E i \in T : \A j \in T : j <= i
      BY <1>1, <3>1, LastOf
    <3> QED
      BY <3>2
  <2>2. at[x] \in D /\ Last(x, at[x])
    BY <2>1
  <2>3. pm[x] = lits[at[x]].mark
    BY <1>1 DEF ParsedMarks
  <2> QED
    BY <2>2, <2>3
<1> HIDE DEF at, pm, Last
<1>7. DOMAIN pm \subseteq Known
  BY <1>3, <1>5
<1>8. \A x \in DOMAIN pm : pm[x] \in 0..3 /\ (pm[x] >= 2 <=> symbols[x] # (pm[x] % 2 = 1))
  BY <1>4, <1>5, <1>6
<1>9. pm \in [DOMAIN pm -> 0..3]
  BY <1>8 DEF pm, ParsedMarks
<1>10. P \subseteq D /\ IsFiniteSet(P) /\ Cardinality(P) \in Nat /\ ParsedWaiting(lits) = Cardinality(P)
  BY <1>1, FS_Subset, FS_CardinalityType DEF ParsedWaiting
<1>11. IsFiniteSet(DOMAIN pm)
  <2>1. at \in Injection(X, D)
    BY <1>6, Fun_IsInj, ZenonT(40) DEF at
  <2> QED
    BY <1>1, <1>5, <2>1, FS_Injection
<1> DEFINE f == [x \in U |-> at[x]]
<1>12. f \in Injection(U, P)
  <2>1. f \in [U -> P]
    BY <1>5, <1>6
  <2>2. \A x, y \in U : f[x] = f[y] => x = y
    BY <1>5, <1>6
  <2> HIDE DEF f, U, P
  <2> QED
    BY <2>1, <2>2, Fun_IsInj
<1>13. Cardinality(U) <= Cardinality(P)
       /\ (f \in Surjection(U, P) => Cardinality(U) = Cardinality(P))
  <2> HIDE DEF f, U, P
  <2> QED
    BY <1>10, <1>12, FS_Injection
<1>14. ASSUME \A i, j \in D : tokens[i].item = tokens[j].item => i = j
       PROVE  Cardinality(U) = Cardinality(P)
  <2>1. \A i, j \in D : lits[i].item = lits[j].item => i = j
    <3> SUFFICES ASSUME NEW i \in D, NEW j \in D, lits[i].item = lits[j].item
                 PROVE  tokens[i].item = tokens[j].item
      BY <1>14
    <3>1. Qualify(ns, tokens[i].item) = Qualify(ns, tokens[j].item)
      BY <1>2
    <3>2. \A k \in D : tokens[k].item \notin SystemNames =>
                       <<ns, tokens[k].item>> \notin SystemNames
      BY NamesFacts
    <3> QED
      BY <3>1, <3>2 DEF Qualify
  <2>2. \A i \in P : lits[i].item \in U /\ f[lits[i].item] = i
    BY <1>5, <1>6, <2>1
  <2>3. f \in [U -> P]
    BY <1>12, Fun_InjectionProperties
  <2>4. f \in Surjection(U, P)
    <3> HIDE DEF f, U
    <3> QED
      BY <2>2, <2>3, Fun_IsSurj
  <2> QED
    BY <1>13, <2>4
<1>15. IsFiniteSet(U) /\ Cardinality(U) \in Nat
  BY <1>11, FS_Subset, FS_CardinalityType
<1> HIDE DEF U, P
<1> QED
  BY <1>7, <1>8, <1>9, <1>10, <1>11, <1>13, <1>14, <1>15 DEF lits, pm, U

(* A rule that is accepted gets the next id, larger than those of its      *)
(* items, and counters that agree with the current values.                 *)
LEMMA ParseIInv ==
  ASSUME IInv, NEW ns \in Namespaces, NEW line \in RuleLines, Parse(ns, line)
  PROVE  IInv'
<1> USE DEF IInv
<1> DEFINE s == <<ns, line.name>>
           K == DOMAIN line.clauses
           lits == [k \in K |-> ParsedLiterals(ns, line.clauses[k])]
           hold == Cardinality({k \in K : ParsedWaiting(lits[k]) = 0})
           new == {s} \X K
<1>1. /\ phase = "loading"
      /\ Accepts(ns, line)
      /\ symbolsById' = Append(symbolsById, s)
      /\ id' = [id EXCEPT ![s] = Len(symbolsById)]
      /\ symbolClauses' = [symbolClauses EXCEPT ![s] = new]
      /\ holdCount' = [holdCount EXCEPT ![s] = hold]
      /\ symbols' = [symbols EXCEPT ![s] = hold > 0]
      /\ waitingCount' = [c \in Clause |-> IF c \in new THEN ParsedWaiting(lits[c[2]])
                                                        ELSE waitingCount[c]]
      /\ marks' = [c \in Clause |-> IF c \in new THEN ParsedMarks(lits[c[2]]) ELSE marks[c]]
      /\ clauses' = [x \in Names |-> clauses[x] \cup {c \in new : x \in DOMAIN marks'[c]}]
      /\ before' = symbols'
      /\ UNCHANGED <<phase, loopVars, reported>>
  BY DEF Parse
<1>2. line.clauses \in Seq(Seq(Token)) /\ Len(line.clauses) <= MaxClauses
  BY LineAssumption DEF Line
<1>3. K = 1..Len(line.clauses) /\ K \subseteq 1..MaxClauses /\ IsFiniteSet(K)
  <2>1. Len(line.clauses) \in Nat /\ K = 1..Len(line.clauses)
    BY <1>2
  <2>2. MaxClauses \in Nat
    BY LineAssumption
  <2>3. K \subseteq 1..MaxClauses
    BY <1>2, <2>1, <2>2
  <2> QED
    BY <2>1, <2>3, FS_Interval
<1>4. s \in InternalNames /\ s \in Names /\ s \notin Defined /\ s \notin Known /\ s \notin SystemNames
  BY <1>1, NamesFacts DEF Accepts, InternalNames, Names, Known
<1>5. new \subseteq Clause /\ \A c \in new : c[1] = s /\ c[2] \in K /\ c = <<s, c[2]>>
  BY <1>3, <1>4 DEF Clause
<1>6. \A k \in K :
        LET pm == ParsedMarks(lits[k])
            U == {x \in DOMAIN pm : pm[x] < 2}
        IN  /\ DOMAIN pm \subseteq Known /\ IsFiniteSet(DOMAIN pm)
            /\ pm \in [DOMAIN pm -> 0..3]
            /\ \A x \in DOMAIN pm : pm[x] >= 2 <=> symbols[x] # (pm[x] % 2 = 1)
            /\ ParsedWaiting(lits[k]) \in Nat
            /\ ParsedWaiting(lits[k]) >= Cardinality(U)
            /\ NoRepeatedItems => ParsedWaiting(lits[k]) = Cardinality(U)
  <2> TAKE k \in K
  <2>1. line.clauses[k] \in Seq(Token)
    BY <1>2
  <2>2. \A i \in DOMAIN line.clauses[k] :
          \/ line.clauses[k][i].item \in SystemNames
          \/ /\ line.clauses[k][i].item \in LocalNames
             /\ <<ns, line.clauses[k][i].item>> \in Defined
    BY <1>1 DEF Accepts
  <2>3. NoRepeatedItems =>
          \A i, j \in DOMAIN line.clauses[k] :
            line.clauses[k][i].item = line.clauses[k][j].item => i = j
    BY DEF NoRepeatedItems
  <2>4. lits[k] = ParsedLiterals(ns, line.clauses[k])
    OBVIOUS
  <2> DEFINE tokens == line.clauses[k]
             pm == ParsedMarks(ParsedLiterals(ns, tokens))
             U == {x \in DOMAIN pm : pm[x] < 2}
             w == ParsedWaiting(ParsedLiterals(ns, tokens))
  <2> HIDE DEF lits
  <2>5. /\ DOMAIN pm \subseteq Known /\ IsFiniteSet(DOMAIN pm)
        /\ pm \in [DOMAIN pm -> 0..3]
        /\ \A x \in DOMAIN pm : pm[x] >= 2 <=> symbols[x] # (pm[x] % 2 = 1)
        /\ w \in Nat
        /\ w >= Cardinality(U)
        /\ (\A i, j \in DOMAIN tokens : tokens[i].item = tokens[j].item => i = j)
             => w = Cardinality(U)
    <3> HIDE DEF tokens
    <3>1. /\ TypeOK
          /\ tokens \in Seq(Token)
          /\ \A i \in DOMAIN tokens :
               \/ tokens[i].item \in SystemNames
               \/ tokens[i].item \in LocalNames /\ <<ns, tokens[i].item>> \in Defined
      BY <2>1, <2>2 DEF tokens
    <3> QED
      BY <3>1, ParsedFacts
  <2> QED
    BY <2>3, <2>4, <2>5
<1> HIDE DEF lits, new, s, K
<1>7. /\ marks' = [d \in Clause |-> marks'[d]] /\ waitingCount' \in [Clause -> Nat]
      /\ \A c \in new : /\ marks'[c] = ParsedMarks(lits[c[2]])
                        /\ waitingCount'[c] = ParsedWaiting(lits[c[2]])
      /\ \A c \in Clause \ new : /\ marks'[c] = marks[c]
                                 /\ waitingCount'[c] = waitingCount[c]
  BY <1>1, <1>5, <1>6 DEF TypeOK
<1>8. /\ symbolsById' \in Seq(InternalNames)
      /\ DOMAIN symbolsById' = 1..(Len(symbolsById) + 1) /\ Len(symbolsById) \in Nat
      /\ DOMAIN symbolsById = 1..Len(symbolsById)
      /\ \A i \in 1..Len(symbolsById) : symbolsById'[i] = symbolsById[i]
      /\ symbolsById'[Len(symbolsById) + 1] = s
  BY <1>1, <1>4 DEF TypeOK
<1>9. Defined' = Defined \cup {s} /\ Known' = Known \cup {s}
  <2>1. Defined' = Defined \cup {s}
    BY <1>8 DEF Defined
  <2> QED
    BY <2>1 DEF Known
<1>10. /\ id' \in [InternalNames -> Nat] /\ id'[s] = Len(symbolsById)
       /\ \A t \in InternalNames : t # s => id'[t] = id[t]
  BY <1>1, <1>4, <1>8 DEF TypeOK
<1>11. \A n \in Known : /\ Id(n)' = Id(n)
                        /\ Id(n) < id'[s]
  <2> TAKE n \in Known
  <2>1. CASE n \in SystemNames
    BY <1>8, <1>10, <2>1 DEF Id
  <2>2. CASE n \in Defined
    <3>1. PICK i \in DOMAIN symbolsById : symbolsById[i] = n
      BY <2>2 DEF Defined
    <3>2. id[n] = i - 1
      BY <3>1 DEF OrderInv
    <3>3. n \in InternalNames /\ n \notin SystemNames /\ n # s
      BY <1>4, <2>2, NamesFacts
    <3> QED
      BY <1>8, <1>10, <3>1, <3>2, <3>3 DEF Id
  <2> QED
    BY <2>1, <2>2 DEF Known
<1>12. /\ symbolClauses' \in [InternalNames -> SUBSET Clause] /\ symbolClauses'[s] = new
       /\ \A t \in InternalNames : t # s => symbolClauses'[t] = symbolClauses[t]
  BY <1>1, <1>4, <1>5 DEF TypeOK
<1>13. Live' = Live \cup new /\ Live \cap new = {}
       /\ \A c \in Live : c \in Clause /\ c[1] \in Defined /\ c[1] # s
  <2>1. \A c \in Clause : c[1] \in InternalNames
    BY DEF Clause
  <2>2. \A c \in Live : c \in Clause /\ c[1] \in Defined /\ c[1] # s
    BY <1>4, <2>1 DEF Live, OrderInv
  <2>3. symbolClauses[s] = {}
    BY <1>4 DEF OrderInv
  <2>4. \A c \in Clause : c \in Live' <=> c \in Live \/ c \in new
    BY <1>5, <1>12, <2>1, <2>3 DEF Live
  <2>5. Live' \subseteq Clause
    BY DEF Live
  <2> QED
    BY <1>5, <2>2, <2>4, <2>5
<1>14. /\ symbols' \in [Names -> BOOLEAN] /\ symbols'[s] = (hold > 0)
       /\ \A n \in Names : n # s => symbols'[n] = symbols[n]
  BY <1>1, <1>4 DEF TypeOK
<1>15. \A c \in Live : marks'[c] = marks[c]
  BY <1>7, <1>13
<1>16. \A c \in new : DOMAIN marks'[c] \subseteq Known
  BY <1>5, <1>6, <1>7
<1>17. OrderInv'
  <2>1. \A i \in DOMAIN symbolsById' : id'[symbolsById'[i]] = i - 1
    <3> TAKE i \in DOMAIN symbolsById'
    <3>1. CASE i = Len(symbolsById) + 1
      BY <1>8, <1>10, <3>1
    <3>2. CASE i \in 1..Len(symbolsById)
      <4>1. symbolsById[i] \in Defined /\ symbolsById[i] # s
        BY <1>4, <1>8, <3>2 DEF Defined
      <4> QED
        BY <1>8, <1>10, <3>2, <4>1, NamesFacts DEF OrderInv
    <3> QED
      BY <1>8, <3>1, <3>2
  <2>2. \A t \in InternalNames : \A c \in symbolClauses'[t] : c[1] = t /\ t \in Defined'
    BY <1>5, <1>9, <1>12 DEF OrderInv
  <2>3. ASSUME NEW c \in Live', NEW x \in DOMAIN marks'[c]
        PROVE  x \in Known' /\ Id(x)' < id'[c[1]]
    <3>1. CASE c \in Live
      <4>1. x \in Known /\ Id(x) < id[c[1]] /\ c[1] # s /\ c[1] \in InternalNames
        BY <1>13, <1>15, <3>1, NamesFacts DEF OrderInv
      <4> QED
        BY <1>9, <1>10, <1>11, <4>1
    <3>2. CASE c \in new
      BY <1>5, <1>9, <1>11, <1>16, <3>2
    <3> QED
      BY <1>13, <2>3, <3>1, <3>2
  <2>4. \A x \in Names : clauses'[x] = {c \in Live' : x \in DOMAIN marks'[c]}
    <3> TAKE x \in Names
    <3>1. clauses'[x] = clauses[x] \cup {c \in new : x \in DOMAIN marks'[c]}
      BY <1>1
    <3>2. clauses[x] = {c \in Live : x \in DOMAIN marks'[c]}
      BY <1>15 DEF OrderInv
    <3> QED
      BY <1>13, <3>1, <3>2
  <2> QED
    BY <2>1, <2>2, <2>3, <2>4 DEF OrderInv
<1>18. hold \in Nat /\ hold = Cardinality(Holding(s)')
  <2> DEFINE H == {k \in K : ParsedWaiting(lits[k]) = 0}
             b == [k \in H |-> <<s, k>>]
  <2>1. IsFiniteSet(H) /\ Cardinality(H) \in Nat
    BY <1>3, FS_Subset, FS_CardinalityType
  <2>2. Holding(s)' = {c \in new : waitingCount'[c] = 0}
    BY <1>12 DEF Holding
  <2>3. \A k \in K : <<s, k>> \in new
    BY DEF new
  <2>4. b \in [H -> Holding(s)']
    BY <1>5, <1>7, <2>2, <2>3
  <2>5. \A c \in Holding(s)' : c[2] \in H /\ b[c[2]] = c
    BY <1>5, <1>7, <2>2
  <2>6. \A i, j \in H : b[i] = b[j] => i = j
    OBVIOUS
  <2>7. ExistsBijection(H, Holding(s)')
    <3> HIDE DEF H, b
    <3>1. b \in Surjection(H, Holding(s)')
      BY <2>4, <2>5, Fun_IsSurj
    <3>2. b \in Bijection(H, Holding(s)')
      BY <2>4, <2>6, <3>1, Fun_IsBij
    <3> QED
      BY <3>2, Fun_ExistsBij
  <2> HIDE DEF H
  <2> QED
    BY <2>1, <2>7, FS_Bijection DEF H
<1> HIDE DEF hold
<1>19. TypeOK'
  <2>1. holdCount' \in [InternalNames -> Nat]
    BY <1>1, <1>4, <1>18 DEF TypeOK
  <2>2. clauses' \in [Names -> SUBSET Clause]
    BY <1>1, <1>5 DEF TypeOK
  <2>3. \A c \in Clause : /\ DOMAIN marks'[c] \subseteq Names
                          /\ marks'[c] \in [DOMAIN marks'[c] -> 0..3]
    <3> TAKE c \in Clause
    <3>1. CASE c \in new
      BY <1>5, <1>6, <1>7, <3>1, NamesFacts, ZenonT(40)
    <3>2. CASE c \notin new
      BY <1>7, <3>2 DEF TypeOK
    <3> QED
      BY <3>1, <3>2
  <2> QED
    BY <1>1, <1>7, <1>8, <1>10, <1>12, <1>14, <2>1, <2>2, <2>3 DEF TypeOK, loopVars
<1>20. QueueInv'
  BY <1>1, <1>9 DEF QueueInv, loopVars
<1>21. HoldInv'
  <2>1. \A t \in InternalNames : t # s => Holding(t)' = Holding(t)
    <3>1. \A t \in InternalNames : t # s => \A c \in symbolClauses[t] : c \in Clause \ new
      BY <1>5 DEF OrderInv, TypeOK
    <3> QED
      BY <1>7, <1>12, <3>1 DEF Holding
  <2>2. holdCount'[s] = hold /\ \A t \in InternalNames : t # s => holdCount'[t] = holdCount[t]
    BY <1>1, <1>4, <1>18 DEF TypeOK
  <2>3. \A t \in InternalNames : t # s => symbols'[t] = symbols[t]
    BY <1>14 DEF Names
  <2>4. IsFiniteSet(new)
    <3> DEFINE b == [k \in K |-> <<s, k>>]
    <3>1. b \in Surjection(K, new)
      <4>1. b \in [K -> new] /\ \A c \in new : c[2] \in K /\ b[c[2]] = c
        BY <1>5 DEF new
      <4> HIDE DEF b
      <4> QED
        BY <4>1, Fun_IsSurj
    <3> QED
      BY <1>3, <3>1, FS_Surjection
  <2>5. \A t \in InternalNames : IsFiniteSet(symbolClauses'[t])
    BY <1>12, <2>4 DEF HoldInv
  <2>6. \A t \in InternalNames : holdCount'[t] = Cardinality(Holding(t)')
    BY <1>18, <2>1, <2>2 DEF HoldInv
  <2>7. \A t \in InternalNames : symbols'[t] <=> holdCount'[t] > 0
    BY <1>14, <2>2, <2>3 DEF HoldInv
  <2> QED
    BY <2>5, <2>6, <2>7 DEF HoldInv
<1>22. WaitingInv'
  <2> SUFFICES ASSUME NEW c \in Clause
               PROVE  /\ IsFiniteSet(DOMAIN marks'[c])
                      /\ waitingCount'[c] >= Cardinality(Unsatisfied(c)')
                      /\ NoRepeatedItems => waitingCount'[c] = Cardinality(Unsatisfied(c)')
    BY DEF WaitingInv, NoRepeatedItems
  <2>1. CASE c \in new
    BY <1>5, <1>6, <1>7, <2>1 DEF Unsatisfied
  <2>2. CASE c \notin new
    BY <1>7, <2>2 DEF WaitingInv, Unsatisfied
  <2> QED
    BY <2>1, <2>2
<1>23. MarkInv'
  <2> SUFFICES ASSUME NEW c \in Live', NEW x \in DOMAIN marks'[c]
               PROVE  marks'[c][x] >= 2 <=> symbols'[x] # (marks'[c][x] % 2 = 1)
    BY DEF MarkInv
  <2>1. CASE c \in Live
    <3>1. x \in Known /\ marks'[c][x] = marks[c][x] /\ x \in DOMAIN marks[c]
      BY <1>15, <2>1 DEF OrderInv
    <3>2. symbols'[x] = symbols[x]
      BY <1>4, <1>14, <3>1, NamesFacts
    <3>3. ~Pending(c, x)
      BY <1>1, <3>1, NamesFacts DEF Pending, QueueInv
    <3> QED
      BY <2>1, <3>1, <3>2, <3>3 DEF MarkInv
  <2>2. CASE c \in new
    <3>1. x \in Known /\ x # s
      BY <1>4, <1>16, <2>2
    <3>2. symbols'[x] = symbols[x]
      BY <1>14, <3>1, NamesFacts
    <3>3. c[2] \in K /\ marks'[c] = ParsedMarks(lits[c[2]])
      BY <1>5, <1>7, <2>2
    <3>4. \A y \in DOMAIN marks'[c] :
            marks'[c][y] >= 2 <=> symbols[y] # (marks'[c][y] % 2 = 1)
      BY <1>6, <3>3, ZenonT(40)
    <3> QED
      BY <3>2, <3>4
  <2> QED
    BY <1>13, <2>1, <2>2
<1>24. SeenInv' /\ NoChangeLost'
  BY <1>1 DEF SeenInv, NoChangeLost
<1>25. ReportedInOrder'
  BY <1>1 DEF ReportedInOrder, QueueInv, loopVars
<1> QED
  BY <1>17, <1>19, <1>20, <1>21, <1>22, <1>23, <1>24, <1>25

-----------------------------------------------------------------------------
(* The invariant and what follows from it                                  *)

(* Every step keeps IInv.                                                  *)
LEMMA InvarianceStep ==
  ASSUME IInv, [Next]_vars
  PROVE  IInv'
<1>1. ASSUME NEW ns \in Namespaces, NEW line \in RuleLines, Parse(ns, line)
      PROVE  IInv'
  BY <1>1, ParseIInv
<1>2. CASE FinishLoading
  BY <1>2, FinishLoadingIInv
<1>3. ASSUME NEW name \in SystemNames, NEW value \in BOOLEAN, BeginUpdate(name, value)
      PROVE  IInv'
  BY <1>3, BeginUpdateIInv
<1>4. ASSUME NEW n \in Names, PollRepeated(n)
      PROVE  IInv'
  BY <1>4, PollRepeatedIInv
<1>5. ASSUME NEW n \in Names, Poll(n)
      PROVE  IInv'
  BY <1>5, PollIInv
<1>6. ASSUME NEW c \in Clause, Visit(c)
      PROVE  IInv'
  BY <1>6, VisitIInv
<1>7. CASE EndUpdate
  BY <1>7, EndUpdateIInv
<1>8. CASE UNCHANGED vars
  <2> USE DEF IInv
  <2>1. UNCHANGED <<phase, symbols, holdCount, waitingCount, marks, ruleVars, loopVars, seenVars>>
    BY <1>8 DEF vars
  <2>2. OrderInv' /\ WaitingInv' /\ HoldInv' /\ Known' = Known /\ Live' = Live
        /\ \A n : Id(n)' = Id(n)
    BY <2>1, StateKept
  <2>3. TypeOK'
    BY <2>1 DEF TypeOK, ruleVars, loopVars, seenVars
  <2>4. QueueInv'
    BY <2>1, <2>2 DEF QueueInv, ruleVars, loopVars
  <2>5. MarkInv'
    BY <2>1, <2>2 DEF MarkInv, Pending, loopVars
  <2>6. SeenInv' /\ NoChangeLost'
    BY <2>1 DEF SeenInv, NoChangeLost, loopVars, seenVars
  <2>7. ReportedInOrder'
    BY <2>1, <2>2 DEF ReportedInOrder, loopVars
  <2> QED
    BY <2>2, <2>3, <2>4, <2>5, <2>6, <2>7
<1> QED
  BY <1>1, <1>2, <1>3, <1>4, <1>5, <1>6, <1>7, <1>8 DEF Next, UpdateStep

(* IInv holds in every state the engine reaches, whatever the rule files   *)
(* hold.                                                                   *)
THEOREM Invariance == Spec => []IInv
  BY InitIInv, InvarianceStep, PTL DEF Spec

(* Every variable keeps its type: no counter is ever driven below zero,    *)
(* also where a clause writes an item twice.                               *)
THEOREM TypeCorrect == Spec => []TypeOK
<1>1. IInv => TypeOK
  BY DEF IInv
<1> QED
  BY <1>1, Invariance, PTL

(* Within one update names are reported in the order of their ids, each    *)
(* at most once.                                                           *)
THEOREM OrderOfReports == Spec => []ReportedInOrder
<1>1. IInv => ReportedInOrder
  BY DEF IInv
<1> QED
  BY <1>1, Invariance, PTL

(* No change of a symbol is lost on its way to the caller.                 *)
THEOREM ChangesReported == Spec => []NoChangeLost
<1>1. IInv => NoChangeLost
  BY DEF IInv
<1> QED
  BY <1>1, Invariance, PTL

(* Nothing is pending when no update runs, so that the counters have the   *)
(* values of the rules.                                                    *)
LEMMA SettledInv == NoRepeatedItems /\ IInv => Settled
<1> SUFFICES ASSUME NoRepeatedItems, IInv, phase # "updating", NEW s \in Defined
             PROVE  symbols[s] <=> \E c \in symbolClauses[s] : ClauseSatisfied(c)
  BY DEF Settled
<1> USE DEF IInv
<1>1. s \in InternalNames /\ symbolClauses[s] \subseteq Clause
  BY NamesFacts DEF TypeOK
<1>2. ASSUME NEW c \in symbolClauses[s]
      PROVE  waitingCount[c] = 0 <=> ClauseSatisfied(c)
  <2>1. c \in Live /\ c \in Clause
    BY <1>1, <1>2 DEF OrderInv, Live
  <2>2. \A x \in DOMAIN marks[c] :
          /\ marks[c][x] \in 0..3
          /\ marks[c][x] >= 2 <=> symbols[x] # (marks[c][x] % 2 = 1)
    <3> TAKE x \in DOMAIN marks[c]
    <3>1. x \in Names /\ marks[c][x] \in 0..3
      BY <2>1 DEF TypeOK
    <3>2. ~Pending(c, x)
      BY <3>1 DEF Pending, QueueInv
    <3> QED
      BY <2>1, <3>1, <3>2 DEF MarkInv
  <2>3. waitingCount[c] = Cardinality(Unsatisfied(c)) /\ IsFiniteSet(Unsatisfied(c))
    BY <2>1, FS_Subset DEF WaitingInv, Unsatisfied
  <2>4. waitingCount[c] = 0 <=> Unsatisfied(c) = {}
    BY <2>3, FS_EmptySet
  <2>5. ClauseSatisfied(c) <=>
          \A x \in DOMAIN marks[c] : symbols[x] # (marks[c][x] % 2 = 1)
    <3> DEFINE neg(x) == marks[c][x] % 2 = 1
               lit(x) == [item |-> x, negated |-> neg(x)]
    <3>1. \A x : lit(x).item = x /\ lit(x).negated = neg(x)
      OBVIOUS
    <3>2. Literals(c) = {lit(x) : x \in DOMAIN marks[c]}
      BY DEF Literals
    <3> HIDE DEF lit, neg
    <3>3. ClauseSatisfied(c) <=> \A x \in DOMAIN marks[c] : symbols[x] # neg(x)
      BY <3>1, <3>2 DEF ClauseSatisfied
    <3> QED
      BY <3>3 DEF neg
  <2> QED
    BY <2>2, <2>4, <2>5 DEF Unsatisfied
<1>3. IsFiniteSet(Holding(s)) /\ Cardinality(Holding(s)) \in Nat
  BY <1>1, FS_Subset, FS_CardinalityType DEF HoldInv, Holding
<1>4. symbols[s] <=> Holding(s) # {}
  BY <1>1, <1>3, FS_EmptySet DEF HoldInv
<1> QED
  BY <1>2, <1>4 DEF Holding

(* When no clause writes an item twice, every symbol has the value of its  *)
(* rule between two updates.                                               *)
THEOREM PropagationComplete ==
  ASSUME NoRepeatedItems
  PROVE  Spec => []Settled
<1>1. IInv => Settled
  BY SettledInv
<1> QED
  BY <1>1, Invariance, PTL

-----------------------------------------------------------------------------
(* Why a name is reported                                                  *)

(* A step that starts or ends no update and leaves the values alone keeps  *)
(* the causes when it queues and lists no other name.                      *)
LEMMA CauseKept ==
  ASSUME CauseInv, phase' = phase, UNCHANGED <<symbols, marks, ruleVars, before>>,
         \A m \in Names : queue'[m] > 0 \/ m \in Listed' => queue[m] > 0 \/ m \in Listed,
         Listed \subseteq Listed'
  PROVE  CauseInv'
<1>1. \A n \in SystemNames : CausedBy(n) => CausedBy(n)'
  <2> SUFFICES ASSUME NEW n \in SystemNames, CausedBy(n) PROVE CausedBy(n)'
    OBVIOUS
  <2>1. Defined' = Defined /\ symbolClauses' = symbolClauses
    BY RulesKept DEF ruleVars
  <2> QED
    BY <2>1 DEF CausedBy
<1> QED
  BY <1>1 DEF CauseInv

(* updateSystemSymbol starts with the system symbol alone.                 *)
LEMMA BeginUpdateCause ==
  ASSUME IInv, NEW name \in SystemNames, NEW value \in BOOLEAN, BeginUpdate(name, value)
  PROVE  CauseInv'
<1> USE DEF BeginUpdate, IInv
<1>1. name \in Names /\ before = symbols /\ UNCHANGED before
  BY DEF Names, SeenInv, seenVars
<1>2. \A n \in Names : symbols'[n] = IF n = name THEN value ELSE symbols[n]
  BY DEF TypeOK
<1>3. Listed' = {} /\ \A m \in Names : queue'[m] > 0 => m = name
  BY DEF Listed
<1> QED
  BY <1>1, <1>2, <1>3 DEF CauseInv, CausedBy

(* A name that is listed was queued before.                                *)
LEMMA PollCause ==
  ASSUME IInv, CauseInv, NEW n \in Names, Poll(n)
  PROVE  CauseInv'
<1>1. modifySet \in Seq(Names) /\ queue \in [Names -> Nat] /\ queue[n] > 0
  BY DEF IInv, TypeOK, Poll, IsFirst
<1>2. modifySet' = Append(modifySet, n) /\ queue' = [queue EXCEPT ![n] = @ - 1]
  BY DEF Poll, Report, Dequeue
<1>3. Listed' = Listed \cup {n}
  <2>1. /\ DOMAIN modifySet' = DOMAIN modifySet \cup {Len(modifySet) + 1}
        /\ modifySet'[Len(modifySet) + 1] = n
        /\ \A i \in DOMAIN modifySet : modifySet'[i] = modifySet[i]
    BY <1>1, <1>2
  <2> QED
    BY <2>1 DEF Listed
<1>4. \A m \in Names : queue'[m] > 0 => queue[m] > 0
  BY <1>1, <1>2
<1>5. UNCHANGED <<phase, symbols, marks, ruleVars, before>>
  BY DEF Poll, seenVars
<1> QED
  BY <1>1, <1>3, <1>4, <1>5, CauseKept

(* Dropping a repetition changes neither list nor queue but for the name.  *)
LEMMA PollRepeatedCause ==
  ASSUME IInv, CauseInv, NEW n \in Names, PollRepeated(n)
  PROVE  CauseInv'
<1>1. queue \in [Names -> Nat] /\ queue' = [queue EXCEPT ![n] = @ - 1] /\ queue[n] > 0
  BY DEF IInv, TypeOK, PollRepeated, IsFirst, Dequeue
<1>2. \A m \in Names : queue'[m] > 0 => queue[m] > 0
  BY <1>1
<1>3. UNCHANGED <<phase, symbols, marks, ruleVars, before>> /\ Listed' = Listed
  BY DEF PollRepeated, seenVars, Listed
<1> QED
  BY <1>2, <1>3, CauseKept

(* A symbol that flips is defined and mentions the name just listed.       *)
LEMMA VisitCause ==
  ASSUME IInv, CauseInv, NEW c \in Clause, Visit(c)
  PROVE  CauseInv'
<1> DEFINE s == c[1]
<1>1. /\ phase = "updating" /\ c \in todo /\ UNCHANGED <<phase, ruleVars, modifySet, before>>
      /\ marks' = [marks EXCEPT ![c][last] = NotifiedMark(@, v)]
      /\ symbols' = symbols \/ \E b : symbols' = [symbols EXCEPT ![s] = b]
      /\ queue' = queue \/ queue' = [queue EXCEPT ![s] = @ + 1]
  BY DEF Visit, seenVars
<1>2. last # NULL /\ c \in clauses[last] /\ last \in Names /\ last \in Listed
  <2>1. last # NULL /\ modifySet # <<>> /\ modifySet[Len(modifySet)] = last
        /\ todo \subseteq clauses[last] /\ last \in Names /\ modifySet \in Seq(Names)
    BY <1>1 DEF IInv, QueueInv, TypeOK
  <2>2. Len(modifySet) \in DOMAIN modifySet
    BY <2>1
  <2> QED
    BY <1>1, <2>1, <2>2 DEF Listed
<1>3. /\ c \in symbolClauses[s] /\ last \in DOMAIN marks[c]
      /\ s \in InternalNames /\ s \in Defined /\ s \notin SystemNames
  <2>1. c \in Live /\ last \in DOMAIN marks[c] /\ s \in InternalNames
    BY <1>2 DEF IInv, OrderInv, Clause
  <2> QED
    BY <2>1, NamesFacts DEF IInv, OrderInv, Live
<1>4. \A d \in Clause : DOMAIN marks'[d] = DOMAIN marks[d]
  BY <1>1 DEF IInv, TypeOK
<1>5. \A t \in InternalNames : \A d \in symbolClauses[t] : d \in Clause
  BY DEF IInv, TypeOK
<1>6. symbols \in [Names -> BOOLEAN] /\ queue \in [Names -> Nat] /\ Defined \subseteq InternalNames
  BY NamesFacts DEF IInv, TypeOK
<1>7. PICK n \in SystemNames : CausedBy(n)
  BY <1>1 DEF CauseInv
<1> HIDE DEF s
<1>8. \A m \in Names \ {s} : symbols'[m] = symbols[m] /\ queue'[m] = queue[m]
  BY <1>1, <1>6
<1>9. Defined' = Defined /\ symbolClauses' = symbolClauses /\ Listed' = Listed
  BY <1>1, RulesKept DEF ruleVars, Listed
<1>10. n # s /\ n \in Names
  BY <1>3 DEF Names
<1>11. \A m \in Names \ {n} : queue'[m] > 0 \/ m \in Listed =>
         m \in Defined /\ \E d \in symbolClauses[m] : DOMAIN marks'[d] \cap Listed # {}
  <2> SUFFICES ASSUME NEW m \in Names \ {n}, queue'[m] > 0 \/ m \in Listed
               PROVE  m \in Defined /\ \E d \in symbolClauses[m] : DOMAIN marks'[d] \cap Listed # {}
    OBVIOUS
  <2>1. CASE m = s
    <3>1. c \in symbolClauses[m] /\ last \in DOMAIN marks'[c] \cap Listed
      BY <1>2, <1>3, <1>4, <2>1
    <3> QED
      BY <1>3, <2>1, <3>1
  <2>2. CASE m # s
    <3>1. queue[m] > 0 \/ m \in Listed
      BY <1>8, <2>2
    <3>2. m \in Defined /\ \E d \in symbolClauses[m] : DOMAIN marks[d] \cap Listed # {}
      BY <1>7, <3>1 DEF CausedBy
    <3> QED
      BY <1>4, <1>5, <1>6, <3>2
  <2> QED
    BY <2>1, <2>2
<1>12. CausedBy(n)'
  <2>1. symbols'[n] # before'[n]
    BY <1>1, <1>7, <1>8, <1>10 DEF CausedBy
  <2>2. \A m \in Names \ (Defined \cup {n}) : symbols'[m] = before'[m]
    BY <1>1, <1>3, <1>7, <1>8 DEF CausedBy
  <2> QED
    BY <1>9, <1>11, <2>1, <2>2 DEF CausedBy
<1> QED
  BY <1>12 DEF CauseInv

-----------------------------------------------------------------------------
(* The abstract state                                                      *)

(* The literals of a clause are about the items of its map.                *)
LEMMA LiteralItems ==
  ASSUME NEW c
  PROVE  /\ \A l \in Literals(c) : l.item \in DOMAIN marks[c] /\ l.negated \in BOOLEAN
                                  /\ l = [item |-> l.item, negated |-> l.negated]
         /\ \A x \in DOMAIN marks[c] : \E l \in Literals(c) : l.item = x
<1> DEFINE lit(x) == [item |-> x, negated |-> marks[c][x] % 2 = 1]
<1>1. \A x : lit(x).item = x /\ lit(x).negated \in BOOLEAN
             /\ lit(x) = [item |-> lit(x).item, negated |-> lit(x).negated]
  OBVIOUS
<1>2. Literals(c) = {lit(x) : x \in DOMAIN marks[c]}
  BY DEF Literals
<1> HIDE DEF lit
<1> QED
  BY <1>1, <1>2

(* A step of the loop changes no literal, only whether it is satisfied.    *)
LEMMA VisitLiterals ==
  ASSUME IInv, NEW c \in Clause, Visit(c), NEW d \in Clause
  PROVE  Literals(d)' = Literals(d)
<1>1. marks' = [marks EXCEPT ![c][last] = NotifiedMark(@, v)] /\ v \in BOOLEAN
  BY DEF Visit, IInv, TypeOK
<1>2. marks = [e \in Clause |-> marks[e]] /\ marks[d] \in [DOMAIN marks[d] -> 0..3]
  BY DEF IInv, TypeOK
<1>3. DOMAIN marks'[d] = DOMAIN marks[d]
  BY <1>1, <1>2
<1>4. \A x \in DOMAIN marks[d] : marks'[d][x] % 2 = 1 <=> marks[d][x] % 2 = 1
  <2> TAKE x \in DOMAIN marks[d]
  <2>1. marks[d][x] \in 0..3
    BY <1>2
  <2>2. marks'[d][x] = marks[d][x] \/ marks'[d][x] = NotifiedMark(marks[d][x], v)
    BY <1>1, <1>2
  <2> QED
    BY <1>1, <2>1, <2>2, NotifiedMarkFacts
<1>5. \A x \in DOMAIN marks[d] : (marks'[d][x] % 2 = 1) = (marks[d][x] % 2 = 1)
  BY <1>4
<1> QED
  BY <1>3, <1>5 DEF Literals

(* What the caller does not see.                                           *)
LEMMA Unseen ==
  ASSUME TypeOK, UNCHANGED <<ruleVars, before, reported>>,
         \A c \in Clause : Literals(c)' = Literals(c)
  PROVE  UNCHANGED Abstract!vars
<1>1. Defined' = Defined /\ symbolClauses' = symbolClauses
  BY RulesKept DEF ruleVars
<1>2. \A s \in Defined : symbolClauses[s] \subseteq Clause
  BY NamesFacts DEF TypeOK
<1>3. \A s \in Defined : {Literals(c)' : c \in symbolClauses[s]}
                       = {Literals(c) : c \in symbolClauses[s]}
  BY <1>2
<1>4. [s \in Defined |-> {Literals(c) : c \in symbolClauses[s]}]'
        = [s \in Defined |-> {Literals(c) : c \in symbolClauses[s]}]
  BY <1>1, <1>3
<1> QED
  BY <1>4 DEF Abstract!vars

(* A rule holds when the clauses of its symbol are satisfied.              *)
LEMMA RuleHolds ==
  ASSUME NEW s
  PROVE  Abstract!Holds({Literals(c) : c \in symbolClauses[s]}, symbols)
           <=> \E c \in symbolClauses[s] : ClauseSatisfied(c)
  BY DEF Abstract!Holds, Abstract!Satisfied, ClauseSatisfied

-----------------------------------------------------------------------------
(* Steps that the caller sees                                              *)

(* The end of an update is the change of the system symbol that caused it. *)
LEMMA EndUpdateChanges ==
  ASSUME NoRepeatedItems, UpdateInv, EndUpdate
  PROVE  \E n \in SystemNames, b \in BOOLEAN : Abstract!Change(n, b)
<1> DEFINE defs == [s \in Defined |-> {Literals(c) : c \in symbolClauses[s]}]
<1>1. IInv /\ IInv' /\ CauseInv
  BY EndUpdateIInv DEF UpdateInv
<1>2. TypeOK /\ symbols \in [Names -> BOOLEAN]
  BY <1>1 DEF IInv, TypeOK
<1>3. /\ before' = symbols /\ symbols' = symbols /\ reported' = Listed
      /\ UNCHANGED <<marks, ruleVars>> /\ UNCHANGED <<symbolClauses, symbolsById>>
      /\ \A n \in Names : queue[n] = 0
      /\ phase = "updating" /\ phase' = "idle"
  BY DEF EndUpdate, Listed, ruleVars
<1>4. PICK n \in SystemNames : CausedBy(n)
  BY <1>1, <1>3 DEF CauseInv
<1>5. n \in Names /\ symbols[n] \in BOOLEAN
  BY <1>2 DEF Names
<1>6. before[n] # symbols[n] /\ \A m \in Names \ (Defined \cup {n}) : symbols[m] = before[m]
  BY <1>4 DEF CausedBy
<1>7. Defined' = Defined /\ defs' = defs
  BY <1>3 DEF Defined, Literals
<1>8. \A s \in Defined : symbols[s] = Abstract!Holds(defs[s], symbols)
  <2> TAKE s \in Defined
  <2>1. (NoRepeatedItems /\ IInv => Settled)'
    BY SettledInv, PTL
  <2>2. Settled'
    BY <1>1, <2>1 DEF NoRepeatedItems
  <2>3. symbols[s] <=> \E c \in symbolClauses[s] : ClauseSatisfied(c)
    BY <1>3, <1>7, <2>2 DEF Settled, ClauseSatisfied, Literals
  <2>4. Abstract!Holds(defs[s], symbols) \in BOOLEAN /\ symbols[s] \in BOOLEAN
    BY <1>2, NamesFacts DEF Abstract!Holds, Names
  <2> QED
    BY <2>3, <2>4, RuleHolds
<1>9. Listed \subseteq Names
  BY <1>1 DEF IInv, TypeOK, Listed
<1>10. {m \in Names : symbols[m] # before[m]} \subseteq Listed
  BY <1>1, <1>3 DEF IInv, NoChangeLost, Listed
<1>11. \A m \in Listed \ {n} : m \in Defined /\ \E r \in Listed : Abstract!Mentions(defs[m], r)
  <2> TAKE m \in Listed \ {n}
  <2>1. m \in Defined /\ \E c \in symbolClauses[m] : DOMAIN marks[c] \cap Listed # {}
    BY <1>4, <1>9 DEF CausedBy
  <2>2. PICK c \in symbolClauses[m], r \in Listed : r \in DOMAIN marks[c]
    BY <2>1
  <2>3. \E l \in Literals(c) : l.item = r
    BY <2>2, LiteralItems
  <2> QED
    BY <2>1, <2>2, <2>3 DEF Abstract!Mentions
<1> HIDE DEF defs
<1>12. /\ before[n] # symbols[n]
       /\ before' \in [Names -> BOOLEAN] /\ before'[n] = symbols[n]
       /\ \A m \in Names \ (Defined \cup {n}) : before'[m] = before[m]
       /\ \A s \in Defined : before'[s] = Abstract!Holds(defs[s], before')
       /\ reported' \in SUBSET Names
       /\ {m \in Names : before'[m] # before[m]} \subseteq reported'
       /\ \A m \in reported' \ {n} :
            m \in Defined /\ \E r \in reported' : Abstract!Mentions(defs[m], r)
       /\ UNCHANGED defs
  BY <1>2, <1>3, <1>6, <1>7, <1>8, <1>9, <1>10, <1>11
<1>13. Abstract!Change(n, symbols[n])
  BY <1>12 DEF Abstract!Change, Abstract!Consistent, Abstract!Names, Names, defs
<1> QED
  BY <1>5, <1>13

(* The map of a clause that was just parsed has the literals as written,   *)
(* when none is about an item written before.                              *)
LEMMA ParsedLiteralsWritten ==
  ASSUME TypeOK, NEW ns \in Namespaces, NEW tokens \in Seq(Token),
         \A i \in DOMAIN tokens :
           \/ tokens[i].item \in SystemNames
           \/ tokens[i].item \in LocalNames /\ <<ns, tokens[i].item>> \in Defined,
         \A i, j \in DOMAIN tokens : tokens[i].item = tokens[j].item => i = j
  PROVE  LET pm == ParsedMarks(ParsedLiterals(ns, tokens))
         IN  {[item |-> x, negated |-> pm[x] % 2 = 1] : x \in DOMAIN pm}
               = {[item |-> Qualify(ns, t.item), negated |-> t.negated] :
                    t \in {tokens[i] : i \in DOMAIN tokens}}
<1> DEFINE lits == ParsedLiterals(ns, tokens)
           pm == ParsedMarks(lits)
           D == DOMAIN tokens
           lit(x, b) == [item |-> x, negated |-> b]
<1>1. DOMAIN lits = D
  BY DEF ParsedLiterals
<1>2. \A i \in D : /\ lits[i].item = Qualify(ns, tokens[i].item)
                   /\ lits[i].mark = Mark(tokens[i].negated, symbols[lits[i].item])
                   /\ tokens[i].negated \in BOOLEAN
  <2> TAKE i \in D
  <2>1. tokens[i] \in Token
    OBVIOUS
  <2>2. tokens[i].negated \in BOOLEAN
    BY <2>1 DEF Token
  <2> DEFINE item == Qualify(ns, tokens[i].item)
             mark == Mark(tokens[i].negated, symbols[item])
  <2>3. lits[i] = [item |-> item, mark |-> mark]
    BY DEF ParsedLiterals
  <2> HIDE DEF lits, item, mark
  <2>4. lits[i].item = item /\ lits[i].mark = mark
    BY <2>3
  <2> QED
    BY <2>2, <2>4 DEF item, mark
<1>3. \A i \in D : symbols[lits[i].item] \in BOOLEAN
  <2> TAKE i \in D
  <2> HIDE DEF lits
  <2>1. lits[i].item \in Known
    BY <1>2 DEF Qualify, Known
  <2> QED
    BY <2>1, NamesFacts DEF TypeOK
<1>4. \A i \in D : lits[i].mark % 2 = 1 <=> tokens[i].negated
  <2> TAKE i \in D
  <2> DEFINE neg == tokens[i].negated
             val == symbols[lits[i].item]
  <2>1. neg \in BOOLEAN /\ val \in BOOLEAN /\ lits[i].mark = Mark(neg, val)
    BY <1>2, <1>3
  <2> HIDE DEF neg, lits, val
  <2> QED
    BY <2>1, MarkFacts DEF neg
<1> HIDE DEF lits
<1>5. \A i, j \in D : lits[i].item = lits[j].item => i = j
  <2> SUFFICES ASSUME NEW i \in D, NEW j \in D, lits[i].item = lits[j].item
               PROVE  tokens[i].item = tokens[j].item
    OBVIOUS
  <2>1. Qualify(ns, tokens[i].item) = Qualify(ns, tokens[j].item)
    BY <1>2
  <2>2. \A k \in D : tokens[k].item \notin SystemNames => <<ns, tokens[k].item>> \notin SystemNames
    BY NamesFacts
  <2> QED
    BY <2>1, <2>2 DEF Qualify
<1>6. DOMAIN pm = {lits[i].item : i \in D}
  BY <1>1 DEF ParsedMarks
<1>7. \A i \in D : pm[lits[i].item] = lits[i].mark
  <2> TAKE i \in D
  <2> DEFINE Last(j) == lits[j].item = lits[i].item
                        /\ \A k \in D : lits[k].item = lits[i].item => k <= j
  <2>1. i \in Int
    OBVIOUS
  <2>2. Last(i) /\ \A j \in D : Last(j) => j = i
    BY <1>5, <2>1
  <2>3. (CHOOSE j \in D : Last(j)) = i
    BY <2>2
  <2>4. pm[lits[i].item] = lits[CHOOSE j \in D : Last(j)].mark
    BY <1>1 DEF ParsedMarks
  <2> QED
    BY <2>3, <2>4
<1> HIDE DEF pm
<1>8. \A i \in D : (pm[lits[i].item] % 2 = 1) = tokens[i].negated
  BY <1>2, <1>4, <1>7
<1>9. {lit(x, pm[x] % 2 = 1) : x \in DOMAIN pm}
        = {lit(Qualify(ns, t.item), t.negated) : t \in {tokens[i] : i \in D}}
  <2> HIDE DEF lit
  <2>1. \A i \in D : lit(lits[i].item, pm[lits[i].item] % 2 = 1)
                     = lit(Qualify(ns, tokens[i].item), tokens[i].negated)
    BY <1>2, <1>8
  <2> QED
    BY <1>6, <2>1
<1> QED
  BY <1>9 DEF pm, lits

(* What a parsed line leaves of the clauses, old and new.                  *)
LEMMA ParseClauses ==
  ASSUME NoRepeatedItems, IInv, NEW ns \in Namespaces, NEW line \in RuleLines, Parse(ns, line)
  PROVE  LET s == <<ns, line.name>>
             W == [k \in DOMAIN line.clauses |->
                     {[item |-> Qualify(ns, t.item), negated |-> t.negated] :
                        t \in {line.clauses[k][i] : i \in DOMAIN line.clauses[k]}}]
         IN  /\ s \in InternalNames \ Defined /\ Defined' = Defined \cup {s}
             /\ symbolClauses' = [symbolClauses EXCEPT ![s] = {s} \X DOMAIN line.clauses]
             /\ \A k \in DOMAIN line.clauses : Literals(<<s, k>>)' = W[k]
             /\ \A t \in Defined : \A c \in symbolClauses[t] : Literals(c)' = Literals(c)
<1> DEFINE s == <<ns, line.name>>
           K == DOMAIN line.clauses
           new == {s} \X K
           lits == [k \in K |-> ParsedLiterals(ns, line.clauses[k])]
<1>1. /\ Accepts(ns, line)
      /\ symbolsById' = Append(symbolsById, s)
      /\ symbolClauses' = [symbolClauses EXCEPT ![s] = new]
      /\ marks' = [c \in Clause |-> IF c \in new THEN ParsedMarks(lits[c[2]]) ELSE marks[c]]
  BY DEF Parse
<1>2. TypeOK /\ OrderInv /\ line.clauses \in Seq(Seq(Token)) /\ Len(line.clauses) <= MaxClauses
  BY LineAssumption DEF Line, IInv
<1>3. s \in InternalNames /\ s \notin Defined
  BY <1>1 DEF Accepts, InternalNames
<1>4. Defined' = Defined \cup {s}
  <2>1. symbolsById \in Seq(InternalNames)
    BY <1>2 DEF TypeOK
  <2>2. /\ DOMAIN symbolsById' = DOMAIN symbolsById \cup {Len(symbolsById) + 1}
        /\ symbolsById'[Len(symbolsById) + 1] = s
        /\ \A i \in DOMAIN symbolsById : symbolsById'[i] = symbolsById[i]
    BY <1>1, <1>3, <2>1
  <2> QED
    BY <2>2 DEF Defined
<1>5. ASSUME NEW k \in K
      PROVE  /\ <<s, k>> \in Clause
             /\ Literals(<<s, k>>)'
                  = {[item |-> Qualify(ns, t.item), negated |-> t.negated] :
                       t \in {line.clauses[k][i] : i \in DOMAIN line.clauses[k]}}
  <2> DEFINE tokens == line.clauses[k]
             pm == ParsedMarks(ParsedLiterals(ns, tokens))
  <2>1. <<s, k>> \in Clause
    <3>1. k \in 1..MaxClauses
      BY <1>2, LineAssumption
    <3> QED
      BY <1>3, <3>1 DEF Clause
  <2>2. marks'[<<s, k>>] = pm
    <3>1. <<s, k>> \in new /\ <<s, k>>[2] = k
      OBVIOUS
    <3> HIDE DEF new, s
    <3> QED
      BY <1>1, <2>1, <3>1
  <2>3. /\ tokens \in Seq(Token)
        /\ \A i \in DOMAIN tokens :
             \/ tokens[i].item \in SystemNames
             \/ tokens[i].item \in LocalNames /\ <<ns, tokens[i].item>> \in Defined
        /\ \A i, j \in DOMAIN tokens : tokens[i].item = tokens[j].item => i = j
    <3>1. tokens \in Seq(Token)
      BY <1>2
    <3>2. \A i \in DOMAIN tokens :
            \/ tokens[i].item \in SystemNames
            \/ tokens[i].item \in LocalNames /\ <<ns, tokens[i].item>> \in Defined
      BY <1>1 DEF Accepts
    <3>3. \A i, j \in DOMAIN tokens : tokens[i].item = tokens[j].item => i = j
      BY DEF NoRepeatedItems
    <3> QED
      BY <3>1, <3>2, <3>3
  <2> HIDE DEF tokens
  <2>4. {[item |-> x, negated |-> pm[x] % 2 = 1] : x \in DOMAIN pm}
          = {[item |-> Qualify(ns, t.item), negated |-> t.negated] :
               t \in {tokens[i] : i \in DOMAIN tokens}}
    BY <1>2, <2>3, ParsedLiteralsWritten
  <2>5. Literals(<<s, k>>)' = {[item |-> x, negated |-> pm[x] % 2 = 1] : x \in DOMAIN pm}
    BY <2>2 DEF Literals
  <2> QED
    BY <2>1, <2>4, <2>5 DEF tokens
<1>6. ASSUME NEW t \in Defined, NEW c \in symbolClauses[t]
      PROVE  Literals(c)' = Literals(c)
  <2>1. t \in InternalNames /\ t # s
    BY <1>2, <1>3, NamesFacts
  <2>2. c \in Clause /\ c[1] = t
    BY <1>2, <2>1 DEF OrderInv, TypeOK
  <2>3. c \notin new
    BY <2>1, <2>2
  <2>4. marks'[c] = marks[c]
    BY <1>1, <2>2, <2>3
  <2> QED
    BY <2>4 DEF Literals
<1> QED
  BY <1>1, <1>3, <1>4, <1>5, <1>6

(* A parsed line is a definition, with the value its rule has.             *)
LEMMA ParseDefines ==
  ASSUME NoRepeatedItems, IInv, NEW ns \in Namespaces, NEW line \in RuleLines, Parse(ns, line)
  PROVE  Abstract!Define(<<ns, line.name>>, Written(ns, line))
<1> DEFINE s == <<ns, line.name>>
           K == DOMAIN line.clauses
           W == [k \in K |-> {[item |-> Qualify(ns, t.item), negated |-> t.negated] :
                                t \in {line.clauses[k][i] : i \in DOMAIN line.clauses[k]}}]
           rule == Written(ns, line)
           defs == [x \in Defined |-> {Literals(c) : c \in symbolClauses[x]}]
<1>1. /\ s \in InternalNames /\ s \notin Defined /\ Defined' = Defined \cup {s}
      /\ symbolClauses' = [symbolClauses EXCEPT ![s] = {s} \X K]
      /\ \A k \in K : Literals(<<s, k>>)' = W[k]
      /\ \A t \in Defined : \A c \in symbolClauses[t] : Literals(c)' = Literals(c)
  BY ParseClauses
<1>2. rule = {W[k] : k \in K}
  BY DEF Written
<1>3. TypeOK /\ Defined \subseteq InternalNames /\ Known \subseteq Names /\ s \notin Known
  BY <1>1, NameAssumption, NamesFacts DEF IInv, Known
<1>4. ASSUME NEW clause \in rule, NEW l \in clause
      PROVE  l \in Abstract!Literal /\ l.item \in Known
  <2>1. PICK k \in K : clause = W[k]
    BY <1>2
  <2>2. PICK i \in DOMAIN line.clauses[k] :
          l = [item |-> Qualify(ns, line.clauses[k][i].item), negated |-> line.clauses[k][i].negated]
    BY <2>1
  <2> DEFINE t == line.clauses[k][i]
  <2>3. t \in Token
    BY LineAssumption DEF Line
  <2>4. t.item \in SystemNames \/ (t.item \in LocalNames /\ <<ns, t.item>> \in Defined)
    BY DEF Parse, Accepts
  <2> HIDE DEF t
  <2>5. l.item = Qualify(ns, t.item) /\ t.negated \in BOOLEAN
    BY <2>2, <2>3 DEF t, Token
  <2>6. Qualify(ns, t.item) \in Known
    BY <2>4 DEF Qualify, Known
  <2> QED
    BY <1>3, <2>2, <2>5, <2>6 DEF t, Abstract!Literal, Abstract!Names, Names
<1>5. {Literals(c)' : c \in symbolClauses'[s]} = rule
  <2>1. symbolClauses'[s] = {s} \X K
    BY <1>1, <1>3 DEF TypeOK
  <2>2. {Literals(c)' : c \in {s} \X K} = {W[k] : k \in K}
    <3>1. \A c \in {s} \X K : c[2] \in K /\ c = <<s, c[2]>>
      OBVIOUS
    <3>2. \A k \in K : <<s, k>> \in {s} \X K
      OBVIOUS
    <3>3. \A c \in {s} \X K : Literals(c)' = W[c[2]]
      <4> TAKE c \in {s} \X K
      <4>1. c[2] \in K /\ c = <<s, c[2]>>
        OBVIOUS
      <4>2. PICK k \in K : k = c[2] /\ c = <<s, k>>
        BY <4>1
      <4> HIDE DEF W, s, K
      <4> QED
        BY <1>1, <4>2
    <3>4. \A k \in K : <<s, k>>[2] = k
      OBVIOUS
    <3> DEFINE L(c) == Literals(c)'
    <3>5. \A c \in {s} \X K : L(c) = W[c[2]]
      BY <3>3
    <3> HIDE DEF W, s, K, L
    <3>6. \A c \in {s} \X K : \E k \in K : L(c) = W[k]
      BY <3>1, <3>5
    <3>7. \A k \in K : \E c \in {s} \X K : W[k] = L(c)
      <4> TAKE k \in K
      <4>1. L(<<s, k>>) = W[<<s, k>>[2]]
        BY <3>2, <3>5
      <4> QED
        BY <3>2, <3>4, <4>1
    <3> DEFINE new == {s} \X K
    <3>8. {L(c) : c \in new} = {W[k] : k \in K}
      <4>1. \A z \in {L(c) : c \in new} : z \in {W[k] : k \in K}
        BY <3>6
      <4>2. \A z \in {W[k] : k \in K} : z \in {L(c) : c \in new}
        <5> TAKE z \in {W[k] : k \in K}
        <5>1. PICK k \in K : z = W[k]
          OBVIOUS
        <5> QED
          BY <3>7, <5>1
      <4> QED
        BY <4>1, <4>2
    <3> QED
      BY <3>8 DEF L
  <2> QED
    BY <1>2, <2>1, <2>2
<1>6. defs' = [x \in Defined \cup {s} |-> IF x = s THEN rule ELSE defs[x]]
  <2>1. ASSUME NEW x \in Defined
        PROVE  {Literals(c)' : c \in symbolClauses'[x]} = {Literals(c) : c \in symbolClauses[x]}
    <3>1. symbolClauses'[x] = symbolClauses[x]
      BY <1>1, <1>3 DEF TypeOK
    <3> QED
      BY <1>1, <3>1
  <2>2. \A x \in Defined \cup {s} :
          {Literals(c)' : c \in symbolClauses'[x]} = IF x = s THEN rule ELSE defs[x]
    BY <1>1, <1>5, <2>1
  <2>3. defs' = [x \in Defined \cup {s} |-> {Literals(c)' : c \in symbolClauses'[x]}]
    BY <1>1
  <2> HIDE DEF rule, s, defs
  <2> QED
    BY <2>2, <2>3
<1>7. /\ before' = symbols' /\ before = symbols /\ UNCHANGED reported /\ phase' # "updating"
      /\ \E b : symbols' = [symbols EXCEPT ![s] = b]
  BY DEF Parse, IInv, SeenInv
<1>8. symbols \in [Names -> BOOLEAN] /\ symbols' \in [Names -> BOOLEAN] /\ s \in Names
  BY <1>1, <1>3, ParseIInv DEF IInv, TypeOK, Names
<1>9. \A n \in Known : symbols'[n] = symbols[n]
  BY <1>3, <1>7, <1>8
<1>10. symbols'[s] <=> Abstract!Holds(rule, symbols)
  <2>1. (NoRepeatedItems /\ IInv => Settled)'
    BY SettledInv, PTL
  <2>2. Settled'
    BY <2>1, ParseIInv DEF NoRepeatedItems
  <2>3. symbols'[s] <=> \E c \in symbolClauses'[s] : ClauseSatisfied(c)'
    BY <1>1, <1>7, <2>2 DEF Settled
  <2>4. symbols'[s] <=> \E clause \in rule : \A l \in clause : symbols'[l.item] # l.negated
    BY <1>5, <2>3 DEF ClauseSatisfied
  <2>5. symbols'[s] <=> \E clause \in rule : \A l \in clause : symbols[l.item] # l.negated
    BY <1>4, <1>9, <2>4
  <2> HIDE DEF s, rule
  <2> QED
    BY <2>5 DEF Abstract!Holds, Abstract!Satisfied
<1>11. before' = [before EXCEPT ![s] = Abstract!Holds(rule, before)]
  <2>1. PICK b : symbols' = [symbols EXCEPT ![s] = b]
    BY <1>7
  <2>2. Abstract!Holds(rule, symbols) \in BOOLEAN
    BY DEF Abstract!Holds
  <2>3. b = Abstract!Holds(rule, symbols)
    BY <1>8, <1>10, <2>1, <2>2
  <2> QED
    BY <1>7, <2>1, <2>3
<1> DEFINE abs == Abstract!Define(s, rule)
<1>12. DOMAIN defs = Defined
  OBVIOUS
<1> HIDE DEF defs, rule, s
<1> QED
  BY <1>1, <1>4, <1>6, <1>7, <1>11, <1>12 DEF Abstract!Define, Known, defs, rule, s

-----------------------------------------------------------------------------
(* The theorems                                                            *)

(* Every step keeps the causes of what an update lists.                    *)
LEMMA CauseStep ==
  ASSUME UpdateInv, [Next]_vars
  PROVE  UpdateInv'
<1>1. IInv /\ CauseInv
  BY DEF UpdateInv
<1>2. IInv'
  BY <1>1, InvarianceStep
<1>3. CauseInv'
  <2>1. ASSUME NEW ns \in Namespaces, NEW line \in RuleLines, Parse(ns, line) PROVE CauseInv'
    BY <2>1 DEF Parse, CauseInv
  <2>2. CASE FinishLoading
    BY <2>2 DEF FinishLoading, CauseInv
  <2>3. ASSUME NEW name \in SystemNames, NEW value \in BOOLEAN, BeginUpdate(name, value)
        PROVE  CauseInv'
    BY <1>1, <2>3, BeginUpdateCause
  <2>4. ASSUME NEW n \in Names, PollRepeated(n) PROVE CauseInv'
    BY <1>1, <2>4, PollRepeatedCause
  <2>5. ASSUME NEW n \in Names, Poll(n) PROVE CauseInv'
    BY <1>1, <2>5, PollCause
  <2>6. ASSUME NEW c \in Clause, Visit(c) PROVE CauseInv'
    BY <1>1, <2>6, VisitCause
  <2>7. CASE EndUpdate
    BY <2>7 DEF EndUpdate, CauseInv
  <2>8. CASE UNCHANGED vars
    <3>1. UNCHANGED <<phase, symbols, marks, ruleVars, before, queue>> /\ Listed' = Listed
      BY <2>8 DEF vars, loopVars, seenVars, Listed
    <3> QED
      BY <1>1, <3>1, CauseKept
  <2> QED
    BY <2>1, <2>2, <2>3, <2>4, <2>5, <2>6, <2>7, <2>8 DEF Next, UpdateStep
<1> QED
  BY <1>2, <1>3 DEF UpdateInv

(* In every state the engine reaches, one system symbol has caused all     *)
(* that an update has queued and listed.                                   *)
THEOREM UpdatesHaveCauses == Spec => []UpdateInv
<1>1. Init => UpdateInv
  BY InitIInv DEF UpdateInv, CauseInv, Init
<1> QED
  BY <1>1, CauseStep, PTL DEF Spec

(* The engine starts with no symbol defined.                               *)
LEMMA InitImplements == Init => Abstract!Init
<1> SUFFICES ASSUME Init PROVE Abstract!Init
  OBVIOUS
<1>1. Defined = {}
  BY DEF Init, Defined
<1>2. [s \in Defined |-> {Literals(c) : c \in symbolClauses[s]}] = [s \in {} |-> {}]
  BY <1>1
<1>3. before = [n \in Abstract!Names |-> FALSE] /\ reported = {}
  BY DEF Init, Names, Abstract!Names
<1> QED
  BY <1>2, <1>3 DEF Abstract!Init

(* A step is a definition, a change, or nothing to the caller.             *)
LEMMA StepImplements ==
  ASSUME NoRepeatedItems, UpdateInv, [Next]_vars
  PROVE  [Abstract!Next]_(Abstract!vars)
<1>1. IInv /\ TypeOK
  BY DEF UpdateInv, IInv
<1>2. ASSUME NEW ns \in Namespaces, NEW line \in RuleLines, Parse(ns, line)
      PROVE  Abstract!Next
  <2>1. Abstract!Define(<<ns, line.name>>, Written(ns, line))
    BY <1>1, <1>2, ParseDefines
  <2>2. <<ns, line.name>> \in InternalNames
    BY <1>2 DEF Parse, Accepts, InternalNames
  <2> QED
    BY <2>1, <2>2 DEF Abstract!Next
<1>3. CASE EndUpdate
  BY <1>3, EndUpdateChanges DEF Abstract!Next
<1>4. ASSUME UNCHANGED <<marks, ruleVars, before, reported>>
      PROVE  UNCHANGED Abstract!vars
  BY <1>1, <1>4, Unseen DEF Literals
<1>5. CASE FinishLoading
  BY <1>4, <1>5 DEF FinishLoading, seenVars
<1>6. ASSUME NEW name \in SystemNames, NEW value \in BOOLEAN, BeginUpdate(name, value)
      PROVE  UNCHANGED Abstract!vars
  BY <1>4, <1>6 DEF BeginUpdate, seenVars
<1>7. ASSUME NEW n \in Names, PollRepeated(n) \/ Poll(n)
      PROVE  UNCHANGED Abstract!vars
  BY <1>4, <1>7 DEF PollRepeated, Poll, seenVars
<1>8. ASSUME NEW c \in Clause, Visit(c)
      PROVE  UNCHANGED Abstract!vars
  <2>1. UNCHANGED <<ruleVars, before, reported>>
    BY <1>8 DEF Visit, seenVars
  <2>2. \A d \in Clause : Literals(d)' = Literals(d)
    BY <1>1, <1>8, VisitLiterals
  <2> QED
    BY <1>1, <2>1, <2>2, Unseen
<1>9. CASE UNCHANGED vars
  BY <1>4, <1>9 DEF vars, seenVars
<1> QED
  BY <1>2, <1>3, <1>5, <1>6, <1>7, <1>8, <1>9 DEF Next, UpdateStep

(* When no clause writes an item twice, the engine with its counters and   *)
(* its queue implements SymbolRules: every update is one atomic change     *)
(* after which each symbol has the value of its rule, and its list names   *)
(* every symbol that changed and none that nothing listed influences.      *)
THEOREM EngineImplements ==
  ASSUME NoRepeatedItems
  PROVE  Spec => ImplementsSymbolRules
<1>1. UpdateInv /\ [Next]_vars => [Abstract!Next]_(Abstract!vars)
  BY StepImplements
<1> QED
  BY <1>1, InitImplements, UpdatesHaveCauses, PTL DEF Spec, ImplementsSymbolRules, Abstract!Spec

-----------------------------------------------------------------------------
(* Computing from scratch                                                  *)

(* When no mark lags, setting the marks of a clause anew changes nothing.  *)
LEMMA ResetMarksKept ==
  ASSUME IInv, phase # "updating", NEW c \in Live
  PROVE  ResetClause(symbols, marks[c]) = marks[c]
<1>1. c \in Clause /\ marks[c] \in [DOMAIN marks[c] -> 0..3] /\ DOMAIN marks[c] \subseteq Names
  BY DEF IInv, TypeOK, Live
<1>2. ASSUME NEW x \in DOMAIN marks[c]
      PROVE  Mark(marks[c][x] % 2 = 1, symbols[x]) = marks[c][x]
  <2>1. marks[c][x] \in 0..3 /\ symbols[x] \in BOOLEAN
    BY <1>1 DEF IInv, TypeOK
  <2>2. ~Pending(c, x)
    BY <1>1 DEF IInv, QueueInv, Pending
  <2>3. marks[c][x] >= 2 <=> symbols[x] # (marks[c][x] % 2 = 1)
    BY <2>2 DEF IInv, MarkInv
  <2> QED
    BY <2>1, <2>3 DEF Mark
<1> QED
  BY <1>1, <1>2 DEF ResetClause

(* Nor does counting its items anew, when none is written twice.           *)
LEMMA ResetWaitingKept ==
  ASSUME NoRepeatedItems, IInv, NEW c \in Clause
  PROVE  ResetWaiting(marks[c]) = waitingCount[c]
<1> DEFINE D == DOMAIN marks[c]
           S == {x \in D : marks[c][x] >= 2}
           U == Unsatisfied(c)
<1>1. IsFiniteSet(D) /\ waitingCount[c] = Cardinality(U) /\ marks[c] \in [D -> 0..3]
  BY DEF IInv, TypeOK, WaitingInv
<1>2. U = D \ S /\ S \subseteq D
  BY <1>1 DEF Unsatisfied
<1>3. IsFiniteSet(S)
  BY <1>1, <1>2, FS_Subset
<1> HIDE DEF D, S, U
<1>4. Cardinality(U) = Cardinality(D) - Cardinality(D \cap S)
  BY <1>1, <1>2, FS_Difference
<1>5. D \cap S = S
  BY <1>2
<1> QED
  BY <1>1, <1>4, <1>5 DEF ResetWaiting, D, S

(* So one round of the loop finds everything as it is.                     *)
LEMMA ResetSymbolKept ==
  ASSUME NoRepeatedItems, IInv, phase # "updating", NEW s \in Defined
  PROVE  ResetSymbol(Current, s) = Current
<1> DEFINE S == symbolClauses[s]
           marked == [c \in Clause |-> IF c \in S THEN ResetMarks(Current, c) ELSE marks[c]]
           waiting == [c \in Clause |-> IF c \in S THEN ResetWaiting(marked[c]) ELSE waitingCount[c]]
           hold == Cardinality({c \in S : waiting[c] = 0})
<1>1. TypeOK /\ s \in InternalNames /\ s \in Names
  BY NamesFacts DEF IInv, Names
<1>2. S \subseteq Clause /\ S \subseteq Live
  BY <1>1 DEF IInv, TypeOK, OrderInv, Live
<1>3. /\ Current.symbols = symbols /\ Current.holdCount = holdCount
      /\ Current.waitingCount = waitingCount /\ Current.marks = marks
  BY DEF Current
<1>4. marked = marks
  <2>1. \A c \in S : ResetMarks(Current, c) = marks[c]
    BY <1>2, <1>3, ResetMarksKept DEF ResetMarks
  <2>2. marks = [c \in Clause |-> marks[c]]
    BY <1>1 DEF TypeOK
  <2> HIDE DEF S
  <2> QED
    BY <1>1, <2>1, <2>2 DEF TypeOK
<1> HIDE DEF marked
<1>5. waiting = waitingCount
  <2>1. \A c \in Clause : ResetWaiting(marks[c]) = waitingCount[c]
    BY ResetWaitingKept
  <2> HIDE DEF S
  <2> QED
    BY <1>1, <1>4, <2>1 DEF TypeOK
<1> HIDE DEF waiting
<1>6. hold = holdCount[s] /\ (hold > 0) = symbols[s]
  <2>1. hold = Cardinality(Holding(s))
    BY <1>5 DEF Holding
  <2>2. holdCount[s] = Cardinality(Holding(s)) /\ (symbols[s] <=> holdCount[s] > 0)
    BY <1>1 DEF IInv, HoldInv
  <2>3. symbols[s] \in BOOLEAN /\ holdCount[s] \in Nat
    BY <1>1 DEF TypeOK
  <2>4. (hold > 0) \in BOOLEAN
    BY <2>1, <2>2, <2>3
  <2> HIDE DEF hold
  <2> QED
    BY <2>1, <2>2, <2>3, <2>4
<1> HIDE DEF hold
<1>7. [symbols EXCEPT ![s] = hold > 0] = symbols /\ [holdCount EXCEPT ![s] = hold] = holdCount
  BY <1>1, <1>6 DEF TypeOK
<1>8. ResetSymbol(Current, s)
        = [symbols |-> [symbols EXCEPT ![s] = hold > 0],
           holdCount |-> [holdCount EXCEPT ![s] = hold],
           waitingCount |-> waiting, marks |-> marked]
  BY <1>3 DEF ResetSymbol, hold, waiting, marked
<1> QED
  BY <1>4, <1>5, <1>7, <1>8 DEF Current

(* The whole loop, for any number of symbols: the first round that changed *)
(* something would be a round on the unchanged state.                      *)
LEMMA ResetKept ==
  ASSUME NoRepeatedItems, IInv, phase # "updating"
  PROVE  ResetSymbolValues = Current
<1> DEFINE n == Len(symbolsById)
           body(f) == [k \in 0..n |-> IF k = 0 THEN Current ELSE ResetSymbol(f[k - 1], symbolsById[k])]
           same == [k \in 0..n |-> Current]
           reset == CHOOSE f : f = body(f)
           R == {ss \in Nat \X Nat : ss[1] < ss[2]}
           T == {k \in 0..n : reset[k] # Current}
<1>1. n \in Nat /\ \A k \in 1..n : symbolsById[k] \in Defined
  BY DEF IInv, TypeOK, Defined
<1>2. \A k \in 1..n : ResetSymbol(Current, symbolsById[k]) = Current
  BY <1>1, ResetSymbolKept
<1>3. same = body(same)
  BY <1>1, <1>2
<1>4. reset = body(reset)
  BY <1>3
<1>5. ResetSymbolValues = reset[n]
  BY DEF ResetSymbolValues
<1> HIDE DEF reset, n
<1>6. SUFFICES ASSUME T # {} PROVE FALSE
  BY <1>1, <1>5
<1>7. PICK k \in T : \A j \in T : <<j, k>> \notin R
  <2>1. IsWellFoundedOn(R, Nat) /\ T \subseteq Nat
    BY <1>1, NatLessThanWellFounded DEF OpToRel
  <2> HIDE DEF R, T
  <2> QED
    BY <1>6, <2>1, WFMin
<1>8. k \in 1..n /\ reset[k] = ResetSymbol(reset[k - 1], symbolsById[k])
  BY <1>1, <1>4
<1>9. reset[k - 1] = Current
  <2>1. k \in Nat /\ k - 1 \in Nat /\ k - 1 \in 0..n /\ k - 1 < k
    BY <1>1, <1>8
  <2>2. k - 1 \notin T
    BY <1>7, <2>1
  <2> QED
    BY <2>1, <2>2
<1> QED
  BY <1>2, <1>7, <1>8, <1>9

(* Between two updates resetSymbolValues would change nothing, for every   *)
(* set of rules in which no clause writes an item twice.                   *)
THEOREM ResetAgrees ==
  ASSUME NoRepeatedItems
  PROVE  Spec => []ResetChangesNothing
<1>1. IInv => ResetChangesNothing
  BY ResetKept DEF ResetChangesNothing
<1> QED
  BY <1>1, Invariance, PTL

=============================================================================
