-------------------------- MODULE EngineInvariant --------------------------
(***************************************************************************)
(* The inductive invariant of ContextInferenceEngine, in parts: the order  *)
(* of definition, the queue, the counters and the marks.                   *)
(***************************************************************************)
EXTENDS ContextInferenceEngine

(* No clause of a line writes an item twice.                               *)
NoRepeatedItems ==
  \A line \in RuleLines : \A k \in DOMAIN line.clauses :
    \A i, j \in DOMAIN line.clauses[k] :
      line.clauses[k][i].item = line.clauses[k][j].item => i = j

(* The clauses of defined symbols, and the names that have a value.        *)
Known == SystemNames \cup Defined
Live == {c \in Clause : c \in symbolClauses[c[1]]}

(* Ids are positions in symbolsById; a clause only has items that come     *)
(* before its symbol, and clauses indexes exactly its occurrences.         *)
OrderInv ==
  /\ \A i \in DOMAIN symbolsById : id[symbolsById[i]] = i - 1
  /\ \A s \in InternalNames : \A c \in symbolClauses[s] : c[1] = s /\ s \in Defined
  /\ \A c \in Live : \A x \in DOMAIN marks[c] : x \in Known /\ Id(x) < id[c[1]]
  /\ \A x \in Names : clauses[x] = {c \in Live : x \in DOMAIN marks[c]}

(* Outside an update the loop has nothing left to do.  Inside, the system  *)
(* symbol is queued first and alone, and afterwards everything queued lies *)
(* behind last, which is the latest name reported.                         *)
QueueInv ==
  /\ \A n \in Names : queue[n] > 0 => n \in Known
  /\ phase # "updating" => todo = {} /\ \A n \in Names : queue[n] = 0
  /\ phase = "loading" => last = NULL
  /\ last = NULL =>
       /\ todo = {} /\ modifySet = <<>>
       /\ \A m, n \in Names : queue[m] > 0 /\ queue[n] > 0 => m = n
       /\ \A n \in Names : queue[n] > 0 => n \in SystemNames
  /\ last # NULL =>
       /\ todo \subseteq clauses[last]
       /\ last \in Known
       /\ modifySet # <<>> /\ modifySet[Len(modifySet)] = last
       /\ v = symbols[last]
       /\ \A n \in Names : queue[n] > 0 /\ n # last => Id(last) < Id(n)

(* holdCount counts the clauses that hold and decides the symbol.          *)
Holding(s) == {c \in symbolClauses[s] : waitingCount[c] = 0}

HoldInv ==
  /\ \A s \in InternalNames : IsFiniteSet(symbolClauses[s])
  /\ \A s \in InternalNames : holdCount[s] = Cardinality(Holding(s))
  /\ \A s \in InternalNames : symbols[s] <=> holdCount[s] > 0

(* waitingCount counts the items that are not satisfied, once each when    *)
(* none is written twice.                                                  *)
Unsatisfied(c) == {x \in DOMAIN marks[c] : marks[c][x] < 2}

WaitingInv ==
  \A c \in Clause :
    /\ IsFiniteSet(DOMAIN marks[c])
    /\ waitingCount[c] >= Cardinality(Unsatisfied(c))
    /\ NoRepeatedItems => waitingCount[c] = Cardinality(Unsatisfied(c))

(* A mark follows the value of its item, except where the item is queued   *)
(* or its clause still has to be visited.                                  *)
Pending(c, x) == (queue[x] > 0 /\ x # last) \/ (x = last /\ c \in todo)

MarkInv ==
  \A c \in Live : \A x \in DOMAIN marks[c] :
    ~Pending(c, x) => (marks[c][x] >= 2 <=> symbols[x] # (marks[c][x] % 2 = 1))

(* Between updates the caller has seen the current values.                 *)
SeenInv == phase # "updating" => before = symbols

(* What holds between the steps of the engine: the parts above together.   *)
IInv ==
  /\ TypeOK
  /\ OrderInv
  /\ QueueInv
  /\ HoldInv
  /\ WaitingInv
  /\ MarkInv
  /\ SeenInv
  /\ ReportedInOrder
  /\ NoChangeLost

(* Why the names of an update are on its list: one system symbol was set,  *)
(* and every other name queued or listed is defined over a listed one.     *)
Listed == {modifySet[i] : i \in DOMAIN modifySet}

CausedBy(n) ==
  /\ symbols[n] # before[n]
  /\ \A m \in Names \ (Defined \cup {n}) : symbols[m] = before[m]
  /\ \A m \in Names \ {n} : queue[m] > 0 \/ m \in Listed =>
       m \in Defined /\ \E c \in symbolClauses[m] : DOMAIN marks[c] \cap Listed # {}

CauseInv == phase = "updating" => \E n \in SystemNames : CausedBy(n)

(* With it the engine is seen to implement SymbolRules.                    *)
UpdateInv == IInv /\ CauseInv
=============================================================================
