----------------------- MODULE ContextInferenceEngine -----------------------
(***************************************************************************)
(* org.sctx.ContextInferenceEngine: symbols are booleans; the rule of an   *)
(* internal symbol is a disjunction of clauses, a clause a conjunction of  *)
(* literals.  Rules are parsed one line at a time; afterwards every change *)
(* of a system symbol is propagated incrementally, through one waiting     *)
(* counter per clause, one hold counter per symbol and a priority queue    *)
(* ordered by the order of definition.                                     *)
(*                                                                         *)
(* All calls run on one thread, so a change is not interrupted; its loop   *)
(* is split into steps because the order in which a HashSet of clauses is  *)
(* iterated is not specified.                                              *)
(***************************************************************************)
EXTENDS Integers, Sequences, FiniteSets

CONSTANTS
  SystemNames,  \* the names with "@" in them: set from outside
  LocalNames,   \* the names a rule file may define: no "@", no "$"
  BadNames,     \* names that hold "$" or do not decode
  Namespaces,   \* the namespaces of the rule files
  RuleLines,    \* the lines the rule files may hold
  MaxClauses,   \* no line of RuleLines has more clauses
  NULL          \* no name

InternalNames == Namespaces \X LocalNames
Names == SystemNames \cup InternalNames

(* A clause object: the symbol it belongs to and its place on the line.    *)
Clause == InternalNames \X (1..MaxClauses)

Token == [item : SystemNames \cup LocalNames \cup BadNames, negated : BOOLEAN]
Line == [name : SystemNames \cup LocalNames \cup BadNames,
         clauses : Seq(Seq(Token))]

ASSUME NameAssumption ==
  /\ SystemNames \cap InternalNames = {}
  /\ SystemNames \cap LocalNames = {}
  /\ BadNames \cap (SystemNames \cup LocalNames) = {}
  /\ NULL \notin Names

ASSUME LineAssumption ==
  /\ MaxClauses \in Nat
  /\ RuleLines \subseteq Line
  /\ \A line \in RuleLines : Len(line.clauses) <= MaxClauses

VARIABLES
  phase,         \* "loading" the rule files, "idle" or "updating"
  symbols,       \* value of every symbol; one that is not in the map reads FALSE
  symbolsById,   \* the internal symbols in the order of their definition
  id,            \* ContextSymbol.id
  holdCount,     \* ContextSymbol.holdCount
  symbolClauses, \* ContextSymbol.clauses
  waitingCount,  \* Clause.waitingCount
  marks,         \* Clause.symbols: 0 / 1 a positive / negated item that is not
                 \* satisfied, 2 / 3 one that is
  clauses,       \* the clauses every symbol occurs in
  queue,         \* priority queue of updateSystemSymbol: copies of each name
  last,          \* the name taken from it last
  v,             \* the value read for that name
  todo,          \* the clauses of that name the inner loop has not visited
  modifySet,     \* the names handed to the caller, in order
  before,        \* history: symbols when the caller last saw them
  reported       \* history: the names of the caller's last update list

ruleVars == <<symbolsById, id, symbolClauses, clauses>>
loopVars == <<queue, last, v, todo, modifySet>>
seenVars == <<before, reported>>
vars == <<phase, symbols, holdCount, waitingCount, marks, ruleVars, loopVars, seenVars>>

(* The internal names that are keys of the symbols map.                    *)
Defined == {symbolsById[i] : i \in DOMAIN symbolsById}

-----------------------------------------------------------------------------
(* Parsing                                                                 *)

(* The code of an item: bit 0 is its negation, bit 1 says it is satisfied. *)
Mark(negated, value) ==
  (IF negated THEN 1 ELSE 0) + (IF value # negated THEN 2 ELSE 0)

(* A name without "@" is taken in the namespace of its rule file.          *)
Qualify(ns, name) == IF name \in SystemNames THEN name ELSE <<ns, name>>

(* What makes parse or parseClause give up: a name that does not decode or *)
(* holds "$", a symbol with "@" or that is defined already, an item without*)
(* "@" that is not defined yet (the symbol itself is not).                 *)
Accepts(ns, line) ==
  /\ line.name \in LocalNames
  /\ <<ns, line.name>> \notin Defined
  /\ \A k \in DOMAIN line.clauses : \A i \in DOMAIN line.clauses[k] :
       LET item == line.clauses[k][i].item
       IN  \/ item \in SystemNames
           \/ item \in LocalNames /\ <<ns, item>> \in Defined

(* The literals of a clause in their order, with the mark each one gets.   *)
ParsedLiterals(ns, tokens) ==
  [i \in DOMAIN tokens |->
     LET item == Qualify(ns, tokens[i].item)
     IN  [item |-> item, mark |-> Mark(tokens[i].negated, symbols[item])]]

(* A defect for checking IInv: negated items are not waited for.           *)
ParsedWaitingPositive(lits) == Cardinality({i \in DOMAIN lits : lits[i].mark = 0})

(* Counts literals as they come: an item written twice is counted twice... *)
ParsedWaiting(lits) == Cardinality({i \in DOMAIN lits : lits[i].mark < 2})

(* ...but the map keeps the last mark put for an item.                     *)
ParsedMarks(lits) ==
  [x \in {lits[i].item : i \in DOMAIN lits} |->
     LET at == CHOOSE i \in DOMAIN lits :
                 lits[i].item = x /\ \A j \in DOMAIN lits : lits[j].item = x => j <= i
     IN  lits[at].mark]

Parse(ns, line) ==
  LET s == <<ns, line.name>>
      K == DOMAIN line.clauses
      lits == [k \in K |-> ParsedLiterals(ns, line.clauses[k])]
      hold == Cardinality({k \in K : ParsedWaiting(lits[k]) = 0})
      new == {s} \X K
  IN  /\ phase = "loading"
      /\ Accepts(ns, line)
      /\ symbolsById' = Append(symbolsById, s)
      /\ id' = [id EXCEPT ![s] = Len(symbolsById)]
      /\ symbolClauses' = [symbolClauses EXCEPT ![s] = new]
      /\ holdCount' = [holdCount EXCEPT ![s] = hold]
      /\ symbols' = [symbols EXCEPT ![s] = hold > 0]
      /\ waitingCount' = [c \in Clause |-> IF c \in new THEN ParsedWaiting(lits[c[2]])
                                                        ELSE waitingCount[c]]
      /\ marks' = [c \in Clause |-> IF c \in new THEN ParsedMarks(lits[c[2]]) ELSE marks[c]]
      /\ clauses' = [x \in Names |-> clauses[x] \cup {c \in new : x \in DOMAIN marks'[c]}]
      /\ before' = symbols'
      /\ UNCHANGED <<phase, loopVars, reported>>

(* The last rule file has been read: from here on symbols change.          *)
FinishLoading ==
  /\ phase = "loading"
  /\ phase' = "idle"
  /\ UNCHANGED <<symbols, holdCount, waitingCount, marks, ruleVars, loopVars, seenVars>>

-----------------------------------------------------------------------------
(* Updating                                                                *)

(* The priority of a queued name: system symbols have no id and come first.*)
Id(n) == IF n \in SystemNames THEN -1 ELSE id[n]

BeginUpdate(name, value) ==
  /\ phase = "idle"
  /\ name \in SystemNames
  /\ symbols[name] # value
  /\ phase' = "updating"
  /\ symbols' = [symbols EXCEPT ![name] = value]
  /\ queue' = [n \in Names |-> IF n = name THEN 1 ELSE 0]
  /\ last' = NULL
  /\ modifySet' = <<>>
  /\ UNCHANGED <<holdCount, waitingCount, marks, ruleVars, v, todo, seenVars>>

(* A defect for checking ReportedInOrder: the comparator ignores the ids.  *)
IsFirstUnordered(n) == queue[n] > 0

(* A name the comparator puts in front of the queue.                       *)
IsFirst(n) == queue[n] > 0 /\ \A m \in Names : queue[m] > 0 => Id(n) <= Id(m)

(* A defect for checking UpdateEnds: a name seen again is only peeked at.  *)
DequeueNew(n) == IF n = last THEN queue ELSE [queue EXCEPT ![n] = @ - 1]

(* queue.poll                                                              *)
Dequeue(n) == [queue EXCEPT ![n] = @ - 1]

(* "continue": the name was handled just before.                           *)
PollRepeated(n) ==
  /\ phase = "updating" /\ todo = {}
  /\ IsFirst(n)
  /\ n = last
  /\ queue' = Dequeue(n)
  /\ UNCHANGED <<phase, symbols, holdCount, waitingCount, marks, ruleVars,
                 last, v, todo, modifySet, seenVars>>

(* A defect for checking NoChangeLost: names no clause waits for are       *)
(* skipped before they are added.                                          *)
ReportUsed(n) == IF clauses[n] = {} THEN modifySet ELSE Append(modifySet, n)

(* modifySet.add: every name taken from the queue, once per value.         *)
Report(n) == Append(modifySet, n)

Poll(n) ==
  /\ phase = "updating" /\ todo = {}
  /\ IsFirst(n)
  /\ n # last
  /\ queue' = Dequeue(n)
  /\ modifySet' = Report(n)
  /\ last' = n
  /\ v' = symbols[n]
  /\ todo' = clauses[n]
  /\ UNCHANGED <<phase, symbols, holdCount, waitingCount, marks, ruleVars, seenVars>>

(* notifySymbol: the mark follows the value of the item, and the counter   *)
(* follows the mark.                                                       *)
NotifiedMark(m, value) == Mark(m % 2 = 1, value)

(* A defect for checking TypeOK: a mark already satisfied counts again.    *)
NotifiedWaitingAgain(w, m, value) ==
  IF NotifiedMark(m, value) >= 2 THEN w - 1 ELSE w + 1

NotifiedWaiting(w, m, value) ==
  CASE m < 2  /\ NotifiedMark(m, value) >= 2 -> w - 1
    [] m >= 2 /\ NotifiedMark(m, value) < 2  -> w + 1
    [] OTHER -> w

(* A defect for checking Settled: the last clause lost does not clear.     *)
FlipsOnGain(gains, loses, hold) == gains /\ hold = 1

(* The first clause that holds sets the symbol, the last one clears it.    *)
Flips(gains, loses, hold) == (gains /\ hold = 1) \/ (loses /\ hold = 0)

(* One round of the inner loop: the clause is notified, and when that      *)
(* makes it hold or fail its symbol may change value and is queued.        *)
Visit(c) ==
  LET s == c[1]
      waiting == NotifiedWaiting(waitingCount[c], marks[c][last], v)
      gains == waitingCount[c] # 0 /\ waiting = 0
      loses == waitingCount[c] = 0 /\ waiting # 0
      hold == CASE gains -> holdCount[s] + 1
                [] loses -> holdCount[s] - 1
                [] OTHER -> holdCount[s]
      flips == Flips(gains, loses, hold)
  IN  /\ phase = "updating"
      /\ c \in todo
      /\ todo' = todo \ {c}
      /\ waitingCount' = [waitingCount EXCEPT ![c] = waiting]
      /\ marks' = [marks EXCEPT ![c][last] = NotifiedMark(@, v)]
      /\ holdCount' = [holdCount EXCEPT ![s] = hold]
      /\ symbols' = IF flips THEN [symbols EXCEPT ![s] = gains] ELSE symbols
      /\ queue' = IF flips THEN [queue EXCEPT ![s] = @ + 1] ELSE queue
      /\ UNCHANGED <<phase, ruleVars, last, v, modifySet, seenVars>>

EndUpdate ==
  /\ phase = "updating" /\ todo = {}
  /\ \A n \in Names : queue[n] = 0
  /\ phase' = "idle"
  /\ before' = symbols
  /\ reported' = {modifySet[i] : i \in DOMAIN modifySet}
  /\ UNCHANGED <<symbols, holdCount, waitingCount, marks, ruleVars, loopVars>>

-----------------------------------------------------------------------------
Init ==
  /\ phase = "loading"
  /\ symbols = [n \in Names |-> FALSE]
  /\ symbolsById = <<>>
  /\ id = [s \in InternalNames |-> 0]
  /\ holdCount = [s \in InternalNames |-> 0]
  /\ symbolClauses = [s \in InternalNames |-> {}]
  /\ waitingCount = [c \in Clause |-> 0]
  /\ marks = [c \in Clause |-> [x \in {} |-> 0]]
  /\ clauses = [n \in Names |-> {}]
  /\ queue = [n \in Names |-> 0]
  /\ last = NULL
  /\ v = FALSE
  /\ todo = {}
  /\ modifySet = <<>>
  /\ before = symbols
  /\ reported = {}

UpdateStep ==
  \/ \E n \in Names : PollRepeated(n) \/ Poll(n)
  \/ \E c \in Clause : Visit(c)
  \/ EndUpdate

Next ==
  \/ \E ns \in Namespaces, line \in RuleLines : Parse(ns, line)
  \/ FinishLoading
  \/ \E name \in SystemNames, value \in BOOLEAN : BeginUpdate(name, value)
  \/ UpdateStep

(* A call that has begun runs to its end on its thread.                    *)
Spec == Init /\ [][Next]_vars /\ WF_vars(UpdateStep)

-----------------------------------------------------------------------------
(* Properties                                                              *)

(* Every variable has its type; in particular no counter is ever driven    *)
(* below zero by notifySymbol or by the inner loop.                        *)
TypeOK ==
  /\ phase \in {"loading", "idle", "updating"}
  /\ symbols \in [Names -> BOOLEAN]
  /\ symbolsById \in Seq(InternalNames)
  /\ id \in [InternalNames -> Nat]
  /\ holdCount \in [InternalNames -> Nat]
  /\ symbolClauses \in [InternalNames -> SUBSET Clause]
  /\ waitingCount \in [Clause -> Nat]
  /\ marks = [c \in Clause |-> marks[c]]
  /\ \A c \in Clause : /\ DOMAIN marks[c] \subseteq Names
                        /\ marks[c] \in [DOMAIN marks[c] -> 0..3]
  /\ clauses \in [Names -> SUBSET Clause]
  /\ queue \in [Names -> Nat]
  /\ last \in Names \cup {NULL}
  /\ v \in BOOLEAN
  /\ todo \in SUBSET Clause
  /\ modifySet \in Seq(Names)
  /\ before \in [Names -> BOOLEAN]
  /\ reported \in SUBSET Names

(* The literals of a clause as its map records them.                       *)
Literals(c) == {[item |-> x, negated |-> marks[c][x] % 2 = 1] : x \in DOMAIN marks[c]}

ClauseSatisfied(c) == \A l \in Literals(c) : symbols[l.item] # l.negated

(* Between two updates every defined symbol has the value its rule gives   *)
(* it over the current values: the counters, the queue and its order have  *)
(* propagated the change completely (updateSystemSymbol, parse).           *)
Settled ==
  phase # "updating" =>
    \A s \in Defined : symbols[s] <=> \E c \in symbolClauses[s] : ClauseSatisfied(c)

(* The caller is told about a symbol at most once per update, and never    *)
(* before a symbol it depends on: names come in the order of their ids     *)
(* (the priority queue and the comparison with last).                      *)
ReportedInOrder ==
  \A i, j \in DOMAIN modifySet : i < j => Id(modifySet[i]) < Id(modifySet[j])

(* While the loop runs, a symbol whose value differs from what the caller  *)
(* last saw has been reported or is still queued: no change gets lost when *)
(* a symbol flips more than once or shares its place in the queue.         *)
NoChangeLost ==
  \A n \in Names : symbols[n] # before[n] =>
    queue[n] > 0 \/ \E i \in DOMAIN modifySet : modifySet[i] = n

(* What the engine does not do.  modifySet, the list the caller gets, and  *)
(* the functions <namespace>_enter and <namespace>_leave that it calls for *)
(* every name on it are about symbols that change; a symbol that flips     *)
(* twice before it is taken from the queue is on the list unchanged.       *)
OnlyChangesReported ==
  [][EndUpdate => reported' \subseteq {n \in Names : symbols[n] # before[n]}]_vars

(* The loop ends: no rule file makes updateSystemSymbol run forever.       *)
UpdateEnds == phase = "updating" ~> phase = "idle"

(* The engine implements SymbolRules: seen from the caller each update is  *)
(* one atomic change.  A clause is written as a set of literals.           *)
Written(ns, line) ==
  {{[item |-> Qualify(ns, t.item), negated |-> t.negated] :
      t \in {line.clauses[k][i] : i \in DOMAIN line.clauses[k]}} : k \in DOMAIN line.clauses}

Abstract == INSTANCE SymbolRules WITH
  Rules <- {Written(ns, line) : ns \in Namespaces, line \in RuleLines},
  defs <- [s \in Defined |-> {Literals(c) : c \in symbolClauses[s]}],
  value <- before

ImplementsSymbolRules == Abstract!Spec
=============================================================================
