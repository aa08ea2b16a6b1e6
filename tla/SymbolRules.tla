---------------------------- MODULE SymbolRules ----------------------------
(***************************************************************************)
(* What the inference engine promises, with none of its counters: rules    *)
(* define internal symbols as disjunctions of clauses over system symbols  *)
(* and earlier internal symbols, and after every change of a system symbol *)
(* each internal symbol has the value its rule gives it.  The symbols      *)
(* reported with a change include every symbol whose value changed, and    *)
(* nothing that no other reported symbol could have influenced.            *)
(***************************************************************************)
CONSTANTS
  SystemNames,    \* symbols set from outside (their names contain "@")
  InternalNames,  \* symbols defined by rules
  Rules           \* the rules that may be written: sets of clauses

Names == SystemNames \cup InternalNames
Literal == [item : Names, negated : BOOLEAN]

VARIABLES
  defs,      \* the rule of every defined internal symbol: a set of clauses
  value,     \* the value of every symbol, FALSE until it is defined or set
  reported   \* the symbols reported with the latest change

vars == <<defs, value, reported>>

(***************************************************************************)
(* A clause is a set of literals and holds when all of them are satisfied; *)
(* a rule holds when one of its clauses does.                              *)
(***************************************************************************)
Satisfied(l, val) == val[l.item] # l.negated
Holds(rule, val) == \E clause \in rule : \A l \in clause : Satisfied(l, val)
Mentions(rule, n) == \E clause \in rule : \E l \in clause : l.item = n
Consistent(d, val) == \A s \in DOMAIN d : val[s] = Holds(d[s], val)

Init ==
  /\ defs = [s \in {} |-> {}]
  /\ value = [n \in Names |-> FALSE]
  /\ reported = {}

(* A rule may only mention system symbols and symbols defined before it.   *)
Define(s, rule) ==
  /\ s \notin DOMAIN defs
  /\ \A clause \in rule : \A l \in clause :
       /\ l \in Literal
       /\ l.item \in SystemNames \cup DOMAIN defs
  /\ defs' = [x \in DOMAIN defs \cup {s} |-> IF x = s THEN rule ELSE defs[x]]
  /\ value' = [value EXCEPT ![s] = Holds(rule, value)]
  /\ UNCHANGED reported

(* One atomic change of a system symbol, with all its consequences.        *)
Change(n, v) ==
  /\ value[n] # v
  /\ value' \in [Names -> BOOLEAN]
  /\ value'[n] = v
  /\ \A m \in Names \ (DOMAIN defs \cup {n}) : value'[m] = value[m]
  /\ Consistent(defs, value')
  /\ reported' \in SUBSET Names
  /\ {m \in Names : value'[m] # value[m]} \subseteq reported'
  /\ \A m \in reported' \ {n} :
       m \in DOMAIN defs /\ \E r \in reported' : Mentions(defs[m], r)
  /\ UNCHANGED defs

Next ==
  \/ \E s \in InternalNames : \E rule \in Rules : Define(s, rule)
  \/ \E n \in SystemNames, v \in BOOLEAN : Change(n, v)

Spec == Init /\ [][Next]_vars
=============================================================================
