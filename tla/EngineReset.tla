----------------------------- MODULE EngineReset -----------------------------
(***************************************************************************)
(* resetSymbolValues of org.sctx.ContextInferenceEngine: the same state    *)
(* computed from scratch, one symbol after the other in the order of their *)
(* ids.  Nothing in the program calls it; here it is the class's own       *)
(* reference for what parse and updateSystemSymbol maintain incrementally. *)
(***************************************************************************)
EXTENDS ContextInferenceEngine

(* A defect for checking ResetChangesNothing: the mask "& 1" is missing.   *)
ResetClauseUnmasked(val, map) ==
  [x \in DOMAIN map |-> Mark(map[x] = 1, val[x])]

ResetClause(val, map) ==
  [x \in DOMAIN map |-> Mark(map[x] % 2 = 1, val[x])]

(* The loop's body: the marks of every clause of s, its counter, and then  *)
(* the hold counter and the value of s.                                    *)
ResetMarks(st, c) == ResetClause(st.symbols, st.marks[c])

ResetWaiting(map) ==
  Cardinality(DOMAIN map) - Cardinality({x \in DOMAIN map : map[x] >= 2})

ResetSymbol(st, s) ==
  LET S == symbolClauses[s]
      marked == [c \in Clause |-> IF c \in S THEN ResetMarks(st, c) ELSE st.marks[c]]
      waiting == [c \in Clause |-> IF c \in S THEN ResetWaiting(marked[c])
                                              ELSE st.waitingCount[c]]
      hold == Cardinality({c \in S : waiting[c] = 0})
  IN  [symbols |-> [st.symbols EXCEPT ![s] = hold > 0],
       holdCount |-> [st.holdCount EXCEPT ![s] = hold],
       waitingCount |-> waiting,
       marks |-> marked]

Current == [symbols |-> symbols, holdCount |-> holdCount,
            waitingCount |-> waitingCount, marks |-> marks]

(* The symbols in the order of their ids.                                  *)
ResetSymbolValues ==
  LET reset[k \in 0..Len(symbolsById)] ==
        IF k = 0 THEN Current ELSE ResetSymbol(reset[k - 1], symbolsById[k])
  IN  reset[Len(symbolsById)]

(* Between two updates resetSymbolValues would change nothing: values,     *)
(* counters and marks kept incrementally are those computed from scratch.  *)
ResetChangesNothing == phase # "updating" => ResetSymbolValues = Current
=============================================================================
