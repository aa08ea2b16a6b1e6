------------------------------ MODULE MCEngine ------------------------------
(***************************************************************************)
(* Rule files for checking the engine: two system symbols, three local     *)
(* names, lines that reconverge (q depends on p and on what p depends on), *)
(* flip back, mention a symbol not defined yet, have an empty clause or an *)
(* unusable name.                                                          *)
(***************************************************************************)
EXTENDS EngineReset, EngineInvariant

CONSTANTS a, b, p, q, r, bad

pos(x) == [item |-> x, negated |-> FALSE]
neg(x) == [item |-> x, negated |-> TRUE]
rule(x, cs) == [name |-> x, clauses |-> cs]

Lines == {
  rule(p, << <<pos(a)>> >>),
  rule(p, << <<neg(a)>>, <<pos(a), pos(b)>> >>),
  rule(p, << <<neg(r)>>, <<pos(b), neg(q)>> >>),
  rule(q, << <<pos(a), neg(p)>>, <<pos(b), pos(p)>> >>),
  rule(q, << <<neg(p)>>, <<>> >>),
  rule(q, << <<neg(r), pos(b)>>, <<pos(r), neg(a)>> >>),
  rule(r, << <<pos(p), neg(q)>>, <<pos(q), neg(b)>> >>),
  rule(r, << <<neg(q)>>, <<neg(a)>>, <<neg(b), pos(q)>> >>),
  rule(r, << <<pos(a)>>, <<pos(b)>> >>),
  rule(r, << <<pos(bad)>> >>),
  rule(a, << <<pos(b)>> >>),
  rule(bad, << >>) }

(* A clause that writes an item twice.                                     *)
RepeatedItemLines == {
  rule(p, << <<pos(a)>> >>),
  rule(q, << <<pos(a), pos(a)>> >>),
  rule(q, << <<neg(p), neg(p)>>, <<pos(b)>> >>),
  rule(r, << <<neg(q)>>, <<pos(p), neg(b)>> >>) }
=============================================================================
