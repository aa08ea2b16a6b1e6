--------------------------- MODULE MCSmartContext ---------------------------
(***************************************************************************)
(* One native context; p holds without it, q is defined over both and      *)
(* holds whichever is true, so that it may be reported unchanged.          *)
(***************************************************************************)
EXTENDS ServiceInvariant

CONSTANTS w, p, q, i1, i2, i3, i4, a1, a2, a3, a4

pos(x) == [item |-> x, negated |-> FALSE]
neg(x) == [item |-> x, negated |-> TRUE]

Rules == [s \in {p, q} |-> IF s = p THEN {{neg(w)}} ELSE {{pos(w)}, {pos(p)}}]
Ids == <<w, p, q>>

(* Without rules, and without symbols, for the runs of the temporal        *)
(* properties.                                                             *)
NoRules == [s \in {} |-> {}]
OneId == <<w>>
NoIds == <<>>
=============================================================================
