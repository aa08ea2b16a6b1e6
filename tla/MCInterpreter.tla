---------------------------- MODULE MCInterpreter ---------------------------
(***************************************************************************)
(* Instance of LuaInterpreter: the programs of LuaPrograms, asking an      *)
(* environment that says yes or no.                                        *)
(***************************************************************************)
EXTENDS LuaInterpreter

Texts == INSTANCE LuaPrograms
MCPrograms == Texts!AllPrograms
MCPatternOf == Texts!TextsToItems @@ [t \in {"b", "%"} |-> IF t = "b" THEN <<Texts!L("b")>> ELSE <<Texts!Bad("%")>>]
MCPartsOf == Texts!TextsToParts @@ ("" :> <<>>)
MCDumped == 1 .. 16

\* strings of a length collide, and so do numbers a size apart
MCHashOf(k) ==
  CASE k[1] = "num" -> IF k[2] < 0 THEN -k[2] ELSE k[2]
    [] k[1] \in {"str", "c"} -> Len(k[2])
    [] OTHER -> k[2]

BoolAnswers == {True, False}
=============================================================================
