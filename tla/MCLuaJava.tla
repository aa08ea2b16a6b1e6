----------------------------- MODULE MCLuaJava -----------------------------
(***************************************************************************)
(* Instance of LuaJava.                                                    *)
(***************************************************************************)
EXTENDS LuaJava

CONSTANTS o1, o2

Symmetry == Permutations(Objects)
=============================================================================
