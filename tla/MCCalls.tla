------------------------------ MODULE MCCalls ------------------------------
(***************************************************************************)
(* Instance of LuaCalls.                                                   *)
(***************************************************************************)
EXTENDS LuaCalls

MCProgram ==
  {<<"L">>, <<"V", "v", "v">>, <<"C">>, <<"pcall", "L">>, <<"xpcall", "T", "L">>,
   <<"wrap", "V">>, <<"wrapped">>, <<"yield", "v">>}
MCIterators == {<<"L">>}
MCMetamethods == {<<"yield">>}
MCEntries == {<<"L">>, <<"wrapped">>}
MCWants == {1}
=============================================================================
