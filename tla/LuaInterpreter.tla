--------------------------- MODULE LuaInterpreter ---------------------------
(***************************************************************************)
(* The interpreter: a program is compiled (LuaParser over LuaCode), runs   *)
(* (LuaVM over LuaTable), and does what it means (LuaMeaning).             *)
(***************************************************************************)
EXTENDS LuaVM

CONSTANTS
  PatternOf, PartsOf,   \* what the patterns and replacements in programs mean
  Dumped,               \* the programs that may be dumped and loaded again
  MaxDepth

Precompiled == INSTANCE LuaDump
Verifier == INSTANCE LuaVerifier
Meaning == INSTANCE LuaMeaning

Finished == started /\ frames = <<>>

Init == ParserInit /\ VMInit
\* string.dump of the main function, and lua_load of the chunk
Reload ==
  /\ proto # NoProto /\ ~started /\ prog \in Dumped
  /\ \E strip \in BOOLEAN :
       LET r == Precompiled!Undump(Precompiled!Dump(proto, strip))
       IN  r.error = "" /\ proto' = Last(r.got)
  /\ UNCHANGED <<prog, todo, funcs, vmVars>>
Next == Reload \/ (ParserNext /\ UNCHANGED vmVars) \/ VMNext \/ (Finished /\ UNCHANGED <<parserVars, vmVars>>)
vars == <<parserVars, vmVars>>
Spec == Init /\ [][Next]_vars

RECURSIVE Within(_)
Within(p) == {p} \cup UNION {Within(p.p[i]) : i \in DOMAIN p.p}

RECURSIVE Depth(_)
Depth(p) == 1 + Max({0} \cup {Depth(p.p[i]) : i \in DOMAIN p.p})
\* the chunk of a program loads unless it is nested too deeply, and no
\* beginning of it does
OnlyAsAWhole(p) ==
  LET chunk == Precompiled!Dump(p, FALSE)
      loads(n) == Precompiled!Undump(SubSeq(chunk, 1, n)).error = ""
  IN  /\ loads(Len(chunk)) <=> Depth(p) <= MaxDepth
      /\ \A n \in 0 .. Len(chunk) - 1 : ~loads(n)

(***************************************************************************)
(* What the compiler makes passes the verifier, and on the way registers   *)
(* are freed in the order they were taken, blocks begin and end with no    *)
(* more of them in use than there are variables, and no breakable block    *)
(* has captured variables of its own: the assertions of lcode.c:218 and    *)
(* lparser.c:292, 303, 332, 374.  The loader takes it when it was dumped,  *)
(* and notices when any part is missing at the end.                        *)
(***************************************************************************)
CodeChecked ==
  proto # NoProto /\ ~started =>
    /\ \A p \in Within(proto) : p.ok /\ Verifier!CheckCode(p)
    /\ prog \in Dumped => OnlyAsAWhole(proto)

(***************************************************************************)
(* A program that has run told the environment what it means: registers,   *)
(* jumps, closures, tables and arguments are as the source says.           *)
(***************************************************************************)
MeaningKept == Finished => told = Meaning!Told(Programs[prog], asked, Library)

(***************************************************************************)
(* Every table is the map of what was stored in it, whatever collided and  *)
(* however often it was rehashed; that of the globals when the program     *)
(* ends.                                                                   *)
(***************************************************************************)
TablesAgree == \A t \in DOMAIN tables : (t = 1 /\ ~Finished) \/ Holds(tables[t], maps[t])
=============================================================================
