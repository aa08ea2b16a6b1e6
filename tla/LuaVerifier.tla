----------------------------- MODULE LuaVerifier ----------------------------
(***************************************************************************)
(* The bytecode verifier (luaG_checkcode, jni/lua/ldebug.c): the compiler  *)
(* asserts it of every function it makes, and the loader of precompiled    *)
(* code relies on it.  It goes through the code once, with no register to  *)
(* look for.  A prototype is what LuaParser's Closed makes.                *)
(***************************************************************************)
EXTENDS LuaCode

\* luaP_opmodes: what the arguments b and c are, register, constant or
\* register, used or not; the others are not used
ModeB == [op \in {"MOVE", "LOADNIL", "GETTABLE", "SELF", "UNM", "NOT", "LEN", "CONCAT", "JMP",
                  "TEST", "TESTSET", "FORLOOP", "FORPREP"} |-> "R"]
         @@ [op \in {"LOADK", "GETGLOBAL", "SETGLOBAL", "SETTABLE", "ADD", "SUB", "MUL",
                     "EQ", "LT", "LE"} |-> "K"]
         @@ [op \in {"LOADBOOL", "GETUPVAL", "SETUPVAL", "NEWTABLE", "CALL", "TAILCALL",
                     "RETURN", "SETLIST", "CLOSURE", "VARARG"} |-> "U"]
         @@ [op \in {"TFORLOOP", "CLOSE"} |-> "N"]
ModeC == [op \in {"CONCAT"} |-> "R"]
         @@ [op \in {"GETTABLE", "SETTABLE", "SELF", "ADD", "SUB", "MUL", "EQ", "LT", "LE"} |-> "K"]
         @@ [op \in {"LOADBOOL", "NEWTABLE", "TEST", "TESTSET", "CALL", "TAILCALL", "TFORLOOP",
                     "SETLIST"} |-> "U"]
         @@ [op \in DOMAIN ModeB |-> "N"]
Bx == {"LOADK", "GETGLOBAL", "SETGLOBAL", "CLOSURE"}
SBx == {"JMP", "FORLOOP", "FORPREP"}

CheckReg(p, r) == r < p.maxstack
\* checkArgMode
CheckArg(p, r, mode) ==
  CASE mode = "N" -> r = 0
    [] mode = "U" -> TRUE
    [] mode = "R" -> CheckReg(p, r)
    [] mode = "K" -> IF IsK(r) THEN r - BitRK < Len(p.k) ELSE CheckReg(p, r)
PreCheck(p) ==
  /\ p.numparams + (IF p.dots THEN 1 ELSE 0) <= p.maxstack
  /\ p.code # <<>> /\ Last(p.code).op = "RETURN"
CheckOpenOp(ins) == ins.op \in {"CALL", "TAILCALL", "RETURN", "SETLIST"} /\ ins.b = 0

CheckArgs(p, pc, i) ==
  /\ CheckReg(p, i.a)
  /\ i.op \notin Bx \cup SBx => CheckArg(p, i.b, ModeB[i.op]) /\ CheckArg(p, i.c, ModeC[i.op])
  /\ i.op \in Bx /\ ModeB[i.op] = "K" => i.b < Len(p.k)
  /\ i.op \in SBx => pc + 1 + i.b \in 0 .. Len(p.code) - 1
  /\ i.op \in TestMode => pc + 2 < Len(p.code) /\ p.code[pc + 2].op = "JMP"

CheckIns(p, pc, i) ==
  CASE i.op = "LOADBOOL" -> i.c = 1 => pc + 2 < Len(p.code)
    [] i.op \in {"GETUPVAL", "SETUPVAL"} -> i.b < p.nups
    [] i.op \in {"GETGLOBAL", "SETGLOBAL"} -> p.k[i.b + 1][1] = "str"
    [] i.op = "SELF" -> CheckReg(p, i.a + 1)
    [] i.op = "CONCAT" -> i.b < i.c
    [] i.op = "TFORLOOP" -> i.c >= 1 /\ CheckReg(p, i.a + 2 + i.c)
    [] i.op \in {"FORLOOP", "FORPREP"} -> CheckReg(p, i.a + 3)
    [] i.op \in {"CALL", "TAILCALL"} ->
         /\ i.b # 0 => CheckReg(p, i.a + i.b - 1)
         /\ i.c = 0 => CheckOpenOp(p.code[pc + 2])
         /\ i.c > 1 => CheckReg(p, i.a + i.c - 2)
    [] i.op = "RETURN" -> i.b > 1 => CheckReg(p, i.a + i.b - 2)
    [] i.op = "SETLIST" -> i.b > 0 => CheckReg(p, i.a + i.b)
    [] i.op = "CLOSURE" ->
         /\ i.b < Len(p.p) /\ pc + p.p[i.b + 1].nups < Len(p.code)
         /\ \A j \in 1 .. p.p[i.b + 1].nups : p.code[pc + 1 + j].op \in {"GETUPVAL", "MOVE"}
    [] i.op = "VARARG" ->
         /\ p.dots /\ ~p.needsarg
         /\ i.b = 0 => CheckOpenOp(p.code[pc + 2])
         /\ CheckReg(p, i.a + i.b - 2)
    [] OTHER -> TRUE

\* symbexec of a function
CheckCode(p) ==
  /\ PreCheck(p)
  /\ \A pc \in 0 .. Len(p.code) - 1 :
       CheckArgs(p, pc, p.code[pc + 1]) /\ CheckIns(p, pc, p.code[pc + 1])
=============================================================================
