------------------------------ MODULE LuaCode -------------------------------
(***************************************************************************)
(* The code generator of the Lua compiler (jni/lua/lcode.c).               *)
(*                                                                         *)
(* fs is the FuncState of the function being compiled; its expressions     *)
(* under way (expdesc) are in fs.ex, and i and j are places in it.  Jumps  *)
(* whose target is not known yet are linked through their own offsets; a   *)
(* list is the pc of the first, or NoJump.  A program counter is one less  *)
(* than the index of its instruction.                                      *)
(*                                                                         *)
(* fs.ok is what lua_assert says of registers: they are freed in order.    *)
(***************************************************************************)
EXTENDS LuaTable

CONSTANTS
  MaxIndexRK,       \* MAXINDEXRK: constants an instruction can name
  FieldsPerFlush    \* LFIELDS_PER_FLUSH: list items of a SETLIST

NoJump == -1
NoReg == 255
BitRK == 256
MultRet == -1
IsK(r) == r >= BitRK

Ins(op, a, b, c) == [op |-> op, a |-> a, b |-> b, c |-> c]
TestMode == {"EQ", "LT", "LE", "TEST", "TESTSET", "TFORLOOP"}

Exp(k, info) == [k |-> k, info |-> info, aux |-> 0, nval |-> 0, t |-> NoJump, f |-> NoJump]
HasJumps(e) == e.t # e.f
IsNumeral(e) == e.k = "VKNUM" /\ e.t = NoJump /\ e.f = NoJump
HasMultRet(e) == e.k \in {"VCALL", "VVARARG"}

Pc(fs) == Len(fs.code)
At(fs, pc) == fs.code[pc + 1]
SetExp(fs, i, k, info) == [fs EXCEPT !.ex[i].k = k, !.ex[i].info = info]
Push(fs, e) == [fs EXCEPT !.ex = Append(@, e)]
Drop(fs) == [fs EXCEPT !.ex = Front(@)]

(***************************************************************************)
(* Lists of jumps.                                                         *)
(***************************************************************************)
GetJump(fs, pc) == IF At(fs, pc).b = NoJump THEN NoJump ELSE pc + 1 + At(fs, pc).b
RECURSIVE JumpsFrom(_, _)
JumpsFrom(fs, list) ==
  IF list = NoJump THEN {} ELSE {list} \cup JumpsFrom(fs, GetJump(fs, list))
\* getjumpcontrol
Control(fs, pc) == IF pc >= 1 /\ At(fs, pc - 1).op \in TestMode THEN pc - 1 ELSE pc
FixJump(fs, pc, dest) == [fs EXCEPT !.code[pc + 1].b = dest - (pc + 1)]

NeedValue(fs, list) == \E j \in JumpsFrom(fs, list) : At(fs, Control(fs, j)).op # "TESTSET"

\* patchtestreg of a TESTSET
PatchTest(ins, reg) ==
  IF reg # NoReg /\ reg # ins.b THEN [ins EXCEPT !.a = reg] ELSE Ins("TEST", ins.b, 0, ins.c)
TestSets(fs, js) == {j \in js : At(fs, Control(fs, j)).op = "TESTSET"}
\* removevalues
RemoveValues(fs, list) ==
  LET tests == {Control(fs, j) : j \in TestSets(fs, JumpsFrom(fs, list))}
  IN  [fs EXCEPT !.code = [x \in DOMAIN @ |->
         IF x - 1 \in tests THEN PatchTest(@[x], NoReg) ELSE @[x]]]
\* patchlistaux: jumps that carry a value to vtarget, the others to dtarget
PatchListAux(fs, list, vtarget, reg, dtarget) ==
  LET js == JumpsFrom(fs, list)
      sets == TestSets(fs, js)
      tests == {Control(fs, j) : j \in sets}
  IN  [fs EXCEPT !.code = [x \in DOMAIN @ |->
         CASE x - 1 \in tests -> PatchTest(@[x], reg)
           [] x - 1 \in js -> [@[x] EXCEPT !.b = (IF x - 1 \in sets THEN vtarget ELSE dtarget) - x]
           [] OTHER -> @[x]]]

\* luaK_concat: the list it makes, and the code with the two linked
Joined(l1, l2) == IF l1 = NoJump THEN l2 ELSE l1
Linked(fs, l1, l2) ==
  IF l1 = NoJump \/ l2 = NoJump THEN fs
  ELSE FixJump(fs, CHOOSE j \in JumpsFrom(fs, l1) : GetJump(fs, j) = NoJump, l2)

\* luaK_code, with dischargejpc
Code(fs, ins) ==
  LET f == PatchListAux(fs, fs.jpc, Pc(fs), NoReg, Pc(fs))
  IN  [f EXCEPT !.jpc = NoJump, !.code = Append(@, ins)]

GetLabel(fs) == [fs EXCEPT !.lasttarget = Pc(fs)]
\* the jump is the last instruction
Jump(fs) ==
  Linked(Code([fs EXCEPT !.jpc = NoJump], Ins("JMP", 0, NoJump, 0)), Pc(fs), fs.jpc)
CondJump(fs, ins) == Jump(Code(fs, ins))
PatchToHere(fs, list) ==
  [Linked(GetLabel(fs), fs.jpc, list) EXCEPT !.jpc = Joined(@, list)]
PatchList(fs, list, target) ==
  IF target = Pc(fs) THEN PatchToHere(fs, list)
  ELSE PatchListAux(fs, list, target, NoReg, target)

(***************************************************************************)
(* Registers and constants.                                                *)
(***************************************************************************)
\* a slip: one register too few
CheckStackShort(fs, n) == [fs EXCEPT !.maxstack = Max({@, fs.freereg + n - 1})]
CheckStack(fs, n) == [fs EXCEPT !.maxstack = Max({@, fs.freereg + n})]
ReserveRegs(fs, n) == [CheckStack(fs, n) EXCEPT !.freereg = @ + n]
FreeReg(fs, r) ==
  IF IsK(r) \/ r < fs.nactvar THEN fs
  ELSE [fs EXCEPT !.freereg = @ - 1, !.ok = @ /\ r = fs.freereg - 1]
FreeExp(fs, i) == IF fs.ex[i].k = "VNONRELOC" THEN FreeReg(fs, fs.ex[i].info) ELSE fs

\* addk
AddK(fs, v) == IF v \in Range(fs.k) THEN fs ELSE [fs EXCEPT !.k = Append(@, v)]
IndexK(fs, v) == SelectInSeq(fs.k, LAMBDA x : x = v) - 1

\* luaK_nil joins a LOADNIL before it, unless something jumps in between
CodeNil(fs, from, n) ==
  LET prev == At(fs, Pc(fs) - 1)
      inside == Pc(fs) > fs.lasttarget
      joins == inside /\ Pc(fs) > 0 /\ prev.op = "LOADNIL"
               /\ prev.a <= from /\ from <= prev.b + 1
  IN  CASE inside /\ Pc(fs) = 0 /\ from >= fs.nactvar -> fs
        [] joins -> [fs EXCEPT !.code[Pc(fs)].b = Max({@, from + n - 1})]
        [] OTHER -> Code(fs, Ins("LOADNIL", from, from + n - 1, 0))

CodeRet(fs, first, nret) == Code(fs, Ins("RETURN", first, nret + 1, 0))

(***************************************************************************)
(* Expressions into registers.                                             *)
(***************************************************************************)
SetReturns(fs, i, n) ==
  LET pc == fs.ex[i].info
  IN  CASE fs.ex[i].k = "VCALL" -> [fs EXCEPT !.code[pc + 1].c = n + 1]
        [] fs.ex[i].k = "VVARARG" ->
             ReserveRegs([fs EXCEPT !.code[pc + 1].b = n + 1, !.code[pc + 1].a = fs.freereg], 1)
        [] OTHER -> fs
SetOneRet(fs, i) ==
  LET e == fs.ex[i]
  IN  CASE e.k = "VCALL" -> SetExp(fs, i, "VNONRELOC", At(fs, e.info).a)
        [] e.k = "VVARARG" -> [fs EXCEPT !.code[e.info + 1].b = 2, !.ex[i].k = "VRELOCABLE"]
        [] OTHER -> fs

Relocatable(fs, i, ins) == SetExp(Code(fs, ins), i, "VRELOCABLE", Pc(fs))
LoadVar(e) ==
  CASE e.k = "VUPVAL" -> Ins("GETUPVAL", 0, e.info, 0)
    [] e.k = "VGLOBAL" -> Ins("GETGLOBAL", 0, e.info, 0)
    [] e.k = "VINDEXED" -> Ins("GETTABLE", 0, e.info, e.aux)
\* luaK_dischargevars
DischargeVars(fs, i) ==
  LET e == fs.ex[i]
  IN  CASE e.k = "VLOCAL" -> [fs EXCEPT !.ex[i].k = "VNONRELOC"]
        [] e.k \in {"VUPVAL", "VGLOBAL", "VINDEXED"} ->
             Relocatable(IF e.k = "VINDEXED" THEN FreeReg(FreeReg(fs, e.aux), e.info) ELSE fs,
                         i, LoadVar(e))
        [] OTHER -> SetOneRet(fs, i)

LoadConstant(fs, e, reg) ==
  CASE e.k = "VTRUE" -> Ins("LOADBOOL", reg, 1, 0)
    [] e.k = "VFALSE" -> Ins("LOADBOOL", reg, 0, 0)
    [] e.k = "VK" -> Ins("LOADK", reg, e.info, 0)
    [] e.k = "VKNUM" -> Ins("LOADK", reg, IndexK(fs, Num(e.nval)), 0)
    [] e.k = "VNONRELOC" -> Ins("MOVE", reg, e.info, 0)
InReg(fs, i, reg) ==
  LET e == fs.ex[i]
      f == IF e.k = "VKNUM" THEN AddK(fs, Num(e.nval)) ELSE fs
  IN  CASE e.k = "VNIL" -> CodeNil(fs, reg, 1)
        [] e.k = "VRELOCABLE" -> [fs EXCEPT !.code[e.info + 1].a = reg]
        [] e.k = "VNONRELOC" /\ e.info = reg -> fs
        [] OTHER -> Code(f, LoadConstant(f, e, reg))
Discharged(fs, i, reg) ==
  IF fs.ex[i].k \in {"VVOID", "VJMP"} THEN fs ELSE SetExp(InReg(fs, i, reg), i, "VNONRELOC", reg)
Discharge2Reg(fs, i, reg) == Discharged(DischargeVars(fs, i), i, reg)
Discharge2AnyReg(fs, i) ==
  IF fs.ex[i].k = "VNONRELOC" THEN fs
  ELSE Discharge2Reg(ReserveRegs(fs, 1), i, fs.freereg)

\* exp2reg: a value that jumps is loaded where they land, unless each
\* carries it
CodeLabel(fs, reg, b, skip) == Code(GetLabel(fs), Ins("LOADBOOL", reg, b, skip))
BothBools(fs, reg, list) ==
  PatchToHere(CodeLabel(CodeLabel(fs, reg, 0, 1), reg, 1, 0), list)
LoadBools(fs, jumped, reg) ==
  BothBools(IF jumped THEN fs ELSE Jump(fs), reg, IF jumped THEN NoJump ELSE Pc(fs))
PatchValues(fs, e, reg, pf) ==
  LET f == GetLabel(fs)
  IN  PatchListAux(PatchListAux(f, e.f, Pc(f), reg, pf), e.t, Pc(f), reg, pf + 1)
JoinJump(fs, i) ==
  LET e == fs.ex[i]
  IN  IF e.k # "VJMP" THEN fs
      ELSE [Linked(fs, e.t, e.info) EXCEPT !.ex[i].t = Joined(@, e.info)]
Landed(fs, i, reg) ==
  LET e == fs.ex[i]
      need == NeedValue(fs, e.t) \/ NeedValue(fs, e.f)
      pf == IF e.k = "VJMP" THEN Pc(fs) ELSE Pc(fs) + 1
  IN  IF ~HasJumps(e) THEN fs
      ELSE IF need THEN PatchValues(LoadBools(fs, e.k = "VJMP", reg), e, reg, pf)
           ELSE PatchValues(fs, e, reg, NoJump)
Exp2Reg(fs, i, reg) ==
  [Landed(JoinJump(Discharge2Reg(fs, i, reg), i), i, reg) EXCEPT !.ex[i] = Exp("VNONRELOC", reg)]

InNextReg(fs, i) == Exp2Reg(ReserveRegs(fs, 1), i, fs.freereg)
Exp2NextReg(fs, i) == InNextReg(FreeExp(DischargeVars(fs, i), i), i)
\* the register it is in will do, unless a variable's and it has jumps
InAnyReg(fs, i) ==
  LET e == fs.ex[i]
      own == e.k = "VNONRELOC" /\ e.info >= fs.nactvar
      f == IF own THEN fs ELSE ReserveRegs(FreeExp(fs, i), 1)
  IN  IF e.k = "VNONRELOC" /\ ~HasJumps(e) THEN fs
      ELSE Exp2Reg(f, i, IF own THEN e.info ELSE f.freereg - 1)
Exp2AnyReg(fs, i) == InAnyReg(DischargeVars(fs, i), i)
Exp2Val(fs, i) == IF HasJumps(fs.ex[i]) THEN Exp2AnyReg(fs, i) ELSE DischargeVars(fs, i)

\* luaK_exp2RK, and what it returns
ConstantOf(e) ==
  CASE e.k = "VKNUM" -> Num(e.nval) [] e.k = "VTRUE" -> True
    [] e.k = "VFALSE" -> False [] e.k = "VNIL" -> Nil
AsRK(fs, i) ==
  LET e == fs.ex[i]
      f == AddK(fs, ConstantOf(e))
  IN  CASE e.k \in {"VKNUM", "VTRUE", "VFALSE", "VNIL"} /\ Len(fs.k) <= MaxIndexRK ->
             SetExp(f, i, "VK", IndexK(f, ConstantOf(e)))
        [] e.k = "VK" /\ e.info <= MaxIndexRK -> fs
        [] OTHER -> Exp2AnyReg(fs, i)
Exp2RK(fs, i) == AsRK(Exp2Val(fs, i), i)
RK(fs, i) == IF fs.ex[i].k = "VK" THEN BitRK + fs.ex[i].info ELSE fs.ex[i].info

(***************************************************************************)
(* Variables, tests and operators.                                         *)
(***************************************************************************)
\* luaK_storevar of ex[i] in the variable ex[v]
StoreIns(fs, var, i) ==
  CASE var.k = "VUPVAL" -> Ins("SETUPVAL", fs.ex[i].info, var.info, 0)
    [] var.k = "VGLOBAL" -> Ins("SETGLOBAL", fs.ex[i].info, var.info, 0)
    [] var.k = "VINDEXED" -> Ins("SETTABLE", var.info, var.aux, RK(fs, i))
Stored(fs, v, i) == FreeExp(Code(fs, StoreIns(fs, fs.ex[v], i)), i)
StoreVar(fs, v, i) ==
  CASE fs.ex[v].k = "VLOCAL" -> Exp2Reg(FreeExp(fs, i), i, fs.ex[v].info)
    [] fs.ex[v].k = "VINDEXED" -> Stored(Exp2RK(fs, i), v, i)
    [] OTHER -> Stored(Exp2AnyReg(fs, i), v, i)

\* luaK_self: the object and its method in two new registers
SelfFrom(fs, i, reg) ==
  LET f == Code(fs, Ins("SELF", reg, fs.ex[i].info, RK(fs, i + 1)))
  IN  Drop(SetExp(FreeExp(f, i + 1), i, "VNONRELOC", reg))
WithMethod(fs, i, key) == SelfFrom(Exp2RK(Push(ReserveRegs(fs, 2), key), i + 1), i, fs.freereg)
Self(fs, i, key) == WithMethod(FreeExp(Exp2AnyReg(fs, i), i), i, key)

InvertJump(fs, i) ==
  LET c == Control(fs, fs.ex[i].info) IN [fs EXCEPT !.code[c + 1].a = 1 - @]
\* jumponcond: the jump is the last instruction
TestingReg(fs, i, cond) ==
  CondJump(FreeExp(fs, i), Ins("TESTSET", NoReg, fs.ex[i].info, cond))
JumpOnCond(fs, i, cond) ==
  LET e == fs.ex[i]
  IN  IF e.k = "VRELOCABLE" /\ At(fs, e.info).op = "NOT"
      THEN CondJump([fs EXCEPT !.code = Front(@)], Ins("TEST", At(fs, e.info).b, 0, 1 - cond))
      ELSE TestingReg(Discharge2AnyReg(fs, i), i, cond)

\* luaK_goiftrue
TestTrue(fs, i) ==
  CASE fs.ex[i].k \in {"VK", "VKNUM", "VTRUE"} -> fs
    [] fs.ex[i].k = "VJMP" -> InvertJump(fs, i)
    [] OTHER -> JumpOnCond(fs, i, 0)
\* luaK_goiffalse
TestFalse(fs, i) ==
  CASE fs.ex[i].k \in {"VNIL", "VFALSE", "VJMP"} -> fs
    [] OTHER -> JumpOnCond(fs, i, 1)
\* where the test jumps from
Tested(fs, g, i, constants) ==
  CASE fs.ex[i].k \in constants -> NoJump
    [] fs.ex[i].k = "VJMP" -> fs.ex[i].info
    [] OTHER -> Pc(g) - 1
TrueLinked(fs, g, i) ==
  LET pc == Tested(fs, g, i, {"VK", "VKNUM", "VTRUE"})
  IN  [Linked(g, g.ex[i].f, pc) EXCEPT !.ex[i].f = Joined(@, pc)]
FalseLinked(fs, g, i) ==
  LET pc == Tested(fs, g, i, {"VNIL", "VFALSE"})
  IN  [Linked(g, g.ex[i].t, pc) EXCEPT !.ex[i].t = Joined(@, pc)]
\* what does not jump goes on here
GoOnTrue(fs, i) == [PatchToHere(fs, fs.ex[i].t) EXCEPT !.ex[i].t = NoJump]
GoOnFalse(fs, i) == [PatchToHere(fs, fs.ex[i].f) EXCEPT !.ex[i].f = NoJump]
JumpIfFalse(fs, i) == GoOnTrue(TrueLinked(fs, TestTrue(fs, i), i), i)
JumpIfTrue(fs, i) == GoOnFalse(FalseLinked(fs, TestFalse(fs, i), i), i)
GoIfTrue(fs, i) == JumpIfFalse(DischargeVars(fs, i), i)
GoIfFalse(fs, i) == JumpIfTrue(DischargeVars(fs, i), i)

\* codenot
NotOf(fs, i) == Relocatable(FreeExp(fs, i), i, Ins("NOT", 0, fs.ex[i].info, 0))
Negated(fs, i) ==
  LET e == fs.ex[i]
  IN  CASE e.k \in {"VNIL", "VFALSE"} -> [fs EXCEPT !.ex[i].k = "VTRUE"]
        [] e.k \in {"VK", "VKNUM", "VTRUE"} -> [fs EXCEPT !.ex[i].k = "VFALSE"]
        [] e.k = "VJMP" -> InvertJump(fs, i)
        [] OTHER -> NotOf(Discharge2AnyReg(fs, i), i)
Swapped(fs, i) == [fs EXCEPT !.ex[i].f = fs.ex[i].t, !.ex[i].t = fs.ex[i].f]
WithoutValues(fs, i) == RemoveValues(RemoveValues(fs, fs.ex[i].f), fs.ex[i].t)
CodeNot(fs, i) == WithoutValues(Swapped(Negated(DischargeVars(fs, i), i), i), i)

\* luaK_indexed
IndexedBy(fs, i, j) == [fs EXCEPT !.ex[i].k = "VINDEXED", !.ex[i].aux = RK(fs, j)]
Indexed(fs, i, j) == IndexedBy(Exp2RK(fs, j), i, j)

Number(op, a, b) ==
  CASE op = "ADD" -> a + b [] op = "SUB" -> a - b [] op = "MUL" -> a * b [] op = "UNM" -> -a
FreeBoth(fs, i, j) ==
  IF RK(fs, i) > RK(fs, j) THEN FreeExp(FreeExp(fs, i), j) ELSE FreeExp(FreeExp(fs, j), i)
\* codearith of two operands, with constfolding
OpIns(fs, op, i, j) == Relocatable(FreeBoth(fs, i, j), i, Ins(op, 0, RK(fs, i), RK(fs, j)))
CodeArith(fs, op, i, j) ==
  IF op # "CONCAT" /\ IsNumeral(fs.ex[i]) /\ IsNumeral(fs.ex[j])
  THEN [fs EXCEPT !.ex[i].nval = Number(op, @, fs.ex[j].nval)]
  ELSE OpIns(Exp2RK(Exp2RK(fs, j), i), op, i, j)
\* and of one
UnaryIns(fs, op, i) == Relocatable(FreeExp(fs, i), i, Ins(op, 0, RK(fs, i), 0))
CodeUnary(fs, op, i) ==
  IF op = "UNM" /\ IsNumeral(fs.ex[i]) THEN [fs EXCEPT !.ex[i].nval = Number(op, @, 0)]
  ELSE UnaryIns(Exp2RK(fs, i), op, i)

\* codecomp: an order that does not hold is the converse one that does
CompIns(fs, op, cond, i, j) ==
  IF cond = 0 /\ op # "EQ" THEN Ins(op, 1, RK(fs, j), RK(fs, i))
  ELSE Ins(op, cond, RK(fs, i), RK(fs, j))
LastJump(fs, i) == SetExp(fs, i, "VJMP", Pc(fs) - 1)
Comparing(fs, op, cond, i, j) ==
  LastJump(CondJump(FreeExp(FreeExp(fs, j), i), CompIns(fs, op, cond, i, j)), i)
CodeComp(fs, op, cond, i, j) == Comparing(Exp2RK(Exp2RK(fs, i), j), op, cond, i, j)

Prefix(fs, op, i) ==
  CASE op = "not" -> CodeNot(fs, i)
    [] OTHER -> CodeUnary(IF op = "-" /\ IsNumeral(fs.ex[i]) THEN fs ELSE Exp2AnyReg(fs, i),
                          IF op = "-" THEN "UNM" ELSE "LEN", i)

Arithmetic == [op \in {"+", "-", "*"} |->
  CASE op = "+" -> "ADD" [] op = "-" -> "SUB" [] op = "*" -> "MUL"]
Comparison == [op \in {"==", "~=", "<", "<=", ">", ">="} |->
  CASE op = "==" -> <<"EQ", 1>> [] op = "~=" -> <<"EQ", 0>> [] op = "<" -> <<"LT", 1>>
    [] op = "<=" -> <<"LE", 1>> [] op = ">" -> <<"LT", 0>> [] op = ">=" -> <<"LE", 0>>]

Infix(fs, op, i) ==
  CASE op = "and" -> GoIfTrue(fs, i)
    [] op = "or" -> GoIfFalse(fs, i)
    [] op = ".." -> Exp2NextReg(fs, i)
    [] op \in DOMAIN Arithmetic /\ IsNumeral(fs.ex[i]) -> fs
    [] OTHER -> Exp2RK(fs, i)

\* luaK_posfix, a chain of concatenations being one instruction
ConcatWith(fs, i, j) ==
  LET e == fs.ex[j]
  IN  IF e.k = "VRELOCABLE" /\ At(fs, e.info).op = "CONCAT"
      THEN SetExp([FreeExp(fs, i) EXCEPT !.code[e.info + 1].b = fs.ex[i].info],
                  i, "VRELOCABLE", e.info)
      ELSE CodeArith(Exp2NextReg(fs, j), "CONCAT", i, j)
CodeConcat(fs, i, j) == ConcatWith(Exp2Val(fs, j), i, j)
Logic(fs, op, i, j) ==
  LET a == fs.ex[i]
      b == fs.ex[j]
  IN  IF op = "and" THEN [Linked(fs, b.f, a.f) EXCEPT !.ex[i] = [b EXCEPT !.f = Joined(@, a.f)]]
      ELSE [Linked(fs, b.t, a.t) EXCEPT !.ex[i] = [b EXCEPT !.t = Joined(@, a.t)]]
CodeLogic(fs, op, i, j) == Logic(DischargeVars(fs, j), op, i, j)
Posfix(fs, op, i, j) == Drop(
  CASE op \in {"and", "or"} -> CodeLogic(fs, op, i, j)
    [] op = ".." -> CodeConcat(fs, i, j)
    [] op \in DOMAIN Arithmetic -> CodeArith(fs, Arithmetic[op], i, j)
    [] op \in DOMAIN Comparison -> CodeComp(fs, Comparison[op][1], Comparison[op][2], i, j))

SetList(fs, base, nelems, tostore) ==
  [Code(fs, Ins("SETLIST", base, IF tostore = MultRet THEN 0 ELSE tostore,
                (nelems - 1) \div FieldsPerFlush + 1))
   EXCEPT !.freereg = base + 1]
=============================================================================
