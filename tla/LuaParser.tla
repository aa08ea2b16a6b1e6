------------------------------ MODULE LuaParser -----------------------------
(***************************************************************************)
(* The Lua compiler (jni/lua/lparser.c) on top of the code generator.      *)
(*                                                                         *)
(* It is a recursive descent parser: C functions that call one another and *)
(* generate code on the way.  Here a program is a syntax tree, and todo is *)
(* what the C calls under way still have to do, innermost first: a phrase  *)
(* of the tree, or the rest of a C function with the locals it kept.  A    *)
(* step is a C function up to its first call, or from a call to the next.  *)
(* Tokens, names of positions and limits on sizes are left out.            *)
(***************************************************************************)
EXTENDS LuaCode

CONSTANT Programs       \* the programs to compile, a sequence of chunks

VARIABLES
  prog,         \* the program: its place in Programs
  todo,         \* what is left to do
  funcs,        \* the functions being compiled, the innermost last
  proto         \* the compiled main function

parserVars == <<prog, todo, funcs, proto>>

(***************************************************************************)
(* FuncState.  Besides the code generator's fields: the names of local     *)
(* variables, the first nactvar of which are active, the blocks, and the   *)
(* locals of the C functions for if statements and table constructors.     *)
(***************************************************************************)
NoProto == [code |-> <<>>]
Source == "demo.lua"
OpenFunc == [code |-> <<>>, k |-> <<>>, p |-> <<>>, ups |-> <<>>, ex |-> <<>>,
             jpc |-> NoJump, lasttarget |-> -1, freereg |-> 0, nactvar |-> 0,
             maxstack |-> 2, ok |-> TRUE, act |-> <<>>, bl |-> <<>>, lc |-> <<>>, cc |-> <<>>,
             numparams |-> 0, dots |-> FALSE, needsarg |-> FALSE]

Fs == Last(funcs)
N == Len(Fs.ex)                                 \* the expression on top
Asserted(fs, b) == [fs EXCEPT !.ok = @ /\ b]

\* the next thing to do is a k
Now(k) == todo # <<>> /\ Head(todo)[1] = k
It == Head(todo)
Then(tasks) == todo' = tasks \o Tail(todo)
Makes(fs) == funcs' = [funcs EXCEPT ![Len(funcs)] = fs] /\ UNCHANGED <<prog, proto>>
Makes1(fs) == Makes(fs) /\ Then(<<>>)
Expands(tasks) == Then(tasks) /\ UNCHANGED <<prog, funcs, proto>>

Expr(e) == <<"expr", e>>
OfExpr(k) == Now("expr") /\ It[2][1] = k

\* chunk, block, cond and explist1, as things to do
Chunk(ss) == FlattenSeq([i \in DOMAIN ss |-> <<ss[i], <<"end">>>>])
Block(ss) == <<<<"enter", FALSE>>>> \o Chunk(ss) \o <<<<"leave">>>>
Cond(e) == <<Expr(e), <<"condend">>>>
NextRegs(es) == FlattenSeq([i \in DOMAIN es |-> <<Expr(es[i]), <<"nextdrop">>>>])
ExpList(es) == IF es = <<>> THEN <<<<"void">>>> ELSE Front(NextRegs(es))

(***************************************************************************)
(* Variables, blocks, functions.                                           *)
(***************************************************************************)
NewLocals(fs, names) == [fs EXCEPT !.act = SubSeq(@, 1, fs.nactvar) \o names]
AdjustLocalVars(fs, n) == [fs EXCEPT !.nactvar = @ + n]

EnterBlock(fs, breakable) ==
  [Asserted(fs, fs.freereg = fs.nactvar) EXCEPT !.bl = Append(@,
     [breaks |-> NoJump, breakable |-> breakable, nactvar |-> fs.nactvar, upval |-> FALSE])]
LeaveBlock(fs) ==
  LET bl == Last(fs.bl)
      f == [Asserted(fs, ~(bl.breakable /\ bl.upval))
            EXCEPT !.bl = Front(@), !.nactvar = bl.nactvar]
      g == IF bl.upval THEN Code(f, Ins("CLOSE", bl.nactvar, 0, 0)) ELSE f
  IN  PatchToHere([g EXCEPT !.freereg = bl.nactvar], bl.breaks)

\* searchvar and markupval
SearchVar(fs, n) == Max({-1} \cup {i \in 0 .. fs.nactvar - 1 : fs.act[i + 1] = n})
MarkUpval(fs, v) ==
  LET b == Max({0} \cup {i \in DOMAIN fs.bl : fs.bl[i].nactvar <= v})
  IN  IF b = 0 THEN fs ELSE [fs EXCEPT !.bl[b].upval = TRUE]
\* indexupvalue
WithUpval(fs, u) == IF u \in Range(fs.ups) THEN fs ELSE [fs EXCEPT !.ups = Append(@, u)]
IndexUpvalue(fs, u) == SelectInSeq(fs.ups, LAMBDA x : x = u) - 1

\* singlevaraux: the function a name belongs to, and what each function
\* below it captures to reach it
Home(n) == Max({0} \cup {d \in DOMAIN funcs : SearchVar(funcs[d], n) >= 0})
Captured(d, v) ==
  FoldLeft(LAMBDA acc, i :
             LET f == WithUpval(acc.fss[i], acc.u)
             IN  [fss |-> [acc.fss EXCEPT ![i] = f], u |-> <<"VUPVAL", IndexUpvalue(f, acc.u)>>],
           [fss |-> [funcs EXCEPT ![d] = MarkUpval(@, v)], u |-> <<"VLOCAL", v>>],
           [i \in 1 .. Len(funcs) - d |-> d + i])
SingleVar ==
  LET n == It[2][2]
      d == Home(n)
      v == SearchVar(funcs[d], n)
      c == Captured(d, v)
      f == AddK(Fs, Str(n))
  IN  /\ OfExpr("name")
      /\ \/ d = 0 /\ Makes1(Push(f, Exp("VGLOBAL", IndexK(f, Str(n)))))
         \/ d = Len(funcs) /\ Makes1(Push(Fs, Exp("VLOCAL", v)))
         \/ /\ d \in 1 .. Len(funcs) - 1
            /\ funcs' = [c.fss EXCEPT ![Len(funcs)] = Push(@, Exp("VUPVAL", c.u[2]))]
            /\ Then(<<>>) /\ UNCHANGED <<prog, proto>>

\* body: open_func, and parlist, where a vararg function has a local "arg";
\* then its statements, and close_func
Params(params, dots) == IF dots THEN params \o <<"arg">> ELSE params
OpenedFunc(params, dots) ==
  LET f == NewLocals([OpenFunc EXCEPT !.dots = dots, !.needsarg = dots,
                                      !.numparams = Len(params)], Params(params, dots))
      n == Len(Params(params, dots))
  IN  ReserveRegs(AdjustLocalVars(f, n), n)
Body ==
  LET e == It[2]
  IN  /\ OfExpr("func")
      /\ funcs' = Append(funcs, OpenedFunc(e[2], e[3]))
      /\ Then(Chunk(e[4]) \o <<<<"closefunc">>>>)
      /\ UNCHANGED <<prog, proto>>

Closed(fs) ==
  LET f == CodeRet([fs EXCEPT !.nactvar = 0], 0, 0)
  IN  [source |-> Source, code |-> f.code, k |-> f.k, p |-> f.p, nups |-> Len(f.ups), maxstack |-> f.maxstack,
       numparams |-> f.numparams, dots |-> f.dots, needsarg |-> f.needsarg,
       ok |-> f.ok /\ f.bl = <<>> /\ f.ex = <<>>]
\* pushclosure, the captured variables following as instructions
CaptureIns(u) == Ins(IF u[1] = "VLOCAL" THEN "MOVE" ELSE "GETUPVAL", 0, u[2], 0)
PushClosure(fs, func, p) ==
  LET f == Relocatable(Push([fs EXCEPT !.p = Append(@, p)], Exp("VVOID", 0)), Len(fs.ex) + 1,
                       Ins("CLOSURE", 0, Len(fs.p), 0))
  IN  FoldLeft(LAMBDA g, u : Code(g, CaptureIns(u)), f, func.ups)
CloseFunc ==
  /\ Now("closefunc")
  /\ funcs' = Append(SubSeq(funcs, 1, Len(funcs) - 2),
                     PushClosure(funcs[Len(funcs) - 1], Fs, Closed(Fs)))
  /\ Then(<<>>) /\ UNCHANGED <<prog, proto>>
\* the end of luaY_parser
CloseMain ==
  /\ Now("closemain")
  /\ proto' = Closed(Fs) /\ funcs' = <<>> /\ Then(<<>>) /\ UNCHANGED prog

(***************************************************************************)
(* Expressions.                                                            *)
(***************************************************************************)
Literal(fs, e) ==
  CASE e[1] = "num" -> Push(fs, [Exp("VKNUM", 0) EXCEPT !.nval = e[2]])
    [] e[1] = "str" -> LET f == AddK(fs, e) IN Push(f, Exp("VK", IndexK(f, e)))
    [] e[1] = "nil" -> Push(fs, Exp("VNIL", 0))
    [] e[1] = "true" -> Push(fs, Exp("VTRUE", 0))
    [] e[1] = "false" -> Push(fs, Exp("VFALSE", 0))
SimpleExp ==
  /\ Now("expr") /\ It[2][1] \in {"num", "str", "nil", "true", "false"}
  /\ Makes1(Literal(Fs, It[2]))
DotsExp ==
  /\ OfExpr("dots")
  /\ Makes1(Push(Code([Fs EXCEPT !.needsarg = FALSE], Ins("VARARG", 0, 1, 0)),
                 Exp("VVARARG", Pc(Fs))))

\* prefixexp and primaryexp
Parens == OfExpr("paren") /\ Expands(<<Expr(It[2][2]), <<"discharge">>>>)
ParensEnd == Now("discharge") /\ Makes1(DischargeVars(Fs, N))
IndexExp ==
  OfExpr("index") /\ Expands(<<Expr(It[2][2]), <<"anyreg">>, Expr(It[2][3]), <<"indexed">>>>)
IndexedObject == Now("anyreg") /\ Makes1(Exp2AnyReg(Fs, N))
\* yindex, or a name
IndexedEnd == Now("indexed") /\ Makes1(Drop(Indexed(Exp2Val(Fs, N), N - 1, N)))
CallExp ==
  OfExpr("call")
  /\ Expands(<<Expr(It[2][2]), <<"nextreg">>>> \o ExpList(It[2][3]) \o <<<<"callend">>>>)
MethodExp ==
  OfExpr("method")
  /\ Expands(<<Expr(It[2][2]), <<"self", It[2][3]>>>> \o ExpList(It[2][4]) \o <<<<"callend">>>>)
MethodName ==
  LET f == AddK(Fs, Str(It[2]))
  IN  Now("self") /\ Makes1(Self(f, N, Exp("VK", IndexK(f, Str(It[2])))))
\* funcargs, after the arguments
CallIns(fs, i, open) ==
  LET base == fs.ex[i].info
  IN  [Code(Asserted(fs, fs.ex[i].k = "VNONRELOC"),
            Ins("CALL", base, IF open THEN 0 ELSE fs.freereg - base, 2))
       EXCEPT !.ex = Append(SubSeq(@, 1, i - 1), Exp("VCALL", Pc(fs))), !.freereg = base + 1]
FuncArgs(fs, i, j) ==
  LET e == fs.ex[j]
  IN  CallIns(CASE HasMultRet(e) -> SetReturns(fs, j, MultRet)
                [] e.k = "VVOID" -> fs
                [] OTHER -> Exp2NextReg(fs, j), i, HasMultRet(e))
CallEnd == Now("callend") /\ Makes1(FuncArgs(Fs, N - 1, N))

\* subexpr
PrefixExp == OfExpr("un") /\ Expands(<<Expr(It[2][3]), <<"prefix", It[2][2]>>>>)
PrefixEnd == Now("prefix") /\ Makes1(Prefix(Fs, It[2], N))
BinaryExp ==
  LET op == It[2][2]
  IN  OfExpr("bin")
      /\ Expands(<<Expr(It[2][3]), <<"infix", op>>, Expr(It[2][4]), <<"posfix", op>>>>)
InfixExp == Now("infix") /\ Makes1(Infix(Fs, It[2], N))
BinaryEnd == Now("posfix") /\ Makes1(Posfix(Fs, It[2], N - 1, N))

\* explist1
NoExp == Now("void") /\ Makes1(Push(Fs, Exp("VVOID", 0)))
NextReg == Now("nextreg") /\ Makes1(Exp2NextReg(Fs, N))
NextRegDrop == Now("nextdrop") /\ Makes1(Drop(Exp2NextReg(Fs, N)))

(***************************************************************************)
(* Table constructors.  The table is the expression below the last item,   *)
(* which waits for the next one: ConsControl.                              *)
(***************************************************************************)
CC == Last(Fs.cc)
Constructor ==
  LET f == Exp2NextReg(Push(Code(Fs, Ins("NEWTABLE", 0, 0, 0)), Exp("VRELOCABLE", Pc(Fs))), N + 1)
      items == It[2][2]
  IN  /\ OfExpr("table")
      /\ Makes(Push([f EXCEPT !.cc = Append(@, [pc |-> Pc(Fs), na |-> 0, nh |-> 0, tostore |-> 0])],
                    Exp("VVOID", 0)))
      /\ Then(FlattenSeq([i \in DOMAIN items |-> <<<<"closefield">>, items[i]>>])
              \o <<<<"lastfield">>>>)
CloseListField(fs, i) ==
  LET cc == Last(fs.cc)
      f == [Exp2NextReg(fs, i) EXCEPT !.ex[i].k = "VVOID"]
  IN  CASE fs.ex[i].k = "VVOID" -> fs
        [] fs.ex[i].k # "VVOID" /\ cc.tostore = FieldsPerFlush ->
             [SetList(f, fs.ex[i - 1].info, cc.na, cc.tostore)
              EXCEPT !.cc[Len(fs.cc)].tostore = 0]
        [] OTHER -> f
CloseField == Now("closefield") /\ Makes1(CloseListField(Fs, N))

ListField == Now("item") /\ Expands(<<Expr(It[2]), <<"listfield">>>>)
ListFieldEnd ==
  /\ Now("listfield")
  /\ Makes1([Fs EXCEPT !.ex = Append(SubSeq(@, 1, N - 2), Last(@)),
                       !.cc[Len(Fs.cc)].na = @ + 1, !.cc[Len(Fs.cc)].tostore = @ + 1])
RecField ==
  Now("rec") /\ Expands(<<Expr(It[2]), <<"reckey">>, Expr(It[3]), <<"recend", Fs.freereg>>>>)
RecFieldKey == Now("reckey") /\ Makes1(Exp2RK(Exp2Val(Fs, N), N))
Recorded(fs, j) ==
  Code(fs, Ins("SETTABLE", fs.ex[j - 3].info, RK(fs, j - 1), RK(fs, j)))
RecFieldEnd ==
  /\ Now("recend")
  /\ Makes1([Drop(Drop(Recorded(Exp2RK(Fs, N), N)))
             EXCEPT !.freereg = It[2], !.cc[Len(Fs.cc)].nh = @ + 1])

LastListField(fs, i) ==
  LET cc == Last(fs.cc)
      reg == fs.ex[i - 1].info
      open == HasMultRet(fs.ex[i])
  IN  CASE cc.tostore = 0 -> fs
        [] cc.tostore # 0 /\ open ->
             [SetList(SetReturns(fs, i, MultRet), reg, cc.na, MultRet)
              EXCEPT !.cc[Len(fs.cc)].na = @ - 1]
        [] OTHER -> SetList(IF fs.ex[i].k = "VVOID" THEN fs ELSE Exp2NextReg(fs, i),
                            reg, cc.na, cc.tostore)
\* luaO_int2fb: three bits and an exponent, rounding up
Int2fb(x) ==
  LET up(e) == (x + 2 ^ e - 1) \div 2 ^ e
      e == Min({n \in 0 .. x : up(n) < 16})
  IN  IF up(e) < 8 THEN up(e) ELSE (e + 1) * 8 + up(e) - 8
ConstructorEnd ==
  LET f == LastListField(Fs, N)
      cc == Last(f.cc)
  IN  /\ Now("lastfield")
      /\ Makes1([Drop(f) EXCEPT !.code[cc.pc + 1].b = Int2fb(cc.na),
                                !.code[cc.pc + 1].c = Int2fb(cc.nh), !.cc = Front(@)])

(***************************************************************************)
(* Statements.                                                             *)
(***************************************************************************)
\* chunk, after each statement
StatementEnd ==
  /\ Now("end")
  /\ Makes1([Asserted(Fs, Fs.maxstack >= Fs.freereg /\ Fs.freereg >= Fs.nactvar)
             EXCEPT !.freereg = Fs.nactvar])
Enter == Now("enter") /\ Makes1(EnterBlock(Fs, It[2]))
Leave == Now("leave") /\ Makes1(LeaveBlock(Fs))
DoStat == Now("do") /\ Expands(Block(It[2]))

\* adjust_assign of the last expression i to nvars variables
Reserved(fs, n) == IF n > 1 THEN ReserveRegs(fs, n - 1) ELSE fs
Nilled(fs, n) == IF n > 0 THEN CodeNil(ReserveRegs(fs, n), fs.freereg, n) ELSE fs
AdjustAssign(fs, i, nvars, nexps) ==
  LET e == fs.ex[i]
      more == Max({0, nvars - nexps + 1})
  IN  IF HasMultRet(e) THEN Reserved(SetReturns(fs, i, more), more)
      ELSE Nilled(IF e.k = "VVOID" THEN fs ELSE Exp2NextReg(fs, i), nvars - nexps)

LocalStat ==
  /\ Now("local")
  /\ Makes(NewLocals(Fs, It[2]))
  /\ Then(ExpList(It[3]) \o <<<<"localend", Len(It[2]), Len(It[3])>>>>)
LocalEnd ==
  Now("localend")
  /\ Makes1(Drop(AdjustLocalVars(AdjustAssign(Fs, N, It[2], It[3]), It[2])))
LocalFunc ==
  LET f == AdjustLocalVars(ReserveRegs(NewLocals(Fs, <<It[2]>>), 1), 1)
  IN  /\ Now("localfunc")
      /\ Makes(Push(f, Exp("VLOCAL", Fs.freereg)))
      /\ Then(<<Expr(It[3]), <<"store">>>>)
\* funcstat, a method having a parameter of its own
FuncStat ==
  /\ Now("function")
  /\ Expands(<<Expr(It[2]),
               Expr(IF It[3] THEN [It[4] EXCEPT ![2] = <<"self">> \o @] ELSE It[4]), <<"store">>>>)
StoreFunc == Now("store") /\ Makes1(Drop(Drop(StoreVar(Fs, N - 1, N))))

\* check_conflict: a local that is assigned and also indexes or is indexed
\* by an earlier target is copied
Targets(fs, n) == {i \in Len(fs.ex) - n .. Len(fs.ex) - 1 : fs.ex[i].k = "VINDEXED"}
Copied(fs, i, n) ==
  LET v == Last(fs.ex)
      e == fs.ex[i]
      here == i \in Targets(fs, n) /\ v.k = "VLOCAL"
  IN  [e EXCEPT !.info = IF here /\ e.info = v.info THEN fs.freereg ELSE @,
                !.aux = IF here /\ e.aux = v.info THEN fs.freereg ELSE @]
CheckConflict(fs, n) ==
  LET v == Last(fs.ex)
      f == [fs EXCEPT !.ex = [i \in DOMAIN @ |-> Copied(fs, i, n)]]
  IN  IF f.ex = fs.ex THEN fs
      ELSE ReserveRegs(Code(f, Ins("MOVE", fs.freereg, v.info, 0)), 1)
Conflict == Now("conflict") /\ Makes1(CheckConflict(Fs, It[2]))

AssignStat ==
  LET vars == It[2]
      es == It[3]
      targets == [i \in DOMAIN vars |->
                    IF i = 1 THEN <<Expr(vars[1])>> ELSE <<Expr(vars[i]), <<"conflict", i - 1>>>>]
  IN  /\ Now("assign")
      /\ Expands(FlattenSeq(targets) \o ExpList(es) \o <<<<"assignlast", Len(vars), Len(es)>>>>
                 \o [i \in 1 .. Len(vars) - 1 |-> <<"assignreg">>])
\* the last target gets the last expression, or a register when the
\* numbers differ
StoreTop(fs, v) ==
  [StoreVar(fs, v, Len(fs.ex)) EXCEPT !.ex = SubSeq(@, 1, v - 1)]
FromReg(fs) == Push(fs, Exp("VNONRELOC", fs.freereg - 1))
Adjusted(fs, i, nvars, nexps) ==
  [AdjustAssign(fs, i, nvars, nexps) EXCEPT !.freereg = @ - Max({0, nexps - nvars})]
AssignLast ==
  /\ Now("assignlast")
  /\ Makes1(StoreTop(IF It[2] = It[3] THEN SetOneRet(Fs, N)
                     ELSE FromReg(Adjusted(Fs, N, It[2], It[3])), N - 1))
AssignReg == Now("assignreg") /\ Makes1(StoreTop(FromReg(Fs), N))

CallStat == Now("callstat") /\ Expands(<<Expr(It[2]), <<"callstatend">>>>)
CallStatEnd == Now("callstatend") /\ Makes1(Drop([Fs EXCEPT !.code[Fs.ex[N].info + 1].c = 1]))

\* cond: the false exits stay in the expression
CondEnd ==
  /\ Now("condend")
  /\ Makes1(GoIfTrue([Fs EXCEPT !.ex[N].k = IF @ = "VNIL" THEN "VFALSE" ELSE @], N))

\* breakstat out of the innermost loop, closing what was captured
InnermostLoop(fs) == Max({i \in DOMAIN fs.bl : fs.bl[i].breakable})
BreakJump(fs, b) ==
  [Linked(fs, fs.bl[b].breaks, Pc(fs) - 1) EXCEPT !.bl[b].breaks = Joined(@, Pc(fs) - 1)]
\* a slip: captured variables stay open
BreakingOpen(fs) == BreakJump(Jump(fs), InnermostLoop(fs))
Breaking(fs) ==
  LET b == InnermostLoop(fs)
      upval == \E i \in b + 1 .. Len(fs.bl) : fs.bl[i].upval
  IN  BreakJump(Jump(IF upval THEN Code(fs, Ins("CLOSE", fs.bl[b].nactvar, 0, 0)) ELSE fs), b)
BreakStat == Now("break") /\ Makes1(Breaking(Fs))

WhileStat ==
  /\ Now("while")
  /\ Makes(GetLabel(Fs))
  /\ Then(Cond(It[2]) \o <<<<"enter", TRUE>>>> \o Block(It[3]) \o <<<<"whileend", Pc(Fs)>>>>)
WhileEnd ==
  LET f == Jump(Fs)
  IN  Now("whileend")
      /\ Makes1(Drop(PatchToHere(LeaveBlock(PatchList(f, Pc(f) - 1, It[2])), Fs.ex[N].f)))

RepeatStat ==
  /\ Now("repeat")
  /\ Makes(GetLabel(Fs))
  /\ Then(<<<<"enter", TRUE>>, <<"enter", FALSE>>>> \o Chunk(It[2]) \o Cond(It[3])
          \o <<<<"until", Pc(Fs)>>>>)
Until(fs, exit, init) ==
  LET f == Jump(LeaveBlock(PatchToHere(Breaking(fs), exit)))
  IN  IF Last(fs.bl).upval THEN PatchList(f, Pc(f) - 1, init)
      ELSE PatchList(LeaveBlock(fs), exit, init)
RepeatEnd == Now("until") /\ Makes1(Drop(LeaveBlock(Until(Fs, Fs.ex[N].f, It[2]))))

\* ifstat: the jumps to its end are in fs.lc
IfStat ==
  LET clauses == It[2]
      tests == [i \in DOMAIN clauses |-> Cond(clauses[i][1]) \o Block(clauses[i][2])]
      last == IF It[3] = <<>> THEN <<<<"fi">>>>
              ELSE <<<<"escape">>>> \o Block(It[3][1]) \o <<<<"endif">>>>
  IN  /\ Now("if")
      /\ Makes([Fs EXCEPT !.lc = Append(@, NoJump)])
      /\ Then(FlattenSeq([i \in DOMAIN tests |->
                IF i = 1 THEN tests[1] ELSE <<<<"escape">>>> \o tests[i]]) \o last)
Escaping(fs, list) ==
  [Linked(fs, Last(fs.lc), list) EXCEPT !.lc[Len(fs.lc)] = Joined(@, list)]
Escape ==
  LET f == Jump(Fs)
  IN  Now("escape") /\ Makes1(Drop(PatchToHere(Escaping(f, Pc(f) - 1), Fs.ex[N].f)))
LeaveIf(fs) == [PatchToHere(fs, Last(fs.lc)) EXCEPT !.lc = Front(@)]
EndIf ==
  \/ Now("endif") /\ Makes1(LeaveIf(Fs))
  \/ Now("fi") /\ Makes1(Drop(LeaveIf(Escaping(Fs, Fs.ex[N].f))))

\* fornum and forlist, with three variables of their own
ForNum ==
  LET es == It[3]
  IN  /\ Now("for")
      /\ Makes(NewLocals(EnterBlock(Fs, TRUE), <<"(for)", "(for)", "(for)", It[2]>>))
      /\ Then(NextRegs(es) \o (IF Len(es) = 2 THEN <<<<"step1">>>> ELSE <<>>)
              \o <<<<"forbody", Fs.freereg, 1, TRUE, It[4]>>, <<"leave">>>>)
ForStep ==
  LET f == AddK(Fs, Num(1))
  IN  Now("step1")
      /\ Makes1(ReserveRegs(Code(f, Ins("LOADK", f.freereg, IndexK(f, Num(1)), 0)), 1))
ForList ==
  /\ Now("forin")
  /\ Makes(NewLocals(EnterBlock(Fs, TRUE), <<"(for)", "(for)", "(for)">> \o It[2]))
  /\ Then(ExpList(It[3]) \o
          <<<<"forgen", Len(It[3])>>, <<"forbody", Fs.freereg, Len(It[2]), FALSE, It[4]>>,
            <<"leave">>>>)
ForGenerators ==
  Now("forgen") /\ Makes1(Drop(CheckStack(AdjustAssign(Fs, N, 3, It[2]), 3)))
\* forbody
ForBody ==
  LET nvars == It[3]
      f == AdjustLocalVars(Fs, 3)
      g == IF It[4] THEN Code(f, Ins("FORPREP", It[2], NoJump, 0)) ELSE Jump(f)
  IN  /\ Now("forbody")
      /\ Makes(ReserveRegs(AdjustLocalVars(EnterBlock(g, FALSE), nvars), nvars))
      /\ Then(Block(It[5]) \o <<<<"forend", It[2], nvars, It[4], Pc(g) - 1>>>>)
LoopBack(fs, prep) == PatchList(fs, Pc(fs) - 1, prep + 1)
Loop(fs, base, nvars, isnum, prep) ==
  LET f == PatchToHere(LeaveBlock(fs), prep)
  IN  LoopBack(IF isnum THEN Code(f, Ins("FORLOOP", base, NoJump, 0))
               ELSE Jump(Code(f, Ins("TFORLOOP", base, 0, nvars))), prep)
ForEnd == Now("forend") /\ Makes1(Loop(Fs, It[2], It[3], It[4], It[5]))

\* retstat; a single call becomes a tail call
RetStat == Now("return") /\ Expands(ExpList(It[2]) \o <<<<"ret", Len(It[2])>>>>)
RetAll(fs, i, tail) ==
  CodeRet(IF ~tail THEN fs
          ELSE Asserted([fs EXCEPT !.code[fs.ex[i].info + 1].op = "TAILCALL"],
                        At(fs, fs.ex[i].info).a = fs.nactvar), fs.nactvar, MultRet)
RetFrom(fs, i) == CodeRet(fs, fs.ex[i].info, 1)
RetMany(fs, nret) ==
  CodeRet(Asserted(fs, nret = fs.freereg - fs.nactvar), fs.nactvar, nret)
Returning(fs, i, nret) ==
  LET e == fs.ex[i]
  IN  CASE nret = 0 -> CodeRet(fs, 0, 0)
        [] HasMultRet(e) -> RetAll(SetReturns(fs, i, MultRet), i, e.k = "VCALL" /\ nret = 1)
        [] nret = 1 /\ ~HasMultRet(e) -> RetFrom(Exp2AnyReg(fs, i), i)
        [] OTHER -> RetMany(Exp2NextReg(fs, i), nret)
RetEnd == Now("ret") /\ Makes1(Drop(Returning(Fs, N, It[2])))

(***************************************************************************)
(* luaY_parser.                                                            *)
(***************************************************************************)
ParserInit ==
  /\ prog \in DOMAIN Programs
  /\ todo = Chunk(Programs[prog]) \o <<<<"closemain">>>>
  /\ funcs = <<[OpenFunc EXCEPT !.dots = TRUE]>>
  /\ proto = NoProto

ParserNext ==
  \/ SingleVar \/ Body \/ CloseFunc \/ CloseMain
  \/ SimpleExp \/ DotsExp \/ Parens \/ ParensEnd
  \/ IndexExp \/ IndexedObject \/ IndexedEnd \/ CallExp \/ MethodExp \/ MethodName \/ CallEnd
  \/ PrefixExp \/ PrefixEnd \/ BinaryExp \/ InfixExp \/ BinaryEnd
  \/ NoExp \/ NextReg \/ NextRegDrop
  \/ Constructor \/ CloseField \/ ListField \/ ListFieldEnd
  \/ RecField \/ RecFieldKey \/ RecFieldEnd \/ ConstructorEnd
  \/ StatementEnd \/ Enter \/ Leave \/ DoStat
  \/ LocalStat \/ LocalEnd \/ LocalFunc \/ FuncStat \/ StoreFunc
  \/ AssignStat \/ Conflict \/ AssignLast \/ AssignReg \/ CallStat \/ CallStatEnd
  \/ CondEnd \/ BreakStat \/ WhileStat \/ WhileEnd \/ RepeatStat \/ RepeatEnd
  \/ IfStat \/ Escape \/ EndIf
  \/ ForNum \/ ForStep \/ ForList \/ ForGenerators \/ ForBody \/ ForEnd
  \/ RetStat \/ RetEnd
=============================================================================
