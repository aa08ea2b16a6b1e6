-------------------------------- MODULE LuaVM -------------------------------
(***************************************************************************)
(* The Lua virtual machine (jni/lua/lvm.c) running what the compiler made, *)
(* one instruction a step, with the functions of the base, table and       *)
(* string libraries its programs use.  Metamethods and coroutines are in   *)
(* LuaCalls, and so is what catches errors: here they end the program.                                                               *)
(*                                                                         *)
(* Registers are places of one stack, whose old contents stay there.       *)
(* Numbers are integers.  The environment gives programs a function that   *)
(* returns what it likes and one that takes what they tell.                *)
(***************************************************************************)
EXTENDS LuaParser, LuaPattern

CONSTANTS
  Answers,      \* what "any" may return
  MaxAnswers    \* how often it may return something else than false

VARIABLES
  stack, frames,    \* values; CallInfos, the running function last
  top,              \* L->top, after a call with open results; or 0
  cells,            \* upvalues: the place of the stack they are, or 0, and the value
  closures,         \* the prototype and the upvalues of each
  tables,           \* tables, the globals first
  maps,             \* what was stored in each: its meaning as a map
  asked, told,      \* what the environment returned, and took
  started

vmVars == <<stack, frames, top, cells, closures, tables, maps, asked, told, started>>

Globals == <<"tab", 1>>
Native(name) == <<"c", name>>
Library == <<"any", "tell", "next", "insert", "remove", "maxn",
             "sub", "rep", "reverse", "find", "match", "gsub">>

ProtoAt(path) == FoldLeft(LAMBDA p, i : p.p[i], proto, path)
Fr == Last(frames)
P == ProtoAt(closures[Fr.cl].path)
I == P.code[Fr.pc + 1]
Op(ops) == frames # <<>> /\ ~Fr.calling /\ I.op \in ops

R(a) == stack[Fr.base + a]
RKOf(x) == IF IsK(x) THEN P.k[x - BitRK + 1] ELSE R(x)
Upval(s, c) == IF c.at = 0 THEN c.val ELSE s[c.at]
Laid(s, at, vals) ==
  [i \in 1 .. Max({Len(s), at + Len(vals) - 1}) |->
     CASE i \in at .. at + Len(vals) - 1 -> vals[i - at + 1]
       [] i \in 1 .. Len(s) /\ i \notin at .. at + Len(vals) - 1 -> s[i]
       [] OTHER -> Nil]
Nils(n) == [i \in 1 .. n |-> Nil]
Fitted(vals, n) == SubSeq(vals \o Nils(n), 1, n)

\* what a step leaves alone
Heap == <<cells, closures, tables, maps>>
World == <<asked, told, started>>
Jumps(offset) == frames' = [frames EXCEPT ![Len(frames)].pc = @ + 1 + offset]
Loads(a, v) ==
  /\ stack' = [stack EXCEPT ![Fr.base + a] = v]
  /\ Jumps(0) /\ UNCHANGED <<top, Heap, World, parserVars>>

(***************************************************************************)
(* Registers, constants, upvalues.                                         *)
(***************************************************************************)
OpMove == Op({"MOVE"}) /\ Loads(I.a, R(I.b))
OpLoadK == Op({"LOADK"}) /\ Loads(I.a, P.k[I.b + 1])
OpLoadBool ==
  /\ Op({"LOADBOOL"})
  /\ stack' = [stack EXCEPT ![Fr.base + I.a] = Bool(I.b = 1)]
  /\ Jumps(I.c) /\ UNCHANGED <<top, Heap, World, parserVars>>
OpLoadNil ==
  /\ Op({"LOADNIL"})
  /\ stack' = Laid(stack, Fr.base + I.a, Nils(Max({1, I.b - I.a + 1})))
  /\ Jumps(0) /\ UNCHANGED <<top, Heap, World, parserVars>>
OpGetUpval ==
  Op({"GETUPVAL"}) /\ Loads(I.a, Upval(stack, cells[closures[Fr.cl].ups[I.b + 1]]))
OpSetUpval ==
  LET u == closures[Fr.cl].ups[I.b + 1]
      c == cells[u]
  IN  /\ Op({"SETUPVAL"})
      /\ IF c.at = 0 THEN cells' = [cells EXCEPT ![u].val = R(I.a)] /\ UNCHANGED stack
         ELSE stack' = [stack EXCEPT ![c.at] = R(I.a)] /\ UNCHANGED cells
      /\ Jumps(0) /\ UNCHANGED <<top, closures, tables, maps, World, parserVars>>

(***************************************************************************)
(* Tables, with luaV_gettable and luaV_settable.                           *)
(***************************************************************************)
SetTable(t, k, v) ==
  /\ t[1] = "tab" /\ k # Nil
  /\ tables' = [tables EXCEPT ![t[2]] = Set(@, k, v)]
  /\ maps' = [maps EXCEPT ![t[2]] = (k :> v) @@ @]
  /\ Jumps(0) /\ UNCHANGED <<stack, top, cells, closures, World, parserVars>>
GetTable(a, t, k) == t[1] = "tab" /\ Loads(a, Get(tables[t[2]], k))
OpGetGlobal == Op({"GETGLOBAL"}) /\ GetTable(I.a, Globals, P.k[I.b + 1])
OpSetGlobal == Op({"SETGLOBAL"}) /\ SetTable(Globals, P.k[I.b + 1], R(I.a))
OpGetTable == Op({"GETTABLE"}) /\ GetTable(I.a, R(I.b), RKOf(I.c))
OpSetTable == Op({"SETTABLE"}) /\ SetTable(R(I.a), RKOf(I.b), RKOf(I.c))
\* luaO_fb2int
Fb2int(x) == IF x < 8 THEN x ELSE ((x % 8) + 8) * 2 ^ (x \div 8 - 1)
OpNewTable ==
  /\ Op({"NEWTABLE"})
  /\ tables' = Append(tables, NewTable(Fb2int(I.b), Fb2int(I.c)))
  /\ maps' = Append(maps, <<>>)
  /\ stack' = [stack EXCEPT ![Fr.base + I.a] = <<"tab", Len(tables) + 1>>]
  /\ Jumps(0) /\ UNCHANGED <<top, cells, closures, World, parserVars>>
OpSelf ==
  /\ Op({"SELF"}) /\ R(I.b)[1] = "tab"
  /\ stack' = [stack EXCEPT ![Fr.base + I.a + 1] = R(I.b),
                            ![Fr.base + I.a] = Get(tables[R(I.b)[2]], RKOf(I.c))]
  /\ Jumps(0) /\ UNCHANGED <<top, Heap, World, parserVars>>
\* the array is made large enough first
SetItems(t, last, vals) ==
  LET u == IF last > Len(t.array) THEN ResizeArray(t, last) ELSE t
  IN  FoldLeft(LAMBDA w, i : Set(w, Num(last - i), vals[Len(vals) - i]), u,
               [i \in DOMAIN vals |-> i - 1])
OpSetList ==
  LET n == IF I.b = 0 THEN top - (Fr.base + I.a) - 1 ELSE I.b
      last == (I.c - 1) * FieldsPerFlush + n
      t == R(I.a)[2]
      vals == [i \in 1 .. n |-> R(I.a + i)]
  IN  /\ Op({"SETLIST"})
      /\ tables' = [tables EXCEPT ![t] = SetItems(@, last, vals)]
      /\ maps' = [maps EXCEPT ![t] =
                    [k \in {Num(last - n + i) : i \in 1 .. n} |-> vals[k[2] - last + n]] @@ @]
      /\ top' = 0 /\ Jumps(0) /\ UNCHANGED <<stack, cells, closures, World, parserVars>>

(***************************************************************************)
(* Operators and tests.                                                    *)
(***************************************************************************)
OpArith ==
  /\ Op({"ADD", "SUB", "MUL"}) /\ RKOf(I.b)[1] = "num" /\ RKOf(I.c)[1] = "num"
  /\ Loads(I.a, Num(Number(I.op, RKOf(I.b)[2], RKOf(I.c)[2])))
OpUnm == Op({"UNM"}) /\ R(I.b)[1] = "num" /\ Loads(I.a, Num(-R(I.b)[2]))
OpNot == Op({"NOT"}) /\ Loads(I.a, Bool(IsFalse(R(I.b))))
OpLen ==
  /\ Op({"LEN"}) /\ R(I.b)[1] \in {"tab", "str"}
  /\ Loads(I.a, Num(IF R(I.b)[1] = "tab" THEN GetN(tables[R(I.b)[2]]) ELSE Len(R(I.b)[2])))
\* luaV_concat, which writes the results over the operands from the last
Text(v) == IF v[1] = "num" THEN ToString(v[2]) ELSE v[2]
OpConcat ==
  LET vals == [i \in 1 .. I.c - I.b + 1 |-> R(I.b + i - 1)]
      all == Str(FoldLeft(LAMBDA s, v : s \o Text(v), "", vals))
  IN  /\ Op({"CONCAT"}) /\ \A v \in Range(vals) : v[1] \in {"num", "str"}
      /\ stack' = [stack EXCEPT ![Fr.base + I.b] = all, ![Fr.base + I.a] = all]
      /\ Jumps(0) /\ UNCHANGED <<top, Heap, World, parserVars>>

\* a test skips the jump after it or takes it
Branches(b) ==
  /\ Jumps(IF b THEN P.code[Fr.pc + 2].b + 1 ELSE 1)
  /\ UNCHANGED <<top, Heap, World, parserVars>>
Compared(op, x, y) ==
  CASE op = "EQ" -> x = y [] op = "LT" -> x[2] < y[2] [] op = "LE" -> x[2] <= y[2]
OpCompare ==
  LET x == RKOf(I.b)
      y == RKOf(I.c)
  IN  /\ Op({"EQ", "LT", "LE"}) /\ (I.op = "EQ" \/ (x[1] = "num" /\ y[1] = "num"))
      /\ Branches(Compared(I.op, x, y) = (I.a = 1)) /\ UNCHANGED stack
OpTest ==
  Op({"TEST"}) /\ Branches(IsFalse(R(I.a)) # (I.c = 1)) /\ UNCHANGED stack
OpTestSet ==
  LET b == IsFalse(R(I.b)) # (I.c = 1)
  IN  /\ Op({"TESTSET"}) /\ Branches(b)
      /\ stack' = IF b THEN [stack EXCEPT ![Fr.base + I.a] = R(I.b)] ELSE stack
OpJmp ==
  Op({"JMP"}) /\ Jumps(I.b) /\ UNCHANGED <<stack, top, Heap, World, parserVars>>

(***************************************************************************)
(* Calls.                                                                  *)
(***************************************************************************)
\* luaF_close
Close(s, level) ==
  [u \in DOMAIN cells |-> IF cells[u].at >= level THEN [at |-> 0, val |-> s[cells[u].at]]
                          ELSE cells[u]]

\* luaD_precall of a Lua function: adjust_varargs puts the fixed parameters
\* above the others, and makes the table "arg" when the function needs it
Fixed(p, args) == Fitted(args, p.numparams)
Extra(p, args) == SubSeq(args, p.numparams + 1, Len(args))
ArgItems(p, args) ==
  [k \in {Num(i) : i \in DOMAIN Extra(p, args)} |-> Extra(p, args)[k[2]]]
  @@ (Str("n") :> Num(Len(Extra(p, args))))
ArgTable(p, args) ==
  LET extra == Extra(p, args)
      t == FoldLeft(LAMBDA u, i : Set(u, Num(i), extra[i]), NewTable(Len(extra), 1),
                    [i \in DOMAIN extra |-> i])
  IN  Set(t, Str("n"), Num(Len(extra)))
Arguments(p, args) ==
  Fixed(p, args) \o (IF p.needsarg THEN <<<<"tab", Len(tables) + 1>>>> ELSE <<>>)
Shifted(p, args) == Nils(p.numparams) \o Extra(p, args)
Enters(callers, s, func, args, nresults) ==
  LET cl == s[func][2]
      p == ProtoAt(closures[cl].path)
      base == func + 1 + (IF p.dots THEN Max({Len(args), p.numparams}) ELSE 0)
      moved == IF p.dots THEN Laid(s, func + 1, Shifted(p, args)) ELSE s
  IN  /\ stack' = Laid(moved, base, Fitted(Arguments(p, args), p.maxstack))
      /\ frames' = Append(callers, [cl |-> cl, func |-> func, base |-> base, pc |-> 0,
                                    nresults |-> nresults, calling |-> FALSE])
      /\ tables' = IF p.needsarg THEN Append(tables, ArgTable(p, args)) ELSE tables
      /\ maps' = IF p.needsarg THEN Append(maps, ArgItems(p, args)) ELSE maps
      /\ top' = 0

\* luaD_poscall: the results go where the function was
Returned(s, func, results, wanted) ==
  IF wanted = MultRet THEN Laid(s, func, results) ELSE Laid(s, func, Fitted(results, wanted))
TopAfter(func, results, wanted) == IF wanted = MultRet THEN func + Len(results) ELSE 0

(***************************************************************************)
(* The functions of the libraries, run at once: what they return, and the  *)
(* entries they store.                                                     *)
(***************************************************************************)
Rawgeti(t, i) == Get(tables[t[2]], Num(i))
\* luaB_next
Next1(t, k) == IF After(tables[t[2]], k) = <<>> THEN <<Nil>> ELSE After(tables[t[2]], k)
\* tinsert and tremove
Insertions(args) ==
  LET n == GetN(tables[args[1][2]]) + 1
      pos == IF Len(args) = 2 THEN n ELSE args[2][2]
      e == IF pos > n THEN pos ELSE n
  IN  [i \in 1 .. Max({0, e - pos}) |-> <<Num(e - i + 1), Rawgeti(args[1], e - i)>>]
      \o <<<<Num(pos), Last(args)>>>>
RemovedAt(args) == IF Len(args) = 1 THEN GetN(tables[args[1][2]]) ELSE args[2][2]
Removals(args) ==
  LET e == GetN(tables[args[1][2]])
      pos == RemovedAt(args)
  IN  IF pos \notin 1 .. e THEN <<>>
      ELSE [i \in 1 .. e - pos |-> <<Num(pos + i - 1), Rawgeti(args[1], pos + i)>>]
           \o <<<<Num(e), Nil>>>>
\* maxn
MaxKey(t) ==
  Max({0} \cup {e[1][2] : e \in {x \in Range(Visited(tables[t[2]], Nil)) : x[1][1] = "num"}})
\* what gsub replaces by
Replacement(args) ==
  LET v == args[3]
  IN  [kind |-> v[1], of |-> IF v[1] = "tab" THEN tables[v[2]] ELSE InText(v)[2]]
Results(name, args) ==
  CASE name = "next" -> Next1(args[1], IF Len(args) = 1 THEN Nil ELSE args[2])
    [] name = "remove" -> IF Removals(args) = <<>> THEN <<>>
                          ELSE <<Rawgeti(args[1], RemovedAt(args))>>
    [] name = "maxn" -> <<Num(MaxKey(args[1]))>>
    [] name \in StringFunctions -> StringCall(name, args, Replacement(args))
    [] OTHER -> <<>>
Fails(name, args) == name \in StringFunctions /\ Error \in Range(Results(name, args))
Stores(name, args) ==
  CASE name = "insert" -> Insertions(args) [] name = "remove" -> Removals(args) [] OTHER -> <<>>

\* precall of a C function, with what follows it in the caller
CallsNative(callers, s, func, args, wanted) ==
  LET name == s[func][2]
      returns(results) == /\ stack' = Returned(s, func, results, wanted)
                          /\ top' = TopAfter(func, results, wanted)
      t == args[1][2]
      es == Stores(name, args)
  IN  /\ s[func][1] = "c"
      /\ frames' = callers
      /\ \/ /\ name = "any"
            /\ \E v \in IF Len(asked) < MaxAnswers THEN Answers ELSE {False} :
                 returns(<<v>>) /\ asked' = Append(asked, v)
            /\ UNCHANGED <<told, tables, maps>>
         \/ /\ name = "tell"
            /\ returns(<<>>) /\ told' = Append(told, args)
            /\ UNCHANGED <<asked, tables, maps>>
         \/ /\ name \notin {"any", "tell"}
            /\ \E results \in {Results(name, args)} : Error \notin Range(results) /\ returns(results)
            /\ tables' = IF es = <<>> THEN tables ELSE
                 [tables EXCEPT ![t] = FoldLeft(LAMBDA u, e : Set(u, e[1], e[2]), @, es)]
            /\ maps' = IF es = <<>> THEN maps ELSE
                 [maps EXCEPT ![t] = FoldLeft(LAMBDA m, e : (e[1] :> e[2]) @@ m, @, es)]
            /\ UNCHANGED <<asked, told>>

Passed(a, b) ==
  IF b = 0 THEN SubSeq(stack, Fr.base + a + 1, top - 1)
  ELSE SubSeq(stack, Fr.base + a + 1, Fr.base + a + b - 1)
Advanced == [frames EXCEPT ![Len(frames)].pc = @ + 1]
OpCall ==
  LET func == Fr.base + I.a
      args == Passed(I.a, I.b)
  IN  /\ Op({"CALL"})
      /\ \/ /\ stack[func][1] = "fun" /\ Enters(Advanced, stack, func, args, I.c - 1)
            /\ UNCHANGED <<asked, told>>
         \/ CallsNative(Advanced, stack, func, args, I.c - 1)
      /\ UNCHANGED <<cells, closures, started, parserVars>>
\* the callee takes the frame of its caller, whose variables are closed
OpTailCall ==
  LET func == Fr.base + I.a
      args == Passed(I.a, I.b)
      moved == Laid(stack, Fr.func, <<stack[func]>> \o args)
  IN  /\ Op({"TAILCALL"})
      /\ \/ /\ stack[func][1] = "fun"
            /\ Enters(Front(frames), moved, Fr.func, args, Fr.nresults)
            /\ cells' = Close(stack, Fr.base)
            /\ UNCHANGED <<asked, told>>
         \/ /\ CallsNative(Advanced, stack, func, args, MultRet)
            /\ UNCHANGED cells
      /\ UNCHANGED <<closures, started, parserVars>>
\* an error in a C function ends the program: luaD_pcall of its host
OpFails ==
  LET func == Fr.base + I.a
  IN  /\ Op({"CALL", "TAILCALL"}) /\ stack[func][1] = "c"
      /\ Fails(stack[func][2], Passed(I.a, I.b))
      /\ cells' = Close(stack, 1)
      /\ stack' = <<Error>> /\ frames' = <<>> /\ top' = 0
      /\ UNCHANGED <<closures, tables, maps, World, parserVars>>
OpReturn ==
  LET results == IF I.b = 0 THEN SubSeq(stack, Fr.base + I.a, top - 1)
                 ELSE SubSeq(stack, Fr.base + I.a, Fr.base + I.a + I.b - 2)
  IN  /\ Op({"RETURN"})
      /\ cells' = Close(stack, Fr.base)
      /\ stack' = Returned(stack, Fr.func, results, Fr.nresults)
      /\ top' = TopAfter(Fr.func, results, Fr.nresults)
      /\ frames' = Front(frames)
      /\ UNCHANGED <<closures, tables, maps, World, parserVars>>
OpVararg ==
  LET n == Fr.base - Fr.func - P.numparams - 1
      vals == SubSeq(stack, Fr.base - n, Fr.base - 1)
  IN  /\ Op({"VARARG"})
      /\ stack' = Laid(stack, Fr.base + I.a, IF I.b = 0 THEN vals ELSE Fitted(vals, I.b - 1))
      /\ top' = IF I.b = 0 THEN Fr.base + I.a + n ELSE 0
      /\ Jumps(0) /\ UNCHANGED <<Heap, World, parserVars>>

OpClose ==
  /\ Op({"CLOSE"})
  /\ cells' = Close(stack, Fr.base + I.a)
  /\ Jumps(0) /\ UNCHANGED <<stack, top, closures, tables, maps, World, parserVars>>
\* the instructions after it say what to capture, with luaF_findupval
OpClosure ==
  LET nups == P.p[I.b + 1].nups
      capture(j) == P.code[Fr.pc + 1 + j]
      open(at) == {u \in DOMAIN cells : cells[u].at = at}
      new == SetToSortSeq({Fr.base + capture(j).b : j \in
               {j \in 1 .. nups : capture(j).op = "MOVE" /\ open(Fr.base + capture(j).b) = {}}}, <)
      place(at) == IF open(at) # {} THEN CHOOSE u \in open(at) : TRUE
                   ELSE Len(cells) + SelectInSeq(new, LAMBDA x : x = at)
      ups == [j \in 1 .. nups |-> IF capture(j).op = "GETUPVAL"
                THEN closures[Fr.cl].ups[capture(j).b + 1] ELSE place(Fr.base + capture(j).b)]
  IN  /\ Op({"CLOSURE"})
      /\ cells' = cells \o [i \in DOMAIN new |-> [at |-> new[i], val |-> Nil]]
      /\ closures' = Append(closures, [path |-> Append(closures[Fr.cl].path, I.b + 1), ups |-> ups])
      /\ stack' = [stack EXCEPT ![Fr.base + I.a] = <<"fun", Len(closures) + 1>>]
      /\ Jumps(nups) /\ UNCHANGED <<top, tables, maps, World, parserVars>>

(***************************************************************************)
(* Loops.                                                                  *)
(***************************************************************************)
OpForPrep ==
  /\ Op({"FORPREP"}) /\ \A i \in 0 .. 2 : R(I.a + i)[1] = "num"
  /\ stack' = [stack EXCEPT ![Fr.base + I.a] = Num(@[2] - R(I.a + 2)[2])]
  /\ Jumps(I.b) /\ UNCHANGED <<top, Heap, World, parserVars>>
OpForLoop ==
  LET step == R(I.a + 2)[2]
      idx == R(I.a)[2] + step
      limit == R(I.a + 1)[2]
      again == IF 0 < step THEN idx <= limit ELSE limit <= idx
  IN  /\ Op({"FORLOOP"})
      /\ stack' = IF again THEN [stack EXCEPT ![Fr.base + I.a] = Num(idx),
                                              ![Fr.base + I.a + 3] = Num(idx)] ELSE stack
      /\ Jumps(IF again THEN I.b ELSE 0) /\ UNCHANGED <<top, Heap, World, parserVars>>
\* luaD_call of the generator, and what the instruction does after it
OpTForLoop ==
  LET func == Fr.base + I.a + 3
      args == <<R(I.a + 1), R(I.a + 2)>>
      s == Laid(stack, func, <<R(I.a)>> \o args)
      callers == [frames EXCEPT ![Len(frames)].calling = TRUE]
  IN  /\ Op({"TFORLOOP"})
      /\ \/ /\ R(I.a)[1] = "fun" /\ Enters(callers, s, func, args, I.c)
            /\ UNCHANGED <<asked, told>>
         \/ CallsNative(callers, s, func, args, I.c)
      /\ UNCHANGED <<cells, closures, started, parserVars>>
TForTest ==
  LET more == R(I.a + 3) # Nil
  IN  /\ frames # <<>> /\ Fr.calling
      /\ stack' = IF more THEN [stack EXCEPT ![Fr.base + I.a + 2] = R(I.a + 3)] ELSE stack
      /\ frames' = [frames EXCEPT ![Len(frames)].calling = FALSE,
                                  ![Len(frames)].pc = @ + 2 + (IF more THEN P.code[@ + 2].b ELSE 0)]
      /\ UNCHANGED <<top, Heap, World, parserVars>>

(***************************************************************************)
(* The main function is called when it has been compiled.                  *)
(***************************************************************************)
VMInit ==
  /\ stack = <<>> /\ frames = <<>> /\ top = 0 /\ cells = <<>> /\ closures = <<>>
  /\ tables = <<FoldLeft(LAMBDA t, name : Set(t, Str(name), Native(name)), NewTable(0, 0), Library)>>
  /\ maps = <<[k \in {Str(name) : name \in Range(Library)} |-> Native(k[2])]>>
  /\ asked = <<>> /\ told = <<>> /\ started = FALSE
CallMain ==
  /\ proto # NoProto /\ ~started /\ started' = TRUE
  /\ closures' = <<[path |-> <<>>, ups |-> <<>>]>>
  /\ stack' = <<<<"fun", 1>>>> \o Nils(proto.maxstack)
  /\ frames' = <<[cl |-> 1, func |-> 1, base |-> 2, pc |-> 0, nresults |-> 0, calling |-> FALSE]>>
  /\ UNCHANGED <<top, cells, tables, maps, asked, told, parserVars>>

VMNext ==
  \/ CallMain
  \/ OpMove \/ OpLoadK \/ OpLoadBool \/ OpLoadNil \/ OpGetUpval \/ OpSetUpval
  \/ OpGetGlobal \/ OpSetGlobal \/ OpGetTable \/ OpSetTable \/ OpNewTable \/ OpSelf \/ OpSetList
  \/ OpArith \/ OpUnm \/ OpNot \/ OpLen \/ OpConcat \/ OpCompare \/ OpTest \/ OpTestSet \/ OpJmp
  \/ OpCall \/ OpTailCall \/ OpFails \/ OpReturn \/ OpVararg \/ OpClose \/ OpClosure
  \/ OpForPrep \/ OpForLoop \/ OpTForLoop \/ TForTest
=============================================================================
