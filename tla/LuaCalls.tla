------------------------------ MODULE LuaCalls ------------------------------
(***************************************************************************)
(* Calls in the Lua interpreter: the call frames of a thread, the          *)
(* protected calls, errors and their handlers, open upvalues, coroutines   *)
(* and the limits on nesting (jni/lua/ldo.c, lvm.c, lfunc.c, lapi.c and    *)
(* the callers in lbaselib.c; Java comes in through luajava.c).            *)
(*                                                                         *)
(* A Lua function never recurses on the C stack, so one activation of      *)
(* luaV_execute runs many Lua frames; a C function, a metamethod or an     *)
(* iterator that calls Lua adds a luaD_call.  The C stack is the variable  *)
(* cs: a longjmp cuts it, everything else must agree with it.              *)
(*                                                                         *)
(* What a Lua function does between two calls is its own business: a call  *)
(* instruction finds its callee and arguments in the registers from        *)
(* register 1 on, and which they are is chosen when it runs.               *)
(***************************************************************************)
EXTENDS LuaApi, FiniteSets

CONSTANTS
  MaxCalls,     \* LUAI_MAXCALLS: call frames of a thread (luaconf.h:437)
  ErrorCalls,   \* frames left to handle the overflow with
  MaxCCalls,    \* LUAI_MAXCCALLS: nested luaD_call and lua_resume
  ErrCCalls,    \* MaxCCalls + MaxCCalls / 8 (ldo.c:374)
  MaxStack,     \* maxstacksize of the Lua functions
  Calls,        \* callees with their arguments, as a program may load them
  Iterators, Metamethods, Entries, \* those of for loops, operators and Java
  MaxFrames,    \* bound on the frames of the two threads together
  Wants         \* numbers of results a call may want

MultRet == -1

ASSUME LimitsOrdered ==
  /\ {MinStack, MaxCalls, ErrorCalls, MaxCCalls, ErrCCalls, MaxStack} \subseteq Nat
  /\ MaxCCalls < ErrCCalls /\ MaxCalls > 1 /\ ErrorCalls > 0
  /\ MaxStack > 1              \* registers 0 and 1 are always there (lparser.c:346)
ASSUME ProgramAssumption ==
  /\ \A c \in Calls \cup Entries \cup Metamethods : c \in Seq(STRING) /\ c # <<>>
  /\ Wants \subseteq Nat \cup {MultRet}

VARIABLES
  th,           \* lua_State of each thread
  cs            \* activations of C functions, the running one last
\* under, in a frame, is the stack up to the function called, and in a
\* protected call the stack its caller left below it; captured are the slots a
\* frame's closures share.  Both are history, which no step reads.

vars == <<th, cs>>

Threads == {"main", "co"}

\* Values: a Lua function with one parameter and one with varargs, a C
\* function, pcall, xpcall, coroutine.wrap, the function it returned, yield,
\* and a table with a __call metamethod.
LuaFunctions == {"L", "V"}
CFunctions == {"C", "pcall", "xpcall", "wrap", "wrapped", "yield"}
IsFunction(v) == v \in LuaFunctions \cup CFunctions
Callable == "T"
CallMethod == "C"
ErrErr == "error in error handling"
Message == "message"

Here == Last(cs)
Now == th[Here.t]
M == [th |-> th, cs |-> cs]
Become(m) == th' = m.th /\ cs' = m.cs

Update(m, t, T) == [m EXCEPT !.th[t] = T]
Enter(m, a) == [m EXCEPT !.cs = Append(@, a)]
Leave(m) == [m EXCEPT !.cs = Front(@)]
\* the caller of a finished lua_call, lua_pcall or lua_resume goes on
Answer(m, how) == [m EXCEPT !.cs[Len(m.cs)].pc = how]

Slots(T, from, to) == SubSeq(T.stk, from, to)
\* L->top = L->ci->top; register 1 and those above are temporaries, loaded
\* again before they are used, and what is in them is forgotten here
ToFrameTop(T) == CutTo(CutTo(T, T.base + 1), Frame(T).top)
\* adjustresults
AdjustResults(T, want) == IF want = MultRet THEN CheckStack(T, 0) ELSE T

\* luaF_close: the upvalues from level on take their value with them
Close(T, level) == [T EXCEPT !.open = {p \in @ : p < level}]

\* luaF_findupval; a frame remembers in captured what it asked for
FindUpval(T, level) ==
  [T EXCEPT !.open = @ \cup {level}, !.ci[Len(T.ci)].captured = @ \cup {level}]

\* restore_stack_limit
RestoreStackLimit(T) ==
  [T EXCEPT !.over = @ /\ Len(T.ci) >= MaxCalls]

(***************************************************************************)
(* Errors.  luaD_throw jumps to the innermost protected call of the        *)
(* thread: luaD_pcall or lua_resume.                                       *)
(***************************************************************************)
ThrowTo(m) == CHOOSE i \in DOMAIN m.cs :
  /\ m.cs[i].k \in {"pcall", "resume"}
  /\ \A j \in i + 1 .. Len(m.cs) : m.cs[j].k \notin {"pcall", "resume"}

\* Slips in it: the error value one slot too low; the upvalues left open.
CaughtLower(T, a, v) ==
  [Close(T, a.top) EXCEPT !.stk = Append(SubSeq(@, 1, a.top - 2), v),
                          !.nC = a.nC, !.ci = SubSeq(@, 1, a.ci),
                          !.base = T.ci[a.ci].base, !.ef = a.ef]
CaughtOpen(T, a, v) ==
  [T EXCEPT !.stk = Append(SubSeq(@, 1, a.top - 1), v),
            !.nC = a.nC, !.ci = SubSeq(@, 1, a.ci),
            !.base = T.ci[a.ci].base, !.ef = a.ef]

\* luaD_pcall, status # 0
Caught(T, a, v) ==
  RestoreStackLimit(
    [Close(T, a.top) EXCEPT !.stk = Append(SubSeq(@, 1, a.top - 1), v),
                            !.nC = a.nC,
                            !.ci = SubSeq(@, 1, a.ci),
                            !.base = T.ci[a.ci].base,
                            !.ef = a.ef])

\* lua_resume, status # 0
Died(T, v) ==
  LET T1 == [PushValueOf(T, v) EXCEPT !.status = "error", !.nC = @ - 1]
  IN  [T1 EXCEPT !.ci[Len(T1.ci)].top = Top(T1)]

\* luaD_throw and luaD_seterrorobj
Throw(m, v) ==
  LET i == ThrowTo(m)
      a == m.cs[i]
      T == m.th[a.t]
      to == [m EXCEPT !.cs = SubSeq(@, 1, i - 1)]
  IN  Answer(Update(to, a.t, IF a.k = "pcall" THEN Caught(T, a, v) ELSE Died(T, v)),
             "failed")

\* luaD_call, up to its first statement
BeginCall(m, t, func, want) ==
  Enter(m, [k |-> "call", t |-> t, pc |-> "enter", func |-> func, want |-> want])

\* luaG_errormsg: the error value is on the top, its handler is called first
ErrorMsg(m, t) ==
  LET T == m.th[t]
      h == T.stk[T.ef]
  IN  IF T.ef = 0 THEN Throw(m, Last(T.stk))
      ELSE IF ~IsFunction(h) THEN Throw(m, ErrErr)
      ELSE BeginCall(Enter(Update(m, t, [T EXCEPT !.stk = Front(@) \o <<h, Last(@)>>]),
                           [k |-> "errormsg", t |-> t]),
                     t, Top(T) - 1, 1)

\* luaG_runerror
RunError(m, t) == ErrorMsg(Update(m, t, PushValueOf(m.th[t], Message)), t)

(***************************************************************************)
(* luaD_precall, with the parts that lay out the frame.                    *)
(***************************************************************************)
\* adjust_varargs: the fixed parameters move above the arguments
AdjustVarargs(T, func) ==
  LET S == CutTo(T, IF Top(T) < func + 2 THEN func + 2 ELSE Top(T))
  IN  [S EXCEPT !.stk = Append([@ EXCEPT ![func + 1] = NilValue], S.stk[func + 1])]

\* one parameter: surplus arguments are dropped, missing ones are nil
AdjustFixed(T, func) == CutTo(T, func + 2)

LuaFrame(T, func, base, want) ==
  CutTo([T EXCEPT
    !.base = base,
    !.ci = Append(@, [func |-> func, base |-> base, top |-> base + MaxStack,
                      want |-> want, lua |-> TRUE, captured |-> {},
                      under |-> SubSeq(T.stk, 1, func)])],
    base + MaxStack)

CFrame(T, func, want) ==
  [T EXCEPT
    !.base = func + 1,
    !.ci = Append(@, [func |-> func, base |-> func + 1, top |-> Top(T) + MinStack,
                      want |-> want, lua |-> FALSE, captured |-> {},
                      under |-> SubSeq(T.stk, 1, func)])]

\* tryfuncTM: the object becomes the first argument of its metamethod
TryFuncTM(T, func) == [T EXCEPT !.stk = InsertAt(@, func, CallMethod)]

SizeCI(T) == IF T.over THEN MaxCalls + ErrorCalls ELSE MaxCalls

\* luaD_precall; the activation of luaV_execute that runs a Lua frame is on
\* the C stack execs
Precall(m, t, func, want, execs) ==
  LET called == m.th[t].stk[func]
      T0 == IF called = Callable THEN TryFuncTM(m.th[t], func) ELSE m.th[t]
      f == T0.stk[func]
      T == CASE f = "L" -> AdjustFixed(T0, func)
             [] f = "V" -> AdjustVarargs(T0, func)
             [] OTHER -> T0
      base == IF f = "V" THEN Top(T) - 1 ELSE func + 1
  IN  CASE ~IsFunction(f) -> RunError(m, t)
        [] IsFunction(f) /\ Len(T.ci) = SizeCI(T) /\ T.over ->        \* growCI
             Throw(Update(m, t, T), ErrErr)
        [] IsFunction(f) /\ Len(T.ci) = SizeCI(T) /\ ~T.over ->
             RunError(Update(m, t, [T EXCEPT !.over = TRUE]), t)
        [] f \in LuaFunctions /\ Len(T.ci) < SizeCI(T) ->
             [Update(m, t, LuaFrame(T, func, base, want)) EXCEPT !.cs = execs]
        [] f \in CFunctions /\ Len(T.ci) < SizeCI(T) ->
             Enter(Update(m, t, CFrame(T, func, want)),
                   [k |-> "cfun", t |-> t, f |-> f, pc |-> "run"])

\* luaD_poscall: the results go where the function was
Poscall(T, first) ==
  LET c == Frame(T)
      n == Top(T) - first
      given == IF c.want = MultRet \/ n < c.want THEN n ELSE c.want
      moved == SubSeq(T.stk, 1, c.func - 1) \o Slots(T, first, first + given - 1)
  IN  [T EXCEPT !.stk = moved \o Nils(c.want - given),
                !.ci = Front(@),
                !.base = T.ci[Len(T.ci) - 1].base]

\* The end of luaD_call, for each of its callers
FinishCall(m, t) ==
  LET T == [m.th[t] EXCEPT !.nC = @ - 1]
      want == Last(m.cs).want
      m1 == Leave(m)
      a == Last(m1.cs)
  IN  CASE a.k = "exec" -> Update(m1, t, ToFrameTop(T))       \* lvm.c:688 and 91
        [] a.k = "cfun" -> Update(m1, t, AdjustResults(T, want))
        [] a.k = "pcall" -> Answer(Update(Leave(m1), t,
                              AdjustResults([T EXCEPT !.ef = a.ef], want)), "ok")
        [] a.k = "errormsg" -> Throw(Update(m1, t, T), Last(T.stk))

\* lua_resume, status = 0 or LUA_YIELD
FinishResume(m) ==
  Answer(Leave([m EXCEPT !.th["co"].nC = @ - 1]), "ok")

\* A C function returns its n topmost values (ldo.c:319-326, lvm.c:596-600)
ReturnC(m, t, n) ==
  LET want == Frame(m.th[t]).want
      T == Poscall(m.th[t], Top(m.th[t]) - n)
      m1 == Leave(m)
  IN  CASE Last(m1.cs).k = "call" -> FinishCall(Update(m1, t, T), t)
        [] Last(m1.cs).k = "exec" ->
             Update(m1, t, IF want = MultRet THEN T ELSE ToFrameTop(T))

\* lua_pcall and the first part of luaD_pcall, the callee being at func
BeginPcall(m, t, func, want, handler) ==
  LET T == m.th[t]
  IN  BeginCall(Enter(Update(m, t, [T EXCEPT !.ef = handler]),
                      [k |-> "pcall", t |-> t, top |-> func, ci |-> Len(T.ci),
                       nC |-> T.nC, ef |-> T.ef,
                       under |-> SubSeq(T.stk, 1, func - 1)]),
                t, func, want)

(***************************************************************************)
(* The Lua machine.                                                        *)
(***************************************************************************)
InLua == Here.k = "exec"
\* After a call with LUA_MULTRET results the next instruction uses them all.
Settled == InLua /\ Top(Now) = Frame(Now).top
Reg(r) == Now.base + r

\* the callee and its arguments, in the registers from 1 on
Load(T, c) == [T EXCEPT !.stk = SubSeq(@, 1, T.base) \o c]

\* One coroutine is created in a run, and the two threads have at most
\* MaxFrames frames when a call is loaded.
Created == th["co"].ci # <<>>
Room == Len(th["main"].ci) + Len(th["co"].ci) < MaxFrames
Loadable(C) == {c \in C :
  /\ Created => "wrap" \notin {c[i] : i \in DOMAIN c}
  /\ ~Created => "wrapped" \notin {c[i] : i \in DOMAIN c}}
Callees == IF Room THEN Loadable(Calls) ELSE {}

\* luaD_call
LuaDCall ==
  /\ Here.k = "call" /\ Here.pc = "enter"
  /\ LET T == [Now EXCEPT !.nC = @ + 1]
         m == [Update(M, Here.t, T) EXCEPT !.cs[Len(cs)].pc = "in"]
     IN  Become(CASE T.nC = MaxCCalls -> RunError(m, Here.t)
                  [] T.nC >= ErrCCalls -> Throw(m, ErrErr)
                  [] OTHER -> Precall(m, Here.t, Here.func, Here.want,
                                      Append(m.cs, [k |-> "exec", t |-> Here.t, n |-> 1])))

OpCall(c, want) ==
  /\ Settled
  /\ Become(Precall(Update(M, Here.t, Load(Now, c)), Here.t, Reg(1), want,
                    [cs EXCEPT ![Len(cs)].n = @ + 1]))

\* the frame just made takes the place of the one that called
Replace(T) ==
  LET new == Frame(T)
      old == T.ci[Len(T.ci) - 1]
      S == Close(T, old.base)
      stk == SubSeq(S.stk, 1, old.func - 1) \o SubSeq(S.stk, new.func, Len(S.stk))
      base == old.func + new.base - new.func
  IN  [S EXCEPT !.stk = stk, !.base = base,
                !.ci = Append(SubSeq(@, 1, Len(@) - 2),
                         [old EXCEPT !.base = base, !.top = Len(stk) + 1,
                                     !.captured = {},
                                     !.under[old.func] = stk[old.func]])]

OpTailCall(c) ==
  /\ Settled
  /\ LET m == Precall(Update(M, Here.t, Load(Now, c)), Here.t, Reg(1), MultRet, cs)
         T == m.th[Here.t]
     IN  Become(IF Len(T.ci) > Len(Now.ci) /\ Frame(T).lua
                THEN Update(m, Here.t, Replace(T))
                ELSE m)

\* OP_RETURN of the values from register r to the top
ReturnLua(T, r) ==
  LET S == Poscall(Close(T, T.base), T.base + r)
      want == Frame(T).want
      m == Update(M, Here.t, S)
  IN  CASE Here.n > 1 ->
             [Update(m, Here.t, IF want = MultRet THEN S ELSE ToFrameTop(S))
                EXCEPT !.cs[Len(cs)].n = @ - 1]
        [] Here.n = 1 /\ cs[Len(cs) - 1].k = "call" -> FinishCall(Leave(m), Here.t)
        [] Here.n = 1 /\ cs[Len(cs) - 1].k = "resume" -> FinishResume(Leave(m))

OpReturn(n) == Settled /\ Become(ReturnLua(CutTo(Now, Reg(n)), 0))
OpReturnAll == InLua /\ ~Settled /\ Become(ReturnLua(Now, 1))

\* OP_VARARG of all the extra arguments
OpVararg ==
  LET c == Frame(Now)
  IN  /\ Settled /\ c.base > c.func + 2
      /\ Become(Update(M, Here.t, Load(Now, Slots(Now, c.func + 2, c.base - 1))))

OpClosure(r) == Settled /\ Become(Update(M, Here.t, FindUpval(Now, Reg(r))))

OpClose(r) ==
  /\ Settled
  /\ LET T == Close(Now, Reg(r))
     IN  Become(Update(M, Here.t,
           [T EXCEPT !.ci[Len(T.ci)].captured = {p \in @ : p < Reg(r)}]))

\* the iterator of a for loop, called with state and control variable
OpTForLoop(c) ==
  /\ Settled
  /\ Become(BeginCall(Update(M, Here.t, CutTo(Load(Now, c), Reg(4))), Here.t, Reg(1), 1))

\* callTMres: a metamethod and its operands go above the frame
OpMetamethod(f) ==
  /\ Settled
  /\ Become(BeginCall(Update(M, Here.t, [Now EXCEPT !.stk = @ \o f \o <<"v", "v">>]),
                      Here.t, Top(Now), 1))

(***************************************************************************)
(* C functions.                                                            *)
(***************************************************************************)
InC(f, pc) == Here.k = "cfun" /\ Here.f = f /\ Here.pc \in pc

\* A C function as the API lets it be: it returns, raises an error, or calls.
CReturn(n) ==
  /\ InC("C", {"run"})
  /\ Become(ReturnC(Update(M, Here.t, [Now EXCEPT !.stk = @ \o [i \in 1 .. n |-> "v"]]),
                    Here.t, n))

CError == InC("C", {"run"}) /\ Become(RunError(M, Here.t))

CCall(c, want) ==
  /\ InC("C", {"run"})
  /\ LET T == SetTop(Now, 0)
     IN  Become(BeginCall(Update(M, Here.t, [T EXCEPT !.stk = @ \o c]),
                          Here.t, Top(T), want))

\* luaB_pcall
BasePcall ==
  /\ InC("pcall", {"run"})
  /\ Become(IF GetTop(Now) = 0 THEN RunError(M, Here.t)
            ELSE BeginPcall(M, Here.t, Now.base, MultRet, 0))

BasePcallDone ==
  /\ InC("pcall", {"ok", "failed"})
  /\ LET T == InsertIndex(PushValueOf(Now, Here.pc), 1)
     IN  Become(ReturnC(Update(M, Here.t, T), Here.t, GetTop(T)))

\* luaB_xpcall: the function goes above its handler
BaseXPcall ==
  /\ InC("xpcall", {"run"})
  /\ LET T == InsertIndex(SetTop(Now, 2), 1)
     IN  Become(IF GetTop(Now) < 2 THEN RunError(M, Here.t)
                ELSE BeginPcall(Update(M, Here.t, T), Here.t, T.base + 1, MultRet, T.base))

BaseXPcallDone ==
  /\ InC("xpcall", {"ok", "failed"})
  /\ LET T == ReplaceIndex(PushValueOf(Now, Here.pc), 1)
     IN  Become(ReturnC(Update(M, Here.t, T), Here.t, GetTop(T)))

\* stack_init
NewThread ==
  [stk |-> <<NilValue>>, base |-> 2,
   ci |-> <<[func |-> 1, base |-> 2, top |-> 2 + MinStack, want |-> 0,
             lua |-> FALSE, captured |-> {}, under |-> <<NilValue>>]>>,
   status |-> "ok", nC |-> 0, baseC |-> 0, ef |-> 0, open |-> {}, over |-> FALSE]

\* luaB_cowrap with luaB_cocreate; a run creates one coroutine
BaseCoWrap ==
  /\ InC("wrap", {"run"}) /\ ~(Created /\ ValueAt(Now, 1) \in LuaFunctions)
  /\ LET f == ValueAt(Now, 1)
         m == [M EXCEPT !.th["co"] = PushValueOf(NewThread, f)]
     IN  Become(IF f \notin LuaFunctions THEN RunError(M, Here.t)
                ELSE ReturnC(Update(m, Here.t, PushValueOf(Now, "wrapped")), Here.t, 1))

\* costatus
CoStatus(co) ==
  LET T == th[co]
  IN  CASE Here.t = co -> "running"
        [] Here.t # co /\ T.status = "yield" -> "suspended"
        [] Here.t # co /\ T.status = "error" -> "dead"
        [] Here.t # co /\ T.status = "ok" ->
             IF Len(T.ci) > 1 THEN "normal"
             ELSE IF GetTop(T) = 0 THEN "dead" ELSE "suspended"

\* the frames of a coroutine luaV_execute goes on with; a slip: the last only
FramesToRunLast(T) == 1
FramesToRun(T) == Len(T.ci) - 1

\* resume: the body starts, or the call that yielded gets its results
Resume(m, nargs) ==
  LET C == m.th["co"]
      S == Poscall([C EXCEPT !.status = "ok"], Top(C) - nargs)
      exec(n) == [k |-> "exec", t |-> "co", n |-> n]
  IN  IF C.status = "ok"
      THEN Precall(m, "co", Top(C) - nargs - 1, MultRet, Append(m.cs, exec(1)))
      ELSE Enter(Update(m, "co", IF Frame(C).want = MultRet THEN S ELSE ToFrameTop(S)),
                 exec(FramesToRun(S)))

\* lua_setlevel: the coroutine goes on counting where its resumer is; or not
SetLevelForgotten(C, T) == C
SetLevel(C, T) == [C EXCEPT !.nC = T.nC]

\* luaB_auxwrap and auxresume, up to the start of the coroutine
AuxResume ==
  /\ InC("wrapped", {"run"}) /\ Created       \* it is what wrap returned
  /\ LET n == GetTop(Now)
         C == SetLevel(MovedTo(th["co"], n, Now), Now)
         T == MovedFrom(Now, n)
         m == Update(M, Here.t, T)
         C1 == [C EXCEPT !.nC = @ + 1, !.baseC = C.nC + 1]
     IN  Become(
           CASE CoStatus("co") # "suspended" -> RunError(M, Here.t)
             [] CoStatus("co") = "suspended" /\ C.nC >= MaxCCalls ->  \* resume_error
                  RunError(Update(m, "co", [C EXCEPT !.stk = SubSeq(@, 1, Frame(C).base - 1)]),
                           Here.t)
             [] CoStatus("co") = "suspended" /\ C.nC < MaxCCalls ->
                  Resume(Enter(Update(m, "co", C1), [k |-> "resume", t |-> "co"]), n))

AuxWrapDone ==
  /\ InC("wrapped", {"ok", "failed"})
  /\ LET C == th["co"]
         n == IF Here.pc = "ok" THEN GetTop(C) ELSE 1
         m == Update(Update(M, "co", MovedFrom(C, n)),
                     Here.t, MovedTo(Now, n, C))
     IN  Become(IF Here.pc = "ok" THEN ReturnC(m, Here.t, n) ELSE ErrorMsg(m, Here.t))

\* lua_yield of n values
Yielded(T, n) == [T EXCEPT !.base = Top(T) - n, !.status = "yield"]

\* luaB_yield; luaV_execute and resume return behind it
BaseYield ==
  /\ InC("yield", {"run"})
  /\ Become(IF Now.nC > Now.baseC THEN RunError(M, Here.t)
            ELSE FinishResume(Leave(Leave(
                   Update(M, Here.t, Yielded(Now, GetTop(Now)))))))

(***************************************************************************)
(* Java, at the bottom of the C stack of the main thread.                  *)
(***************************************************************************)
\* LuaState.pcall, with or without an error handler pushed first
JavaPcall(c, want, handler) ==
  /\ Here.k = "jni" /\ Here.pc = "idle"
  /\ LET h == IF handler = NilValue THEN <<>> ELSE <<handler>>
         T == [Now EXCEPT !.stk = @ \o h \o c]
     IN  Become(BeginPcall(Update(M, "main", T), "main", Now.base + Len(h), want,
                           IF h = <<>> THEN 0 ELSE Now.base))

\* LuaState.setTop(0)
JavaSetTop ==
  /\ Here.k = "jni" /\ Here.pc \in {"ok", "failed"}
  /\ Become([Update(M, "main", SetTop(Now, 0)) EXCEPT !.cs[1].pc = "idle"])

Init ==
  /\ th = [t \in Threads |-> IF t = "main" THEN NewThread
                              ELSE [NewThread EXCEPT !.stk = <<>>, !.ci = <<>>]]
  /\ cs = <<[k |-> "jni", t |-> "main", pc |-> "idle"]>>

LuaStep ==
  \/ \E c \in Callees, want \in Wants : OpCall(c, want)
  \/ \E c \in Callees : OpTailCall(c)
  \/ \E c \in Callees \cap Iterators : OpTForLoop(c)
  \/ \E f \in Loadable(Metamethods) : OpMetamethod(f)
  \/ \E n \in 0 .. 1 : OpReturn(n)
  \/ OpReturnAll \/ OpVararg
  \/ OpClosure(0) \/ OpClose(0)

CStep ==
  \/ \E n \in 0 .. 1 : CReturn(n)
  \/ CError
  \/ \E c \in Callees, want \in Wants : CCall(c, want)
  \/ BasePcall \/ BasePcallDone \/ BaseXPcall \/ BaseXPcallDone
  \/ BaseCoWrap \/ AuxResume \/ AuxWrapDone \/ BaseYield

JavaStep ==
  \/ \E c \in Loadable(Entries) :
       \/ JavaPcall(c, 0, "L")             \* queueLuaCode
       \/ JavaPcall(c, 1, NilValue)        \* LuaObject.call
  \/ JavaSetTop

Next == LuaDCall \/ LuaStep \/ CStep \/ JavaStep

Spec == Init /\ [][Next]_vars

Count(P(_)) == Cardinality({i \in DOMAIN cs : P(cs[i])})
Active(t) == \E i \in DOMAIN cs : cs[i].t = t

(***************************************************************************)
(* The counter that guards the C stack, nCcalls, is the number of          *)
(* luaD_call and lua_resume activations really there, and these stay       *)
(* within the limit, coroutines included, whatever errors, handlers and    *)
(* resumptions came before.                                                *)
(***************************************************************************)
Nested(a) == a.k = "resume" \/ (a.k = "call" /\ a.pc = "in")
CallsCounted ==
  /\ th["main"].nC = Count(LAMBDA a : Nested(a) /\ a.t = "main")
  /\ Active("co") => th["co"].nC = Count(Nested)
  /\ Count(Nested) < ErrCCalls

(***************************************************************************)
(* What is on a thread's stack below a call, protected or not, is what its *)
(* caller left there, and a frame still has the function it runs: no       *)
(* callee, error, yield or tail call disturbs them.                        *)
(***************************************************************************)
CallersUntouched ==
  /\ \A t \in Threads : \A i \in DOMAIN th[t].ci :
       SubSeq(th[t].stk, 1, th[t].ci[i].func) = th[t].ci[i].under
  /\ \A i \in DOMAIN cs : cs[i].k = "pcall" =>
       SubSeq(th[cs[i].t].stk, 1, cs[i].top - 1) = cs[i].under

(***************************************************************************)
(* The open upvalues of a thread are the variables its live frames share   *)
(* with closures; a frame that returned, was replaced by a tail call or    *)
(* was unwound by an error leaves none pointing at its slots.              *)
(***************************************************************************)
UpvalsLive == \A t \in Threads :
  th[t].open = UNION {th[t].ci[i].captured : i \in DOMAIN th[t].ci}

(***************************************************************************)
(* The C stack and the call frames agree: luaV_execute's frame counters    *)
(* add up to the Lua frames of the thread, every C frame has its           *)
(* activation, and a coroutine off the C stack holds no C frame but the    *)
(* yield it waits in.                                                      *)
(***************************************************************************)
Executions(t) == {i \in DOMAIN cs : cs[i].k = "exec" /\ cs[i].t = t}
Executed(t) == Cardinality(UNION {{i} \X (1 .. cs[i].n) : i \in Executions(t)})
FramesOf(t, lua) == Cardinality({i \in 2 .. Len(th[t].ci) : th[t].ci[i].lua = lua})
FramesRun == \A t \in Threads :
  IF Active(t)
  THEN /\ Executed(t) = FramesOf(t, TRUE)
       /\ Count(LAMBDA a : a.k = "cfun" /\ a.t = t) = FramesOf(t, FALSE)
  ELSE th[t].status = "yield" => FramesOf(t, FALSE) = 1 /\ ~Frame(th[t]).lua
=============================================================================
