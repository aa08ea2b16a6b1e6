--------------------------- MODULE LuaCallsInvariant ---------------------------
(***************************************************************************)
(* The inductive invariant of LuaCalls, of which its four properties are   *)
(* consequences.  It is stated about a record m of the two variables, so   *)
(* that it can be followed through the parts of a step.                    *)
(***************************************************************************)
EXTENDS LuaCalls

-----------------------------------------------------------------------------
(* Types                                                                   *)

Result == Nat \cup {MultRet}

(* Names stand for values; those of LuaCalls are listed, for the provers   *)
(* do not know a string from its spelling.                                 *)
Value == STRING \cup LuaFunctions \cup CFunctions
                \cup {NilValue, NoValue, Callable, ErrErr, Message, "v", "ok", "failed"}

CallInfo ==
  [func : Nat, base : Nat, top : Nat, want : Result, lua : BOOLEAN,
   captured : SUBSET Nat, under : Seq(Value)]

Thread ==
  [stk : Seq(Value), base : Nat, ci : Seq(CallInfo), status : {"ok", "yield", "error"},
   nC : Int, baseC : Int, ef : Nat, open : SUBSET Nat, over : BOOLEAN]

Activation ==
  [k : {"jni"}, t : {"main"}, pc : {"idle", "ok", "failed"}]
  \cup [k : {"pcall"}, t : Threads, top : Nat, ci : Nat, nC : Int, ef : Nat,
        under : Seq(Value)]
  \cup [k : {"call"}, t : Threads, pc : {"enter", "in"}, func : Nat, want : Result]
  \cup [k : {"errormsg"}, t : Threads]
  \cup [k : {"exec"}, t : Threads, n : Nat]
  \cup [k : {"cfun"}, t : Threads, f : CFunctions, pc : {"run", "ok", "failed"}]
  \cup [k : {"resume"}, t : {"co"}]

State == [th : [Threads -> Thread], cs : Seq(Activation)]

-----------------------------------------------------------------------------
(* The call frames of one thread                                           *)

(* The first slot a callee of frame c can be in: register 0 of a Lua       *)
(* function stays, for its closures may share it.                          *)
Low(c) == IF c.lua THEN c.base + 1 ELSE c.base

(* One frame, and the ones above it.                                       *)
FrameInv(T, i) ==
  LET c == T.ci[i]
  IN  /\ 0 < c.func /\ c.func < c.base
      /\ c.lua => c.top > c.base
      /\ c.captured \subseteq (IF c.lua THEN {c.base} ELSE {})
      /\ SubSeq(T.stk, 1, c.func) = c.under
      /\ \A j \in DOMAIN T.ci : i < j => Low(c) <= T.ci[j].func

FramesInv(T) ==
  /\ T.ci # <<>> /\ T.ci[1].base = 2 /\ ~T.ci[1].lua
  /\ \A i \in DOMAIN T.ci : FrameInv(T, i)
  /\ T.base = Frame(T).base /\ Len(T.stk) >= Low(Frame(T)) - 1
  /\ T.open = UNION {T.ci[i].captured : i \in DOMAIN T.ci}
  /\ Len(T.ci) <= SizeCI(T)

-----------------------------------------------------------------------------
(* The C stack                                                             *)

(* Activation b may be right above a.                                      *)
Above(a, b) ==
  /\ b.k # "jni" /\ (b.k = "resume" <=> a.t # b.t)
  /\ a.k = "call" => a.pc = "in"
  /\ b.k = "pcall" => a.k = "jni" \/ (a.k = "cfun" /\ a.f \in {"pcall", "xpcall"})
  /\ b.k = "call" => a.k \in {"pcall", "errormsg", "exec"} \/ (a.k = "cfun" /\ a.f = "C")
  /\ b.k = "errormsg" => a.k \in {"call", "exec", "cfun"}
  /\ b.k = "exec" => a.k \in {"call", "resume"} /\ b.n > 0
  /\ b.k = "cfun" => a.k \in {"call", "exec"}
  /\ b.k = "resume" => a.k = "cfun" /\ a.f = "wrapped"

(* Frames an activation has, and what it adds to nCcalls.                  *)
FramesIn(a) == IF a.k = "exec" THEN a.n ELSE IF a.k \in {"jni", "cfun", "resume"} THEN 1 ELSE 0
Adds(a) == IF Nested(a) THEN 1 ELSE 0

(* d[i] is the number of frames of its thread up to activation i, e[i] the *)
(* number of nested calls.                                                 *)
Counts(s, d, e) ==
  /\ d \in [DOMAIN s -> Nat] /\ e \in [DOMAIN s -> Nat]
  /\ d[1] = 1 /\ e[1] = 0
  /\ \A i \in DOMAIN s : i > 1 =>
       /\ d[i] = (IF s[i].k = "resume" THEN 0 ELSE d[i - 1]) + FramesIn(s[i])
       /\ e[i] = e[i - 1] + Adds(s[i])
  /\ \A i, j \in DOMAIN s : i < j =>
       /\ s[i].t = s[j].t => d[i] + FramesIn(s[j]) <= d[j]
       /\ e[i] + Adds(s[j]) <= e[j]

StackInv(s, d, e) ==
  /\ s # <<>> /\ s[1].k = "jni"
  /\ \A i \in DOMAIN s : i > 1 => Above(s[i - 1], s[i])
  /\ \A i \in DOMAIN s : s[i].t = "co" =>
       /\ \E j \in DOMAIN s : j <= i /\ s[j].k = "resume"
       /\ \A j \in DOMAIN s : i < j => s[j].t = "co" /\ s[j].k # "resume"
  /\ Counts(s, d, e)

(* Activation i is the last of its thread.                                 *)
IsLast(s, i) == i = Len(s) \/ s[i + 1].k = "resume"

(* What is below this slot is the caller's.                                *)
Owns(a) == a.k \in {"pcall", "call"}
Floor(a) == IF a.k = "pcall" THEN a.top ELSE a.func

-----------------------------------------------------------------------------
(* The two together                                                        *)

(* Activation i has its frames, and finds what it stored.                  *)
ActivationInv(m, d, e, i) ==
  LET a == m.cs[i]
      T == m.th[a.t]
  IN  /\ d[i] \in DOMAIN T.ci
      /\ IsLast(m.cs, i) => Len(T.ci) = d[i] /\ T.nC = e[i]
      /\ a.k = "exec" => \A j \in DOMAIN T.ci : d[i] - a.n < j /\ j <= d[i] => T.ci[j].lua
      /\ a.k = "cfun" => /\ ~T.ci[d[i]].lua
                         /\ a.f = "wrapped" /\ a.pc # "run" => a.t = "main"
      /\ a.k = "pcall" => /\ a.ci = d[i] /\ a.nC = e[i]
                          /\ SubSeq(T.stk, 1, a.top - 1) = a.under
      /\ a.k = "call" /\ a.pc = "enter" => a.func <= Len(T.stk)
      /\ a.k = "resume" => m.th["co"].baseC = e[i]
      /\ Owns(a) => /\ Low(T.ci[d[i]]) <= Floor(a) /\ Floor(a) <= Len(T.stk) + 1
                    /\ \A j \in DOMAIN T.ci : d[i] < j => Floor(a) <= T.ci[j].func
                    /\ \A j \in DOMAIN m.cs : i < j /\ Owns(m.cs[j]) /\ m.cs[j].t = a.t =>
                         Floor(a) <= Floor(m.cs[j])

(* A coroutine that does not run: it died, waits in a yield, is to begin   *)
(* or has ended; if it just ended, a is to take its results.               *)
AtRest(C, a) ==
  \/ C.status = "error"
  \/ /\ C.status = "yield" /\ Len(C.ci) > 2 /\ ~Frame(C).lua
     /\ \A j \in DOMAIN C.ci : 1 < j /\ j < Len(C.ci) => C.ci[j].lua
  \/ /\ C.status = "ok" /\ Len(C.ci) = 1
     /\ \/ Len(C.stk) = 1
        \/ Len(C.stk) = 2 /\ C.stk[2] \in LuaFunctions
        \/ a.k = "cfun" /\ a.f = "wrapped" /\ a.pc = "ok"

Runs(s) == \E i \in DOMAIN s : s[i].k = "resume"

CoroutineInv(m) ==
  LET C == m.th["co"]
  IN  /\ C.ci = <<>> => C = [NewThread EXCEPT !.stk = <<>>, !.ci = <<>>]
      /\ C.ci # <<>> => FramesInv(C)
      /\ Runs(m.cs) => C.ci # <<>> /\ C.status = "ok"
      /\ ~Runs(m.cs) /\ C.ci # <<>> => AtRest(C, Last(m.cs))

(* Inside a step.                                                          *)
Inv(m, d, e) ==
  /\ m \in State
  /\ StackInv(m.cs, d, e)
  /\ \A i \in DOMAIN m.cs : ActivationInv(m, d, e, i)
  /\ FramesInv(m.th["main"]) /\ m.th["main"].baseC = 0
  /\ CoroutineInv(m)

(* Between two steps.                                                      *)
Rests(m, e) ==
  LET a == Last(m.cs)
      C == m.th["co"]
  IN  /\ a.k \in {"jni", "exec", "cfun"} \/ (a.k = "call" /\ a.pc = "enter")
      /\ a.k = "cfun" /\ a.f = "wrapped" /\ a.pc = "ok" =>
           C.ci # <<>> /\ C.status # "error"
      /\ a.k = "cfun" /\ a.f = "wrapped" /\ a.pc = "failed" =>
           C.ci # <<>> /\ C.status = "error" /\ Len(C.stk) >= Low(Frame(C))
      /\ e[Len(m.cs)] < ErrCCalls

Good(m) == \E d, e \in [DOMAIN m.cs -> Nat] : Inv(m, d, e) /\ Rests(m, e)

IInv == Good(M)
=============================================================================
