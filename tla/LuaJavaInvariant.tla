--------------------------- MODULE LuaJavaInvariant ---------------------------
(***************************************************************************)
(* The inductive invariants of LuaJava: which thread holds which monitor,  *)
(* where an exception would leave a method, which keys of the registry are *)
(* free, and how high the Lua stack is.                                    *)
(***************************************************************************)
EXTENDS LuaJava

(* The native calls the main thread can have before it.                    *)
Entry ==
  [op : {"lock", "unlock", "loadString", "checkTable", "checkCallable", "fail",
         "getObject", "pushObjectValue", "pushResult", "pushJavaObject", "return", "error"}]
  \cup [op : {"pushValue", "pop", "getTable", "remove", "insert", "setTop"}, i : Int]
  \cup [op : {"getGlobal", "setGlobal", "getField", "pushString"},
        v : {"x", "function", "table", "string"}]
  \cup [op : {"push", "ref"}, o : Objects]
  \cup [op : {"method"}, locked : BOOLEAN]
  \cup [op : {"pcall", "lua"}, args : {0}, n : {0}]
  \cup [op : {"pcall", "lua"}, args : {1}, n : {0, 1}, o : Objects]

ShapeInv ==
  /\ made \in 1 .. MaxStates /\ open \in BOOLEAN
  /\ todo = [j \in Threads |-> todo[j]]
  /\ todo["main"] \in Seq(Entry)
  /\ Busy("main") => open
  /\ object = [o \in Objects |-> object[o]]
  /\ \A o \in Objects : object[o].st \in {"none", "live", "finalizing"}
                        /\ object[o].of \in 1 .. made

-----------------------------------------------------------------------------
(* The monitors                                                            *)

(* What handling a call does to how often its thread holds the monitor,    *)
(* looked at from behind.                                                  *)
Change(x) ==
  CASE x.op \in {"unlock", "lua"} -> 1
    [] x.op = "lock" -> -1
    [] x.op \notin {"unlock", "lua", "lock"} -> 0

(* d[i] is how often the monitor is held before call i of s.               *)
Depths(s, d) ==
  /\ d \in [1 .. Len(s) + 1 -> Nat] /\ d[Len(s) + 1] = 0
  /\ \A i \in DOMAIN s : d[i] = d[i + 1] + Change(s[i])

(* The first call behind i that is op; n is how much deeper i is.          *)
Finds(s, d, i, op, n) ==
  \E p \in i + 1 .. Len(s) :
    /\ s[p].op = op /\ d[i] = d[p] + n
    /\ \A m \in i .. p - 1 : s[m].op # op

(* The monitor is held as long as Lua code is under way; a method that     *)
(* throws finds the end of its block, or the Lua code that called it, held *)
(* as it has to be there; queued code begins with nothing held.            *)
Balanced(s, d) ==
  /\ Depths(s, d)
  /\ \A k \in DOMAIN s : s[k].op = "lua" => \A i \in 1 .. k : d[i] > 0
  /\ \A i \in DOMAIN s :
       /\ s[i].op \in {"checkTable", "checkCallable", "fail", "getObject"} => Finds(s, d, i, "unlock", 0)
       /\ s[i].op = "method" => Finds(s, d, i, "lua", IF s[i].locked THEN 1 ELSE 0)
       /\ s[i].op = "error" => i < Len(s) /\ s[i + 1].op = "lua"
       /\ s[i].op = "loadString" => d[i] = 0

(* The finalizer thread is in the block of the one object it finalizes.    *)
Finalizes(o) ==
  /\ \A p \in Objects : object[p].st = "finalizing" <=> p = o
  /\ todo["finalizer"] \in {<<Do("lock"), Of("ifOpen", o), Of("unref", o), Do("unlock")>>,
                            <<Of("ifOpen", o), Of("unref", o), Do("unlock")>>,
                            <<Of("unref", o), Do("unlock")>>,
                            <<Do("unlock")>>}
  /\ Head(todo["finalizer"]).op = "unref" => open /\ object[o].of = made

FinalizerInv ==
  \/ todo["finalizer"] = <<>> /\ \A o \in Objects : object[o].st # "finalizing"
  \/ \E o \in Objects : Finalizes(o)

FinalizerHolds(g) ==
  /\ Busy("finalizer") /\ Head(todo["finalizer"]).op # "lock"
  /\ \E o \in Objects : object[o].st = "finalizing" /\ object[o].of = g

(* Each monitor is held by the thread that is in a block, and by one only. *)
Held(n) ==
  /\ n > 0 => ~FinalizerHolds(made)
  /\ monitor = [g \in 1 .. MaxStates |->
       IF g = made /\ n > 0 THEN [by |-> "main", n |-> n]
       ELSE IF FinalizerHolds(g) THEN [by |-> "finalizer", n |-> 1]
       ELSE [by |-> Nobody, n |-> 0]]

MonitorInv ==
  \E d \in [1 .. Len(todo["main"]) + 1 -> Nat] : Balanced(todo["main"], d) /\ Held(d[1])

-----------------------------------------------------------------------------
(* The list of states                                                      *)

StatesInv ==
  /\ states \in Seq(Nat)
  /\ S.index = stateId
  /\ open => stateId + 1 \in DOMAIN states /\ states[stateId + 1] = made

-----------------------------------------------------------------------------
(* The registry                                                            *)

(* Calls that make a LuaObject of its result.                              *)
Makes(x) == x.op = "ref" \/ (x.op \in {"pcall", "lua"} /\ x.n = 1)

(* Each makes one nobody has.                                              *)
MakesInv ==
  \A i \in DOMAIN todo["main"] : Makes(todo["main"][i]) =>
    /\ object[todo["main"][i].o].st = "none"
    /\ \A k \in DOMAIN todo["main"] : Makes(todo["main"][k]) /\ k # i =>
         todo["main"][k].o # todo["main"][i].o

(* The keys F are linked from s.free on, each once.                        *)
FreeList(s, F) ==
  /\ s.free \in F \cup {0}
  /\ \A k \in F : s.reg[k].next \in (F \ {s.free}) \cup {0}
  /\ \A k, m \in F : s.reg[k].next = s.reg[m].next /\ s.reg[k].next # 0 => k = m

RegInv ==
  /\ Len(S.reg) \in Nat /\ S.reg = [k \in 1 .. Len(S.reg) |-> S.reg[k]]
  /\ \E F \in SUBSET (1 .. Len(S.reg)) :
       /\ FreeList(S, F)
       /\ \A o \in Holding : Pending(o) /\ object[o].val # NilValue =>
            object[o].ref \in DOMAIN S.reg \ F

-----------------------------------------------------------------------------
IInv ==
  /\ ShapeInv /\ FinalizerInv /\ MonitorInv /\ StatesInv
  /\ MakesInv /\ RegInv /\ RefsKept /\ EnvIsRunning

-----------------------------------------------------------------------------
(* The stack                                                               *)

(* Calls that take a call frame down.                                      *)
Ends(x) == x.op \in {"lua", "return", "error"}
Checks(x) == x.op \in {"checkTable", "checkCallable", "fail", "getObject"}

(* f[i] is the number of call frames before call i of s, that of Java code *)
(* at rest not counted; each is taken down by one call.  There are some as *)
(* long as Lua code is under way, which has one, as has every callback.    *)
Levels(s, f) ==
  /\ f \in [1 .. Len(s) + 1 -> Nat] /\ f[Len(s) + 1] = 0
  /\ \A i \in DOMAIN s :
       /\ f[i] = f[i + 1] + (IF Ends(s[i]) THEN 1 ELSE 0)
       /\ f[i] = 0 <=> \A p \in i .. Len(s) : s[p].op # "lua"
       /\ Checks(s[i]) => Finds(s, f, i, "unlock", 0)
       /\ s[i].op = "method" => Finds(s, f, i, "lua", 1)

(* By how much a call changes the height of the stack, a pcall with all it *)
(* runs.  A check that fails leaves the height to the end of the block.    *)
Grows(x) ==
  CASE x.op \in {"pushValue", "getGlobal", "getField", "pushString", "push",
                 "pushObjectValue", "pushResult", "pushJavaObject", "loadString"} -> 1
    [] x.op \in {"pop", "ref", "setGlobal", "remove"} -> -1
    [] x.op = "pcall" -> -1 - x.args
    [] OTHER -> 0

(* h[i] is the height before call i, where it matters: outside of Lua      *)
(* code, for what is in a frame goes with it.  low is the slot of the      *)
(* first function called, end the height when all is done.                 *)
Heights(s, f, h, low, end) ==
  /\ h \in [1 .. Len(s) + 1 -> Nat \ {0}] /\ h[Len(s) + 1] = end
  /\ \A i \in DOMAIN s :
       /\ f[i] = 0 => h[i + 1] = (IF s[i].op = "setTop" THEN 1 ELSE h[i] + Grows(s[i]))
       /\ f[i] = 1 /\ f[i + 1] = 0 => h[i + 1] = low - 1
       /\ f[i] = 0 /\ Checks(s[i]) => Finds(s, h, i, "unlock", 1)
       /\ s[i].op = "insert" => h[i] > 1
       /\ s[i].op = "loadString" => h[i] = 1

(* Queued code is started by itself, from an empty stack; fields are taken *)
(* at rest only.                                                           *)
Places(s, f) ==
  \A i \in DOMAIN s :
    /\ s[i].op \in {"setTop", "loadString", "remove", "insert"} => f[i] = 0
    /\ s[i].op = "setTop" => i = 1 /\ s[i].i = 0
    /\ s[i].op = "loadString" => i = 1 \/ (i = 2 /\ s[1].op = "setTop")
    /\ s[i].op \in {"remove", "insert"} => s[i].i = -2
    /\ s[i].op = "pop" => s[i].i = 1
    /\ s[i].op \in {"pcall", "lua"} /\ s[i].args = 0 => i = Len(s)

(* The height when s is done, n values being left: queued code begins with *)
(* none and leaves its handler.                                            *)
Queued(s) == s # <<>> /\ Last(s).op \in {"pcall", "lua"} /\ Last(s).args = 0
EndHeight(s, n) ==
  1 + (IF s # <<>> /\ s[1].op = "setTop" THEN 0 ELSE n) + (IF Queued(s) THEN 1 ELSE 0)

(* A stack of slots, with n frames, or none and v slots.                   *)
Slotted(T) ==
  /\ {"stk", "ci", "base"} \subseteq DOMAIN T
  /\ T.stk \in Seq({T.stk[i] : i \in DOMAIN T.stk})
StackOf(T, n, v) ==
  /\ Slotted(T)
  /\ T.ci \in Seq({T.ci[i] : i \in DOMAIN T.ci}) /\ Len(T.ci) = n + 1
  /\ T.ci[1].base = 2 /\ \A i \in DOMAIN T.ci : T.ci[i].func \in Int
  /\ n = 0 => T.base = 2 /\ Len(T.stk) = v

(* The stack T, n values having been left on it, stands as s needs it.     *)
Stacked(s, n, T, f, h) ==
  /\ Levels(s, f) /\ Places(s, f)
  /\ Heights(s, f, h, IF f[1] = 0 THEN 0 ELSE T.ci[2].func, EndHeight(s, n))
  /\ StackOf(T, f[1], h[1])
Stands(s, n, T) == \E f, h \in [1 .. Len(s) + 1 -> Nat] : Stacked(s, n, T, f, h)

StackInv == left \in Nat /\ (open => Stands(todo["main"], left, S))
=============================================================================
