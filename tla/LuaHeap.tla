------------------------------ MODULE LuaHeap ------------------------------
(***************************************************************************)
(* The memory of a Lua state: the incremental, two-white mark and sweep    *)
(* collector of jni/lua/lgc.c beside the program that makes, links, drops  *)
(* and closes objects (lapi.c, lvm.c, lfunc.c, lstring.c, lstate.c).       *)
(*                                                                         *)
(* The program runs between two steps of the collector: they come at the   *)
(* allocations, and how much each does depends on sizes in bytes, so that  *)
(* any step may come after any operation here.  An address, once freed,    *)
(* may be that of another object.                                          *)
(*                                                                         *)
(* A table has one node, which is enough to be a metatable, a weak table   *)
(* or a link.  The lists the collector chains objects in are sets, but for *)
(* the userdata, whose order is that of their finalizers; what a step      *)
(* takes from a set is any of its members.                                 *)
(***************************************************************************)
EXTENDS Integers, Sequences, SequencesExt, FiniteSets, TLC

CONSTANTS
  Tables, Closures, UpVals, Userdatas, Strings, Coroutines,   \* addresses
  Starts,       \* heaps a program has built when the model begins, with a
                \* bound on its operations from there
  Slots         \* stack slots of a thread

VARIABLES
  g,            \* global_State with the objects and the threads' stacks
  pool,         \* addresses this program uses
  ops,          \* operations the program may still do
  called,       \* finalizer calls of the userdata at each address
  garbage       \* what was unreachable when the collection began, and since

vars == <<g, pool, ops, called, garbage>>

NilValue == "nil"
DeadKey == "dead key"
Names == {"x", "__gc", "__mode"}        \* strings that are fixed, as keys
Modes == {"k", "v"}                     \* and as values
Main == "main"
Globals == "globals"
Threads == Coroutines \cup {Main}

Objects == Tables \cup Closures \cup UpVals \cup Userdatas \cup Strings \cup Coroutines
           \cup {Main, Globals}

Put(h, o, field, v) == [h EXCEPT !.obj[o][field] = v]
Exists(h, o) == o \in DOMAIN h.obj
Of(h, S) == S \cap DOMAIN h.obj

(***************************************************************************)
(* Colours (lgc.h).                                                        *)
(***************************************************************************)
\* The current white is "white", the other one, when it means dead, "dead".
IsWhite(h, o) == h.obj[o].color \in {"white", "dead"}
IsBlack(h, o) == h.obj[o].color = "black"
IsGray(h, o) == h.obj[o].color = "gray"
IsDead(h, o) == h.obj[o].color = "dead"
MakeWhite(h, o) == Put(h, o, "color", "white")
Color(h, S, c) ==
  [h EXCEPT !.obj = [o \in DOMAIN @ |-> IF o \in S THEN [@[o] EXCEPT !.color = c] ELSE @[o]]]

Collectable(v) == v \in Objects
OpenUpval(h, u) == h.obj[u].at # <<>>
\* *uv->v
UpvalValue(h, u) ==
  IF OpenUpval(h, u) THEN h.stack[h.obj[u].at[1]][h.obj[u].at[2]] ELSE h.obj[u].val
StackOf(h, t) == {h.stack[t][i] : i \in DOMAIN h.stack[t]}

\* luaT_gettm: what the metatable has under a name
Tm(h, o, name) ==
  LET mt == h.obj[o].meta
  IN  IF mt # NilValue /\ h.obj[mt].key = name THEN h.obj[mt].val ELSE NilValue
Weak(h, t, mode) == Tm(h, t, "__mode") = mode

(***************************************************************************)
(* Marking.                                                                *)
(***************************************************************************)
\* what reallymarkobject marks at once: a userdata's metatable, an upvalue's
\* value; the rest waits in the gray list
Pulled(h, o) ==
  CASE o \in Userdatas -> {h.obj[o].meta} \cap Objects
    [] o \in UpVals -> {UpvalValue(h, o)} \cap Objects
    [] OTHER -> {}
WhiteIn(h, S) == {o \in S \cap Objects : IsWhite(h, o)}
\* a value, perhaps a userdata, and its metatable: three deep at most
Marked(h, S) ==
  LET a == WhiteIn(h, S)
      b == a \cup WhiteIn(h, UNION {Pulled(h, o) : o \in a})
  IN  b \cup WhiteIn(h, UNION {Pulled(h, o) : o \in b})

\* reallymarkobject of the white ones of a set of values
Mark(h, S) ==
  LET m == Marked(h, S)
      black == {o \in m : o \in Userdatas \/ (o \in UpVals /\ ~OpenUpval(h, o))}
      listed == m \cap (Tables \cup Closures \cup Threads \cup {Globals})
      h1 == Color(Color(h, m, "gray"), black, "black")
  IN  [h1 EXCEPT !.gray = @ \cup listed]

\* an empty node keeps a dead key; a slip: it keeps its key, marked
KeepEntry(h, t) == Mark(h, {h.obj[t].key})
RemoveEntry(h, t) ==
  IF h.obj[t].val = NilValue /\ Collectable(h.obj[t].key)
  THEN Put(h, t, "key", DeadKey) ELSE h

\* traversetable; the table is black unless it is weak
TraverseTable(h, t) ==
  LET r == h.obj[t]
      weak == Weak(h, t, "k") \/ Weak(h, t, "v")
      h1 == IF weak THEN [Put(h, t, "color", "gray") EXCEPT !.weak = @ \cup {t}] ELSE h
      entry == (IF Weak(h, t, "k") THEN {} ELSE {r.key})
               \cup (IF Weak(h, t, "v") THEN {} ELSE {r.val})
      h2 == Mark(h1, {r.meta})
  IN  IF r.val = NilValue THEN RemoveEntry(h2, t) ELSE Mark(h2, entry)

\* traversestack; a thread stays gray, for its stack has no barrier
TraverseThread(h, t) ==
  Mark([Put(h, t, "color", "gray") EXCEPT !.again = @ \cup {t}], StackOf(h, t) \cup {Globals})

\* propagatemark
PropagateMark(h, o) ==
  LET h1 == [Put(h, o, "color", "black") EXCEPT !.gray = @ \ {o}]
  IN  CASE o \in Tables \cup {Globals} -> TraverseTable(h1, o)
        [] o \in Closures -> Mark(h1, {h.obj[o].val, Globals})
        [] o \in Threads -> TraverseThread(h1, o)

RECURSIVE PropagateAll(_)
PropagateAll(h) ==
  IF h.gray = {} THEN h ELSE PropagateAll(PropagateMark(h, CHOOSE o \in h.gray : TRUE))

MarkRoot(h) ==
  Mark([h EXCEPT !.gray = {}, !.again = {}, !.weak = {}, !.state = "propagate"],
       {Main, Globals})

(***************************************************************************)
(* The end of marking.                                                     *)
(***************************************************************************)
\* the open upvalues, whose threads may be dead
RemarkUpvals(h) ==
  Mark(h, {UpvalValue(h, u) : u \in {v \in Of(h, UpVals) : OpenUpval(h, v) /\ IsGray(h, v)}})

\* luaC_separateudata; a slip: it does not remember which it has taken
SeparateUdataAgain(h, all) ==
  LET take(d) == (IsWhite(h, d) \/ all) /\ Tm(h, d, "__gc") # NilValue
  IN  [h EXCEPT !.udata = SelectSeq(@, LAMBDA d : ~take(d)),
                !.tmudata = @ \o SelectSeq(h.udata, take)]
SeparateUdata(h, all) ==
  LET dead(d) == (IsWhite(h, d) \/ all) /\ ~h.obj[d].finalized
      take(d) == dead(d) /\ Tm(h, d, "__gc") # NilValue
  IN  [h EXCEPT !.udata = SelectSeq(@, LAMBDA d : ~take(d)),
                !.tmudata = @ \o SelectSeq(h.udata, take),
                !.obj = [o \in DOMAIN @ |->
                  IF o \in Range(h.udata) /\ dead(o) THEN [@[o] EXCEPT !.finalized = TRUE]
                  ELSE @[o]]]

\* marktmu
MarkTmu(h) == LET S == Range(h.tmudata) IN Mark(Color(h, S, "white"), S)

\* iscleared; strings in weak tables live on
IsCleared(h, v, iskey) ==
  /\ Collectable(v) /\ v \notin Strings
  /\ IsWhite(h, v) \/ (v \in Userdatas /\ ~iskey /\ h.obj[v].finalized)
ClearTable(h) ==
  LET entry(t) == {h.obj[t].key, h.obj[t].val}
      cleared == {t \in h.weak : h.obj[t].val # NilValue
                    /\ (IsCleared(h, h.obj[t].key, TRUE) \/ IsCleared(h, h.obj[t].val, FALSE))}
      kept == {t \in h.weak : h.obj[t].val # NilValue}
      strings == UNION {entry(t) : t \in kept} \cap Strings
      h1 == Color(h, {s \in strings : IsWhite(h, s)}, "gray")
  IN  [h1 EXCEPT !.obj = [o \in DOMAIN @ |->
         IF o \in cleared
         THEN [@[o] EXCEPT !.val = NilValue,
                           !.key = IF Collectable(@) THEN DeadKey ELSE @]
         ELSE @[o]]]

\* rootgc: userdata that wait and open upvalues are elsewhere
Sweepable(h) ==
  DOMAIN h.obj \ (Range(h.tmudata) \cup {u \in Of(h, UpVals) : OpenUpval(h, u)})

\* atomic
RemarkWeak(h) == Mark([h EXCEPT !.gray = h.weak, !.weak = {}], {h.running})
RemarkGray(h) == [h EXCEPT !.gray = h.again, !.again = {}]
Flip(h) ==
  [Color(h, WhiteIn(h, DOMAIN h.obj), "dead") EXCEPT !.state = "sweepstring",
                                                     !.sweep = Sweepable(h)]
Remarked(h) == PropagateAll(RemarkGray(PropagateAll(RemarkWeak(PropagateAll(RemarkUpvals(h))))))
Atomic(h) == Flip(ClearTable(PropagateAll(MarkTmu(SeparateUdata(Remarked(h), FALSE)))))

(***************************************************************************)
(* Barriers.                                                               *)
(***************************************************************************)
\* luaC_barrierf
BarrierF(h, o, v) ==
  IF h.state = "propagate" THEN Mark(h, {v}) ELSE MakeWhite(h, o)
\* luaC_barrier and luaC_objbarrier; a slip: none
NoBarrier(h, o, v) == h
Barrier(h, o, v) ==
  IF Collectable(v) /\ IsWhite(h, v) /\ IsBlack(h, o) THEN BarrierF(h, o, v) ELSE h
\* luaC_barriert and luaC_objbarriert
BarrierBack(h, t, v) ==
  IF Collectable(v) /\ IsWhite(h, v) /\ IsBlack(h, t)
  THEN [Put(h, t, "color", "gray") EXCEPT !.again = @ \cup {t}] ELSE h

(***************************************************************************)
(* Upvalues.                                                               *)
(***************************************************************************)
\* luaC_linkupval
LinkUpval(h, u) ==
  CASE IsGray(h, u) /\ h.state = "propagate" ->
         Barrier(Put(h, u, "color", "black"), u, h.obj[u].val)
    [] IsGray(h, u) /\ h.state # "propagate" -> MakeWhite(h, u)
    [] OTHER -> h

Free(h, S) == [h EXCEPT !.obj = [o \in DOMAIN @ \ S |-> @[o]],
                        !.sweep = @ \ S,
                        !.udata = SelectSeq(@, LAMBDA d : d \notin S)]

\* luaF_close of one upvalue
CloseUpval(h, u) ==
  IF IsDead(h, u) THEN Free(h, {u})
  ELSE LinkUpval([Put(h, u, "val", UpvalValue(h, u)) EXCEPT !.obj[u].at = <<>>], u)
OpenAt(h, t, level) == {u \in Of(h, UpVals) : \E i \in Slots : i >= level /\ h.obj[u].at = <<t, i>>}
RECURSIVE Close(_, _, _)
Close(h, t, level) ==
  LET S == OpenAt(h, t, level)
  IN  IF S = {} THEN h ELSE Close(CloseUpval(h, CHOOSE u \in S : TRUE), t, level)

(***************************************************************************)
(* Sweeping.                                                               *)
(***************************************************************************)
\* sweeplist, one object of it
SweepObject(h, o) ==
  LET h1 == IF IsDead(h, o) THEN Free(h, {o}) ELSE MakeWhite(h, o)
  IN  [h1 EXCEPT !.sweep = @ \ {o}]
RECURSIVE SweepAll(_, _)
SweepAll(h, S) ==
  IF S = {} THEN h
  ELSE LET o == CHOOSE x \in S : TRUE IN SweepAll(SweepObject(h, o), S \ {o})
\* a thread: its open upvalues first; luaE_freethread closes those that live
Sweep(h, o) ==
  IF o \notin Threads THEN SweepObject(h, o)
  ELSE LET h1 == SweepAll(h, OpenAt(h, o, 1))
       IN  SweepObject(IF IsDead(h, o) THEN Close(h1, o, 1) ELSE h1, o)

(***************************************************************************)
(* What a program can reach.                                               *)
(***************************************************************************)
Succ(h, o) == Objects \cap
  CASE o \in Tables \cup {Globals} ->
         {h.obj[o].meta}
         \cup (IF h.obj[o].val = NilValue THEN {}
               ELSE (IF Weak(h, o, "k") THEN {} ELSE {h.obj[o].key})
                    \cup (IF Weak(h, o, "v") THEN {} ELSE {h.obj[o].val}))
    [] o \in Closures -> {h.obj[o].val}
    [] o \in UpVals -> {UpvalValue(h, o)}
    [] o \in Userdatas -> {h.obj[o].meta}
    [] o \in Threads -> StackOf(h, o)
    [] OTHER -> {}
RECURSIVE Closed(_, _)
Closed(h, S) ==
  LET T == S \cup UNION {Succ(h, o) : o \in Of(h, S)}
  IN  IF T = S THEN S ELSE Closed(h, T)
Roots(h) == {Main, Globals, h.running}
Reachable(h) == Closed(h, Roots(h))
\* with what waits for its finalizer
Held(h) == Closed(h, Roots(h) \cup Range(h.tmudata))

(***************************************************************************)
(* The collector's steps (singlestep).                                     *)
(***************************************************************************)
\* Every step of the model goes through here; what was garbage once stays so
\* until it is reached again or freed.
Become(h) ==
  /\ g' = h
  /\ LET held == Held(h) IN garbage' = {o \in garbage \cap DOMAIN h.obj : o \notin held}

Start ==
  /\ g.state = "pause"
  /\ g' = MarkRoot(g)
  /\ garbage' = DOMAIN g.obj \ Held(g)
  /\ UNCHANGED <<pool, ops, called>>

Propagate(o) ==
  /\ g.state = "propagate" /\ o \in g.gray
  /\ Become(PropagateMark(g, o))
  /\ UNCHANGED <<pool, ops, called>>

FinishMarking ==
  /\ g.state = "propagate" /\ g.gray = {}
  /\ Become(Atomic(g))
  /\ UNCHANGED <<pool, ops, called>>

SweepString ==
  /\ g.state = "sweepstring"
  /\ LET S == Of(g, g.sweep) \cap Strings
     IN  IF S = {} THEN Become([g EXCEPT !.state = "sweep"])
         ELSE \E s \in S : Become(Sweep(g, s))
  /\ UNCHANGED <<pool, ops, called>>

\* A thread may come before or after any other object.
SweptNext(S) ==
  (S \cap Threads) \cup (IF S \subseteq Threads THEN {} ELSE {CHOOSE o \in S \ Threads : TRUE})
SweepStep ==
  /\ g.state = "sweep"
  /\ IF g.sweep = {} THEN Become([g EXCEPT !.state = "finalize"])
     ELSE \E o \in SweptNext(g.sweep) : Become(Sweep(g, o))
  /\ UNCHANGED <<pool, ops, called>>

\* GCTM; the finalizer may keep its userdata in a global
Finalized(h) ==
  LET d == Head(h.tmudata)
  IN  MakeWhite([h EXCEPT !.tmudata = Tail(@), !.udata = <<d>> \o @], d)
GCTM(keep) ==
  /\ g.tmudata # <<>>
  /\ LET d == Head(g.tmudata)
         h == Finalized(g)
         runs == Tm(g, d, "__gc") \in Closures
     IN  /\ keep => runs /\ h.obj[Globals].val = NilValue
         /\ called' = IF runs THEN [called EXCEPT ![d] = @ + 1] ELSE called
         /\ Become(IF keep THEN Put(BarrierBack(h, Globals, d), Globals, "val", d) ELSE h)
  /\ UNCHANGED <<pool, ops>>

Finalize ==
  /\ g.state = "finalize"
  /\ \/ \E keep \in BOOLEAN : GCTM(keep)
     \/ /\ g.tmudata = <<>>
        /\ Become([g EXCEPT !.state = "pause", !.full = FALSE])
        /\ UNCHANGED <<pool, ops, called>>

\* luaC_fullgc: what was marked so far is swept back to white, then a whole
\* collection follows, up to the finalizers
RECURSIVE SweepRest(_)
SweepRest(h) ==
  IF h.sweep = {} THEN [h EXCEPT !.state = "finalize"]
  ELSE SweepRest(Sweep(h, CHOOSE o \in h.sweep : TRUE))
Swept(h) ==
  SweepRest(IF h.state \in {"pause", "propagate"}
            THEN [h EXCEPT !.gray = {}, !.again = {}, !.weak = {}, !.sweep = Sweepable(h)]
            ELSE h)
FullGC ==
  /\ ~g.full
  /\ LET h == Swept(g)
         h1 == SweepRest(Atomic(PropagateAll(MarkRoot(h))))
     IN  /\ g' = [h1 EXCEPT !.full = TRUE]
         /\ garbage' = (DOMAIN h.obj \cap DOMAIN h1.obj) \ (Held(h) \cup Held(h1))
  /\ UNCHANGED <<pool, ops, called>>

(***************************************************************************)
(* The program.                                                            *)
(***************************************************************************)
Running == ~g.closing /\ ~g.full
Stack == g.stack[g.running]
OnStack == StackOf(g, g.running)
SetSlot(h, i, v) == [h EXCEPT !.stack[h.running][i] = v]
FreeAddress(S) == (S \cap pool) \ DOMAIN g.obj
\* the program goes on with h
Tick == ops > 0 /\ ops' = ops - 1
Runs(h) == Become(h) /\ Tick /\ UNCHANGED <<pool, called>>

\* luaC_link
Empty == [color |-> "white", key |-> NilValue, val |-> NilValue, meta |-> NilValue,
          at |-> <<>>, finalized |-> FALSE]
New(h, o) ==
  [h EXCEPT !.obj = [x \in DOMAIN @ \cup {o} |->
     IF x = o THEN Empty ELSE @[x]]]

NewTable(o, i) == o \in FreeAddress(Tables) /\ Runs(SetSlot(New(g, o), i, o))

NewUserdata(o, i) ==
  /\ o \in FreeAddress(Userdatas)
  /\ Become(SetSlot([New(g, o) EXCEPT !.udata = <<o>> \o @], i, o))
  /\ called' = [called EXCEPT ![o] = 0]
  /\ Tick /\ UNCHANGED pool

\* luaS_newlstr: a string that is there, dead perhaps, is used again; a slip:
\* as it is
NewStringAsIs(o, i) ==
  /\ o \in Strings \cap pool
  /\ Runs(SetSlot(IF Exists(g, o) THEN g ELSE New(g, o), i, o))
NewString(o, i) ==
  /\ o \in Strings \cap pool
  /\ Runs(SetSlot(CASE ~Exists(g, o) -> New(g, o)
                    [] Exists(g, o) /\ IsDead(g, o) -> MakeWhite(g, o)
                    [] OTHER -> g, i, o))

\* lua_newthread
NewThread(o, i) == o \in FreeAddress(Coroutines)
  /\ Runs(SetSlot([New(g, o) EXCEPT !.stack[o] = [j \in Slots |-> NilValue]], i, o))

\* OP_MOVE, OP_LOADNIL
Move(i, j) == i # j /\ Runs(SetSlot(g, j, Stack[i]))
LoadNil(i) == Stack[i] # NilValue /\ Runs(SetSlot(g, i, NilValue))

Loaded == (OnStack \cap (Tables \cup Userdatas \cup Closures)) \cup {Globals}

\* luaV_gettable
GetTable(t, i) ==
  /\ t \in Loaded \cap (Tables \cup {Globals}) /\ g.obj[t].val \in Objects
  /\ Runs(SetSlot(g, i, g.obj[t].val))

\* luaV_settable with luaH_set and newkey, the node being free or the key's
Entry(k, v) ==
  \/ v = NilValue
  \/ k = "__gc" /\ v \in Closures
  \/ k = "__mode" /\ v \in Modes
  \/ k \notin {"__gc", "__mode"} /\ v \in Objects
SetTable(t, k, v) ==
  /\ t \in Loaded \cap (Tables \cup {Globals}) /\ k # NilValue /\ Entry(k, v)
  /\ g.obj[t].key = k \/ g.obj[t].val = NilValue
  /\ t = Globals => k = "x"
  /\ IF g.obj[t].key = k
     THEN Runs(BarrierBack(Put(g, t, "val", v), t, v))
     ELSE /\ v # NilValue
          /\ Runs(BarrierBack(Put(BarrierBack(Put(g, t, "key", k), t, k), t, "val", v), t, v))

\* lua_setmetatable
SetMetatable(o, mt) ==
  /\ o \in Loaded \cap (Tables \cup Userdatas) /\ mt \in (OnStack \cap Tables) \cup {NilValue}
  /\ LET h == Put(g, o, "meta", mt)
     IN  Runs(IF o \in Tables THEN BarrierBack(h, o, mt) ELSE Barrier(h, o, mt))

\* OP_CLOSURE with luaF_findupval: an upvalue of the slot there is one of is
\* shared, dead or not
NewClosure(o, i, j, u) ==
  /\ o \in FreeAddress(Closures)
  /\ LET here == {v \in Of(g, UpVals) : g.obj[v].at = <<g.running, i>>}
         h == IF here = {}
              THEN [New(g, u) EXCEPT !.obj[u].at = <<g.running, i>>]
              ELSE IF IsDead(g, u) THEN MakeWhite(g, u) ELSE g
     IN  /\ u \in (IF here = {} THEN FreeAddress(UpVals) ELSE here)
         /\ Runs(SetSlot([New(h, o) EXCEPT !.obj[o].val = u], j, o))

\* lua_pushcclosure without upvalues
PushCFunction(o, i) == o \in FreeAddress(Closures) /\ Runs(SetSlot(New(g, o), i, o))

GetUpval(c, i) ==
  /\ c \in OnStack \cap Closures /\ g.obj[c].val # NilValue
  /\ Runs(SetSlot(g, i, UpvalValue(g, g.obj[c].val)))

SetUpval(c, i) ==
  /\ c \in OnStack \cap Closures /\ g.obj[c].val # NilValue
  /\ LET u == g.obj[c].val
         at == g.obj[u].at
         h == IF OpenUpval(g, u) THEN [g EXCEPT !.stack[at[1]][at[2]] = Stack[i]]
              ELSE Put(g, u, "val", Stack[i])
     IN  Runs(Barrier(h, u, Stack[i]))

\* OP_CLOSE, a return
CloseFrom(i) == OpenAt(g, g.running, i) # {} /\ Runs(Close(g, g.running, i))

\* lua_xmove and lua_resume, and back
Resume(co, i) ==
  /\ g.running = Main /\ co \in OnStack \cap Coroutines
  /\ Runs([g EXCEPT !.stack[co][1] = Stack[i], !.running = co])
Yield ==
  /\ g.running # Main
  /\ Runs([g EXCEPT !.running = Main])

(***************************************************************************)
(* lua_close.                                                              *)
(***************************************************************************)
BeginClose ==
  /\ ~g.full /\ ~g.closing /\ g.running = Main
  /\ Become([SeparateUdata(Close(g, Main, 1), TRUE) EXCEPT !.closing = TRUE])
  /\ UNCHANGED <<pool, ops, called>>

CloseFinalizes == g.closing /\ \E keep \in BOOLEAN : GCTM(keep)

\* luaC_freeall
FreeAll ==
  /\ g.closing /\ g.tmudata = <<>> /\ DOMAIN g.obj # {}
  /\ g' = [g EXCEPT !.obj = <<>>, !.sweep = {}, !.udata = <<>>, !.gray = {}, !.again = {},
                    !.weak = {}, !.stack[Main] = [i \in Slots |-> NilValue]]
  /\ garbage' = {}
  /\ UNCHANGED <<pool, ops, called>>

Start0 == [state |-> "pause", gray |-> {}, again |-> {}, weak |-> {}, sweep |-> {},
           tmudata |-> <<>>, full |-> FALSE, closing |-> FALSE, running |-> Main]
\* Nothing is marked yet; the objects of the program are made before the model
\* begins.
Init == \E s \in Starts :
  /\ g = [obj |-> [o \in DOMAIN s.obj \cup {Main, Globals} |->
                    IF o \in DOMAIN s.obj THEN s.obj[o] @@ Empty ELSE Empty],
          stack |-> [t \in Threads |-> IF t \in DOMAIN s.stack THEN s.stack[t] ELSE <<>>],
          udata |-> s.udata] @@ Start0
  /\ pool = DOMAIN s.obj \cup s.free /\ ops = s.ops
  /\ called = [d \in Userdatas |-> 0]
  /\ garbage = {}

Program ==
  /\ Running
  /\ \/ \E i \in Slots :
          \/ \E o \in Tables : NewTable(o, i)
          \/ \E o \in Userdatas : NewUserdata(o, i)
          \/ \E o \in Strings : NewString(o, i)
          \/ \E o \in Coroutines : NewThread(o, i) \/ Resume(o, i)
          \/ \E o \in Closures : PushCFunction(o, i) \/ GetUpval(o, i) \/ SetUpval(o, i)
          \/ \E o \in Closures, j \in Slots, u \in UpVals : NewClosure(o, i, j, u)
          \/ \E j \in Slots : Move(i, j)
          \/ LoadNil(i)
          \/ \E t \in Tables \cup {Globals} : GetTable(t, i)
          \/ CloseFrom(i)
     \/ \E t \in Tables \cup {Globals}, k \in Names \cup OnStack, v \in OnStack \cup Modes \cup {NilValue} :
          SetTable(t, k, v)
     \/ \E o \in Tables \cup Userdatas, mt \in Tables \cup {NilValue} : SetMetatable(o, mt)
     \/ Yield

Collector ==
  /\ ~g.closing
  /\ \/ Start \/ FinishMarking \/ SweepString \/ SweepStep \/ Finalize
     \/ \E o \in g.gray : Propagate(o)
     \/ FullGC

Next == Program \/ Collector \/ BeginClose \/ CloseFinalizes \/ FreeAll

Spec == Init /\ [][Next]_vars

(***************************************************************************)
(* Whatever the program links, drops and closes while the collector is at  *)
(* work, nothing it can still reach is freed: upvalues of dead threads,    *)
(* interned strings and userdata that wait for their finalizers included,  *)
(* and what weak tables and empty nodes name.                              *)
(***************************************************************************)
NodesOf(h, S) == UNION {{h.obj[t].key, h.obj[t].val} \cap Objects : t \in Of(h, S \cap Tables)}
NothingLiveFreed == DOMAIN g.obj # {} =>
  /\ LET held == Held(g) IN held \cup NodesOf(g, held) \subseteq DOMAIN g.obj
  /\ g.gray \cup g.again \cup g.weak \cup Range(g.udata) \subseteq DOMAIN g.obj

(***************************************************************************)
(* While marking goes on, no black object refers to a white one: barriers  *)
(* see to it, and to what has none (stacks and open upvalues) never being  *)
(* black.  An object waits in one list at a time, and between two          *)
(* collections all are white but those that wait for their finalizers.     *)
(***************************************************************************)
TriColour ==
  /\ g.state = "propagate" /\ ~g.closing => \A o \in DOMAIN g.obj :
       IsBlack(g, o) => \A v \in Succ(g, o) : ~IsWhite(g, v)
  /\ g.state \in {"pause", "finalize"} =>
       \A o \in DOMAIN g.obj \ Range(g.tmudata) : IsWhite(g, o)
  /\ g.gray \cap g.again = {} /\ g.gray \cap g.weak = {} /\ g.again \cap g.weak = {}

(***************************************************************************)
(* A finalizer runs once at most, and none of a userdata the program made  *)
(* is left out when the state is closed (those that finalizers make while  *)
(* it is being closed are not in the model).                               *)
(***************************************************************************)
FinalizedOnce ==
  /\ \A d \in Userdatas : called[d] <= 1
  /\ g.closing /\ g.tmudata = <<>> => \A d \in Range(g.udata) :
       g.obj[d].finalized \/ Tm(g, d, "__gc") \notin Closures

(***************************************************************************)
(* What was garbage when a collection began, and stayed so, is gone when   *)
(* it ends.                                                                *)
(***************************************************************************)
GarbageGone == g.state = "pause" => garbage = {}
=============================================================================
