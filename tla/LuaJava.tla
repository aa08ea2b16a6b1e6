------------------------------ MODULE LuaJava ------------------------------
(***************************************************************************)
(* The bridge between Java and the Lua interpreter: LuaState,              *)
(* LuaStateFactory, LuaObject and LuaJavaAPI on one side and               *)
(* jni/luajava/luajava.c on the other.                                     *)
(*                                                                         *)
(* Java holds a Lua value by a LuaObject, a key luaL_ref made in the       *)
(* registry of the Lua state; Lua holds a Java object by a userdata with   *)
(* a JNI global reference.  The LuaObjects Java dropped are finalized on   *)
(* a thread of their own, while the main thread may be inside Lua: what    *)
(* keeps the two apart is the monitor of the LuaState.                     *)
(*                                                                         *)
(* A Java method is the sequence of its native calls: todo[j] holds those  *)
(* thread j has before it.  Lua code that runs under a pcall is the entry  *)
(* "lua"; it may call Java back, whose calls then come before it.          *)
(*                                                                         *)
(* There is one LuaState at a time, as in the service: it is closed before *)
(* the next is made.                                                       *)
(***************************************************************************)
EXTENDS LuaApi, FiniteSets

CONSTANTS
  Objects,      \* LuaObjects Java can hold
  Userdata,     \* userdata blocks Lua can have for Java objects
  MaxStates,    \* LuaStates made in a run
  MaxNest,      \* pcalls inside one another
  MaxLeaks      \* values left behind on the stack

(* There is a first LuaState.                                              *)
ASSUME LuaJavaAssumption == MaxStates \in Nat \ {0}

VARIABLES
  states,       \* LuaStateFactory.states, 0 for null, the LuaState's number otherwise
  made,         \* LuaStates made so far; the last one is made'th
  open,         \* it is not closed
  stateId,      \* its stateId
  S,            \* its lua_State: stack, frames, registry, globals, userdata
  object,       \* the LuaObjects
  todo,         \* native calls before each thread
  monitor,      \* monitor of each LuaState: who holds it, how often
  left          \* values failed calls left on the stack of the state

vars == <<states, made, open, stateId, S, object, todo, monitor, left>>

Threads == {"main", "finalizer"}
Nobody == "nobody"
RefNil == -1

(***************************************************************************)
(* The Lua side.  luaL_ref keeps freed keys in a list through the slots    *)
(* of the registry, its head in slot 0.                                    *)
(***************************************************************************)
NewState(j, id) ==
  [stk |-> <<NilValue>>, base |-> 2,
   ci |-> <<[func |-> 1, base |-> 2, top |-> 2 + MinStack]>>,
   reg |-> <<>>, free |-> 0, x |-> NilValue, ud |-> <<>>, env |-> j, index |-> id]

\* luaL_ref of the value on the top
RefKey(s) ==
  CASE Last(s.stk) = NilValue -> RefNil
    [] Last(s.stk) # NilValue /\ s.free # 0 -> s.free
    [] Last(s.stk) # NilValue /\ s.free = 0 -> Len(s.reg) + 1
\* a slip: the head of the list stays
RefAgain(s) ==
  LET slot == [val |-> Last(s.stk), next |-> 0]
      s1 == Pop(s, 1)
  IN  CASE RefKey(s) = RefNil -> s1
        [] RefKey(s) # RefNil /\ s.free # 0 -> [s1 EXCEPT !.reg[s.free].val = slot.val]
        [] RefKey(s) # RefNil /\ s.free = 0 -> [s1 EXCEPT !.reg = Append(@, slot)]
Ref(s) ==
  LET k == RefKey(s)
      slot == [val |-> Last(s.stk), next |-> 0]
      s1 == Pop(s, 1)
  IN  CASE k = RefNil -> s1
        [] k # RefNil /\ k = s.free -> [s1 EXCEPT !.free = s.reg[k].next, !.reg[k] = slot]
        [] k # RefNil /\ k # s.free -> [s1 EXCEPT !.reg = Append(@, slot)]

\* luaL_unref
Unref(s, k) ==
  IF k < 0 THEN s ELSE [s EXCEPT !.reg[k] = [val |-> "free", next |-> s.free], !.free = k]

\* lua_rawgeti of the registry
RawGetI(s, k) == PushValueOf(s, IF k < 0 THEN NilValue ELSE s.reg[k].val)

\* pushJavaObject, pushJavaClass and _pushJavaFunction: a userdata with the
\* address of a new global reference
FreeUserdata(s) == Userdata \ DOMAIN s.ud
PushJava(s, u, kind) ==
  PushValueOf([s EXCEPT !.ud = [v \in DOMAIN @ \cup {u} |->
                 IF v = u THEN [kind |-> kind, called |-> FALSE] ELSE @[v]]], u)

IsJavaObject(v) == v \in Userdata \cup {"class"}

\* What nothing leads to the collector may take at any allocation; the
\* metamethod gc then calls Java.
Reachable(s) == {s.stk[i] : i \in DOMAIN s.stk} \cup {s.reg[i].val : i \in DOMAIN s.reg}
                \cup {s.x}
Dead(s) == DOMAIN s.ud \ Reachable(s)
Collected(s, D) == [s EXCEPT !.ud = [u \in DOMAIN @ \ D |-> @[u]]]

\* A call puts a frame over its function and arguments; a return takes it
\* off together with them.
BeginFrame(s, nargs) ==
  LET f == Top(s) - nargs - 1
  IN  [s EXCEPT !.base = f + 1,
                !.ci = Append(@, [func |-> f, base |-> f + 1, top |-> Top(s) + MinStack])]
EndFrame(s, results) ==
  [CutTo(s, Frame(s).func) EXCEPT !.stk = @ \o results,
                                  !.ci = Front(@),
                                  !.base = s.ci[Len(s.ci) - 1].base]

(***************************************************************************)
(* The Java side: native calls, and the methods made of them.              *)
(***************************************************************************)
Do(op) == [op |-> op]
Index(op, i) == [op |-> op, i |-> i]
Value(op, v) == [op |-> op, v |-> v]
Of(op, o) == [op |-> op, o |-> o]

Synchronized(body) == <<Do("lock")>> \o body \o <<Do("unlock")>>

\* LuaObject(LuaState, String)
OfGlobal(o, g) == Synchronized(
  <<Value("getGlobal", g), Index("pushValue", -1), Of("ref", o), Index("pop", 1)>>)

\* LuaObject(LuaObject, String), of a parent without metamethods (a Java object
\* is not made one); a slip: the parent stays below the field
OfFieldKeepsParent(o, p) == Synchronized(
  <<Of("push", p), Do("checkTable"), Index("pop", 1),
    Of("push", p), Value("pushString", "string"), Index("getTable", -2),
    Index("pushValue", -1), Of("ref", o), Index("pop", 1)>>)
OfField(o, p) == Synchronized(
  <<Of("push", p), Do("checkTable"), Index("pop", 1),
    Of("push", p), Value("pushString", "string"), Index("getTable", -2),
    Index("remove", -2), Index("pushValue", -1), Of("ref", o), Index("pop", 1)>>)

\* LuaObject.getObject
GetObjectOf(o) == Synchronized(<<Of("push", o), Do("getObject"), Index("pop", 1)>>)

\* LuaObject.call with one argument
CallOf(o, nres, r) == Synchronized(
  <<Of("push", o), Do("checkCallable"), Index("pop", 1),
    Of("push", o), Do("pushObjectValue"),
    [op |-> "pcall", args |-> 1, n |-> nres, o |-> r]>>)

\* what queueLuaCode posts: each call synchronized by itself, a message
\* handler below the function
RunQueuedCode ==
  <<Index("setTop", 0), Do("loadString"), Value("getGlobal", "table"),
    Value("getField", "function"), Index("remove", -2), Index("insert", -2),
    [op |-> "pcall", args |-> 0, n |-> 0]>>

\* LuaState.pushJavaObject and setGlobal, each synchronized by itself
GiveToLua == <<Do("pushJavaObject"), Value("setGlobal", "x")>>

\* LuaObject.finalize
FinalizeOf(o) == Synchronized(<<Of("ifOpen", o), Of("unref", o)>>)

\* LuaJavaAPI.objectIndex and classIndex of a field, objectIndex of a method,
\* javaNewInstance and javaNew, javaLoadLib, createProxyObject, and execute of
\* a JavaFunction, each under the C function that calls it
FieldValue == Synchronized(<<Do("pushResult")>>) \o <<Do("return")>>
InvokeMethod == Synchronized(<<[op |-> "method", locked |-> TRUE], Do("pushResult")>>)
                \o <<Do("return")>>
NewInstance == Synchronized(<<[op |-> "method", locked |-> TRUE], Do("pushJavaObject")>>)
               \o <<Do("return")>>
LoadLib == Synchronized(<<[op |-> "method", locked |-> TRUE]>>) \o <<Do("return")>>
CreateProxy(o) == Synchronized(<<Index("pushValue", 2), Of("ref", o), Do("pushJavaObject")>>)
                  \o <<Do("return")>>
Execute == <<[op |-> "method", locked |-> FALSE], Do("pushResult"), Do("return")>>

NoObject == [st |-> "none", ref |-> RefNil, val |-> NilValue, of |-> 1]

Busy(j) == todo[j] # <<>>
InUse(o) == \E i \in DOMAIN todo["main"] :
  LET x == todo["main"][i] IN "o" \in DOMAIN x /\ x.o = o
Unused(o) == object[o].st = "none" /\ ~InUse(o)

\* how many pcalls are under way
Nest == Cardinality({i \in DOMAIN todo["main"] : todo["main"][i].op = "lua"})

Op(j, op) == Busy(j) /\ Head(todo[j]).op = op
Arg(j) == Head(todo[j])
Then(j, s) == todo' = [todo EXCEPT ![j] = s \o Tail(@)]
Go(j) == Then(j, <<>>)

\* The LuaState whose methods a thread calls: the finalizer's is that of the
\* LuaObject, which may be an older one.
Target(j) == IF j = "main" THEN made ELSE object[Arg(j).o].of
CanAlwaysEnter(j, g) == TRUE            \* a slip: not synchronized
CanEnter(j, g) == monitor[g].by \in {Nobody, j}
Enter(g, j) == monitor' = [monitor EXCEPT ![g] = [by |-> j, n |-> @.n + 1]]
Exit(g) == monitor' = [monitor EXCEPT ![g] =
             [by |-> IF @.n = 1 THEN Nobody ELSE @.by, n |-> @.n - 1]]

\* getStateFromCPtr and pushJNIEnv: every native call leaves the environment
\* of its thread in the registry.  Before, it pushes a string: the dead
\* userdata D are collected, gc finding the environment of the call before.
FromCPtr(s, j, D) == [Collected(s, D) EXCEPT !.env = j]

\* A native method of LuaState, one step inside the monitor.  What its own
\* allocations collect is dead before.
Native(j, s) ==
  /\ CanEnter(j, made)
  /\ \E D \in SUBSET Dead(S) : S' = FromCPtr(s, j, D)
  /\ UNCHANGED <<states, made, open, stateId, monitor>>

(***************************************************************************)
(* synchronized (L) { ... }                                                *)
(***************************************************************************)
Holder(j) == IF j = "main" THEN made
             ELSE object[CHOOSE o \in Objects : object[o].st = "finalizing"].of

Lock(j) ==
  /\ Op(j, "lock") /\ CanEnter(j, Holder(j))
  /\ Enter(Holder(j), j) /\ Go(j)
  /\ UNCHANGED <<states, made, open, stateId, S, object, left>>

Unlock(j) ==
  /\ Op(j, "unlock")
  /\ Exit(Holder(j)) /\ Go(j)
  /\ object' = [o \in Objects |-> IF j = "finalizer" /\ object[o].st = "finalizing"
                                  THEN NoObject ELSE object[o]]
  /\ UNCHANGED <<states, made, open, stateId, S, left>>

(***************************************************************************)
(* Native methods.                                                         *)
(***************************************************************************)
\* _pushValue, _remove, _insert, _pop
StackOp(j) ==
  /\ \/ Op(j, "insert") /\ Native(j, InsertIndex(S, Arg(j).i))
     \/ Op(j, "pushValue") /\ Native(j, PushValue(S, Arg(j).i))
     \/ Op(j, "remove") /\ Native(j, RemoveIndex(S, Arg(j).i))
     \/ Op(j, "pop") /\ Native(j, Pop(S, Arg(j).i))
  /\ Go(j) /\ UNCHANGED <<object, left>>

\* _setTop(0): what was left is gone
SetTopZero(j) ==
  /\ Op(j, "setTop") /\ Native(j, SetTop(S, Arg(j).i))
  /\ Go(j) /\ left' = 0 /\ UNCHANGED object

\* _LloadString: a function, or a message and the end of the queued code
LoadString(j) ==
  /\ Op(j, "loadString")
  /\ \/ Native(j, PushValueOf(S, "function")) /\ Go(j) /\ UNCHANGED left
     \/ Native(j, PushValueOf(S, "string")) /\ todo' = [todo EXCEPT ![j] = <<>>] /\ left' = 1
  /\ UNCHANGED object

\* _pushString, _pushNumber and their like
PushOp(j) ==
  /\ Op(j, "pushString") /\ Native(j, PushValueOf(S, Arg(j).v))
  /\ Go(j) /\ UNCHANGED <<object, left>>

\* _getGlobal; x is what Java put there
GetGlobal(j) ==
  /\ Op(j, "getGlobal")
  /\ Native(j, PushValueOf(S, IF Arg(j).v = "x" THEN S.x ELSE Arg(j).v))
  /\ Go(j) /\ UNCHANGED <<object, left>>

SetGlobal(j) ==
  /\ Op(j, "setGlobal")
  /\ Native(j, Pop([S EXCEPT !.x = Last(S.stk)], 1))
  /\ Go(j) /\ UNCHANGED <<object, left>>

\* _getField of a table without metamethods, the table being on the top
GetField(j) ==
  /\ Op(j, "getField") /\ Native(j, PushValueOf(S, Arg(j).v))
  /\ Go(j) /\ UNCHANGED <<object, left>>

\* _getTable of a table without metamethods: the key gives way to the field
GetTable(j, v) ==
  /\ Op(j, "getTable")
  /\ Native(j, PushValueOf(Pop(S, 1), v))
  /\ Go(j) /\ UNCHANGED <<object, left>>

\* LuaObject.push
PushObject(j) ==
  /\ Op(j, "push") /\ Native(j, RawGetI(S, object[Arg(j).o].ref))
  /\ Go(j) /\ UNCHANGED <<object, left>>

\* isTable, or isFunction, isTable and isUserdata: on failure the method
\* throws, after it popped, and leaves its synchronized block
Check(j) ==
  /\ \/ Op(j, "checkTable") /\ Then(j, IF Last(S.stk) = "table" THEN <<>> ELSE <<Do("fail")>>)
     \/ Op(j, "checkCallable") /\ Then(j, IF Last(S.stk) \in {"function", "table", "class"} \cup Userdata
                                          THEN <<>> ELSE <<Do("fail")>>)
  /\ Native(j, S) /\ UNCHANGED <<object, left>>

\* the exception leaves by the end of the block
UpToUnlock(s) == SubSeq(s, SelectInSeq(s, LAMBDA x : x.op = "unlock"), Len(s))
LeaveBlock(j) ==
  /\ Op(j, "fail")
  /\ Native(j, Pop(S, 1))
  /\ todo' = [todo EXCEPT ![j] = UpToUnlock(@)]
  /\ UNCHANGED <<object, left>>

\* _getObjectFromUserdata: what is no Java object is left on the stack by the
\* exception, unless it goes with the frame of a callback
GetObject(j) ==
  /\ Op(j, "getObject")
  /\ \/ IsJavaObject(Last(S.stk)) /\ Go(j) /\ UNCHANGED left
     \/ /\ ~IsJavaObject(Last(S.stk)) /\ (Nest > 0 \/ left < MaxLeaks)
        /\ todo' = [todo EXCEPT ![j] = UpToUnlock(@)]
        /\ left' = IF Nest = 0 THEN left + 1 ELSE left
  /\ Native(j, S) /\ UNCHANGED object

\* _pushJavaObject
PushJavaObject(j, u, kind) ==
  /\ Op(j, "pushJavaObject") /\ Native(j, PushJava(S, u, kind))
  /\ Go(j) /\ UNCHANGED <<object, left>>

\* pushObjectValue of a number, a string or another object
PushObjectValue(j) ==
  /\ Op(j, "pushObjectValue") \/ Op(j, "pushResult")
  /\ \/ Native(j, PushValueOf(S, "number"))
     \/ \E u \in FreeUserdata(S) : Native(j, PushJava(S, u, "object"))
  /\ Go(j) /\ UNCHANGED <<object, left>>

\* _Lref in LuaObject.registerValue
RegisterValue(j) ==
  /\ Op(j, "ref")
  /\ object' = [object EXCEPT ![Arg(j).o] =
       [st |-> "live", ref |-> RefKey(S), val |-> Last(S.stk), of |-> made]]
  /\ Native(j, Ref(S)) /\ Go(j) /\ UNCHANGED left

\* getCPtrPeer() != 0 in LuaObject.finalize; a slip: no such test
IfOpenUnchecked(j) ==
  /\ Op(j, "ifOpen") /\ Go(j)
  /\ UNCHANGED <<states, made, open, stateId, S, object, monitor, left>>
IfOpen(j) ==
  /\ Op(j, "ifOpen")
  /\ todo' = [todo EXCEPT ![j] = IF Target(j) = made /\ open THEN Tail(@) ELSE UpToUnlock(@)]
  /\ UNCHANGED <<states, made, open, stateId, S, object, monitor, left>>

UnRef(j) ==
  /\ Op(j, "unref")
  /\ Native(j, Unref(S, object[Arg(j).o].ref)) /\ Go(j)
  /\ UNCHANGED <<object, left>>

(***************************************************************************)
(* pcall.  The private native method is synchronized: the monitor is held  *)
(* while Lua runs.                                                         *)
(***************************************************************************)
Pcall(j) ==
  /\ Op(j, "pcall") /\ CanEnter(j, made) /\ Nest < MaxNest
  /\ Enter(made, j)
  /\ \E D \in SUBSET Dead(S) : S' = BeginFrame(FromCPtr(S, j, D), Arg(j).args)
  /\ Then(j, <<[Arg(j) EXCEPT !.op = "lua"]>>)
  /\ UNCHANGED <<states, made, open, stateId, object, left>>

\* Lua returns.  call() makes Java objects of the results and pops them;
\* queued code leaves the handler.
LuaReturns(j, v) ==
  /\ Op(j, "lua")
  /\ S' = EndFrame(S, IF Arg(j).n = 0 THEN <<>> ELSE <<v>>)
  /\ Exit(made)
  /\ Then(j, IF Arg(j).n = 0 THEN <<>>
             ELSE (IF v \in {"table", "function"}
                   THEN <<Index("pushValue", -1), Of("ref", Arg(j).o)>> ELSE <<>>)
                  \o <<Index("pop", 1)>>)
  /\ left' = IF Arg(j).args = 0 THEN left + 1 ELSE left
  /\ UNCHANGED <<states, made, open, stateId, object>>

\* An error in Lua ends the pcall p.  call() pops its message, but no other
\* value; queued code leaves it over the handler.  What stays in a callback's
\* frame goes with the frame.
Fail(j, p, rest, s, v) ==
  /\ S' = EndFrame(s, <<v>>)
  /\ Exit(made)
  /\ todo' = [todo EXCEPT ![j] =
       (IF p.args = 1 /\ v = "string" THEN <<Index("pop", 1)>> ELSE <<>>) \o rest]
  /\ left' = CASE p.args = 0 -> left + 2
               [] p.args = 1 /\ v = "string" -> left
               [] p.args = 1 /\ v # "string" -> IF Nest = 1 THEN left + 1 ELSE left
  /\ UNCHANGED <<states, made, open, stateId, object>>

LuaFails(j, v) ==
  /\ Op(j, "lua") /\ (v = "string" \/ left < MaxLeaks)
  /\ Fail(j, Arg(j), Tail(todo[j]), S, v)

(***************************************************************************)
(* Lua calls Java.                                                         *)
(***************************************************************************)
CallBack(j, args, script) ==
  /\ S' = BeginFrame([S EXCEPT !.stk = @ \o <<"function">> \o args], Len(args))
  /\ todo' = [todo EXCEPT ![j] = script \o @]
  /\ UNCHANGED <<states, made, open, stateId, object, monitor, left>>

\* What Lua can name: a userdata of some kind, or a class it bound
Named(j, u, kind) ==
  Op(j, "lua") /\ u \in Reachable(S) \cap DOMAIN S.ud /\ S.ud[u].kind = kind
NamedClass(j) == Op(j, "lua") /\ "class" \in Reachable(S)

\* objectIndex: a field's value is pushed, or the name of the method is kept in
\* the metatable for the call that follows
ObjectIndex(j, u) ==
  /\ Named(j, u, "object")
  /\ \/ CallBack(j, <<u, "string">>, FieldValue)
     \/ /\ ~S.ud[u].called
        /\ S' = [S EXCEPT !.ud[u].called = TRUE]
        /\ UNCHANGED <<states, made, open, stateId, object, todo, monitor, left>>

\* objectIndexReturn
ObjectIndexReturn(j, u) ==
  /\ Named(j, u, "object") /\ S.ud[u].called
  /\ CallBack(j, <<u>>, InvokeMethod)

\* luaJavaFunctionCall
JavaFunctionCall(j, u) == Named(j, u, "function") /\ CallBack(j, <<u>>, Execute)

\* javaBindClass with pushJavaClass: one class is as good as another
KeepClass(s) == [s EXCEPT !.x = "class"]
JavaBindClass(j) ==
  /\ Op(j, "lua") /\ S.x # "class"
  /\ S' = KeepClass(S)
  /\ UNCHANGED <<states, made, open, stateId, object, todo, monitor, left>>

\* classIndex of a field; of a method, with the call that follows
ClassIndex(j) ==
  /\ NamedClass(j)
  /\ \/ CallBack(j, <<"class", "string">>, FieldValue)
     \/ CallBack(j, <<"class">>, InvokeMethod)

\* javaNew
JavaNew(j) ==
  NamedClass(j) /\ FreeUserdata(S) # {} /\ CallBack(j, <<"class">>, NewInstance)

\* javaLoadLib: a static method of a Java library
JavaLoadLib(j) == Op(j, "lua") /\ CallBack(j, <<"string", "string">>, LoadLib)

\* javaNewInstance
JavaNewInstance(j) ==
  /\ Op(j, "lua") /\ FreeUserdata(S) # {} /\ CallBack(j, <<"string">>, NewInstance)

\* createProxy: the handler of the proxy holds the table by a LuaObject
JavaCreateProxy(j, o) ==
  /\ Op(j, "lua") /\ Unused(o) /\ FreeUserdata(S) # {}
  /\ CallBack(j, <<"string", "table">>, CreateProxy(o))

\* The C function returns to Lua, which keeps an object in x or drops it.
CallbackReturns(j) ==
  /\ Op(j, "return")
  /\ \/ S' = EndFrame(S, <<>>)
     \/ /\ GetTop(S) > 0 /\ Last(S.stk) \in Userdata
        /\ S' = [EndFrame(S, <<>>) EXCEPT !.x = Last(S.stk)]
  /\ Go(j)
  /\ UNCHANGED <<states, made, open, stateId, object, monitor, left>>

\* A Java exception: its message becomes a Lua error, raised when the
\* synchronized block of LuaJavaAPI is left.
Throws(j) ==
  /\ Op(j, "method")
  /\ todo' = [todo EXCEPT ![j] = (IF Arg(j).locked THEN <<Do("unlock")>> ELSE <<>>)
       \o <<Do("error")>> \o SubSeq(@, SelectInSeq(@, LAMBDA x : x.op = "lua"), Len(@))]
  /\ UNCHANGED <<states, made, open, stateId, S, object, monitor, left>>

LuaError(j) ==
  /\ Op(j, "error")
  /\ Fail(j, todo[j][2], SubSeq(todo[j], 3, Len(todo[j])), EndFrame(S, <<>>), "string")

\* Lua code, or a C function it calls, allocates and collects.
CollectUserdata(j, u) ==
  /\ Op(j, "lua") /\ u \in Dead(S)
  /\ S' = Collected(S, {u})
  /\ UNCHANGED <<states, made, open, stateId, object, todo, monitor, left>>

(***************************************************************************)
(* What the threads start.                                                 *)
(***************************************************************************)
\* Java code runs: at rest, or as a method Lua called
Begins(s) == open /\ ~Busy("main") /\ todo' = [todo EXCEPT !["main"] = s]
Nested(s) == Op("main", "method") /\ Nest < MaxNest /\ Then("main", s)

Start ==
  /\ \/ \E o \in Objects, g \in {"function", "x"} :
          Unused(o) /\ (Begins(OfGlobal(o, g)) \/ Nested(OfGlobal(o, g)))
     \/ \E o \in Objects, p \in Objects :
          Unused(o) /\ object[p].st = "live" /\ object[p].of = made
          /\ object[p].val \notin Userdata \cup {"class"} /\ Begins(OfField(o, p))
     \/ \E o \in Objects, r \in Objects :
          /\ object[o].st = "live" /\ object[o].of = made
          /\ \/ Nested(CallOf(o, 0, o))
             \/ Unused(r) /\ Begins(CallOf(o, 1, r))
     \/ \E o \in Objects :
          /\ object[o].st = "live" /\ object[o].of = made
          /\ Begins(GetObjectOf(o)) \/ Nested(GetObjectOf(o))
     \/ FreeUserdata(S) # {} /\ Begins(GiveToLua)
     \/ Begins(RunQueuedCode)
  /\ UNCHANGED <<states, made, open, stateId, S, object, monitor, left>>

\* the Java method Lua called is done; a void one has no result
MethodReturns ==
  /\ Op("main", "method")
  /\ \/ Go("main")
     \/ /\ Arg("main").locked /\ todo["main"][2].op = "pushResult"
        /\ todo' = [todo EXCEPT !["main"] = SubSeq(@, 3, Len(@))]
  /\ UNCHANGED <<states, made, open, stateId, S, object, monitor, left>>

\* Java lets go of a LuaObject; the finalizer thread gets it.
Finalize(o) ==
  /\ object[o].st = "live" /\ ~InUse(o) /\ ~Busy("finalizer")
  /\ object' = [object EXCEPT ![o].st = "finalizing"]
  /\ todo' = [todo EXCEPT !["finalizer"] = FinalizeOf(o)]
  /\ UNCHANGED <<states, made, open, stateId, S, monitor, left>>

\* LuaState.close: removeLuaState puts a null before the entry, lua_close
\* finalizes every userdata
RemoveLuaState(id) == states' = InsertAt(states, id + 1, 0)
Close ==
  /\ open /\ ~Busy("main") /\ CanEnter("main", made)
  /\ open' = FALSE
  /\ RemoveLuaState(stateId)
  /\ S' = [S EXCEPT !.ud = <<>>, !.stk = <<>>]
  /\ UNCHANGED <<made, stateId, object, todo, monitor, left>>

\* getNextStateIndex
NextStateIndex == SelectInSeq(states \o <<0>>, LAMBDA s : s = 0) - 1

\* newLuaState and the constructor it calls: _open, luajava_open; a slip: the
\* state is added at the end of the list
AddAtEnd(id, g) == Append(states, g)
Add(id, g) == InsertAt(states, id + 1, g)
NewLuaState ==
  /\ ~open /\ ~Busy("main") /\ made < MaxStates
  /\ made' = made + 1 /\ open' = TRUE
  /\ stateId' = NextStateIndex
  /\ states' = Add(NextStateIndex, made + 1)
  /\ S' = NewState("main", NextStateIndex)
  /\ left' = 0
  /\ UNCHANGED <<object, todo, monitor>>

Init ==
  /\ made = 1 /\ open = TRUE /\ stateId = 0 /\ states = <<1>>
  /\ S = NewState("main", 0)
  /\ object = [o \in Objects |-> NoObject]
  /\ todo = [j \in Threads |-> <<>>]
  /\ monitor = [g \in 1 .. MaxStates |-> [by |-> Nobody, n |-> 0]]
  /\ left = 0

NativeStep(j) ==
  \/ Lock(j) \/ Unlock(j) \/ StackOp(j) \/ PushOp(j) \/ GetGlobal(j) \/ SetGlobal(j)
  \/ SetTopZero(j) \/ LoadString(j) \/ GetField(j)
  \/ \E v \in {"nil", "function"} : GetTable(j, v)
  \/ PushObject(j) \/ Check(j) \/ LeaveBlock(j) \/ GetObject(j)
  \/ \E u \in FreeUserdata(S), kind \in {"object", "function"} : PushJavaObject(j, u, kind)
  \/ PushObjectValue(j) \/ RegisterValue(j) \/ IfOpen(j) \/ UnRef(j) \/ Pcall(j)

LuaStep(j) ==
  \/ \E v \in {"number", "table"} : LuaReturns(j, v)
  \/ \E v \in {"string", "table"} : LuaFails(j, v)
  \/ \E u \in Userdata : \/ ObjectIndex(j, u) \/ ObjectIndexReturn(j, u)
                         \/ JavaFunctionCall(j, u) \/ CollectUserdata(j, u)
  \/ JavaBindClass(j) \/ ClassIndex(j) \/ JavaNew(j)
  \/ JavaNewInstance(j) \/ JavaLoadLib(j)
  \/ \E o \in Objects : JavaCreateProxy(j, o)
  \/ CallbackReturns(j) \/ Throws(j) \/ LuaError(j)

Next ==
  \/ \E j \in Threads : NativeStep(j)
  \/ LuaStep("main")
  \/ Start \/ MethodReturns \/ Close \/ NewLuaState
  \/ \E o \in Objects : Finalize(o)

Spec == Init /\ [][Next]_vars

(***************************************************************************)
(* A key of the registry belongs to one LuaObject from luaL_ref to         *)
(* luaL_unref: what the object names stays under it, and no two objects    *)
(* share one, however references come and go on both threads.              *)
(***************************************************************************)
Holding == {o \in Objects : object[o].st # "none" /\ object[o].of = made /\ open}
Pending(o) == object[o].st = "live" \/ \E i \in DOMAIN todo["finalizer"] :
  todo["finalizer"][i].op = "unref"
RefsKept == \A o \in Holding : Pending(o) =>
  /\ IF object[o].val = NilValue THEN object[o].ref = RefNil
     ELSE S.reg[object[o].ref].val = object[o].val
  /\ \A p \in Holding \ {o} : Pending(p) /\ object[p].ref # RefNil =>
       object[p].ref # object[o].ref

(***************************************************************************)
(* The JNI environment that callbacks, and the metamethod gc, take from    *)
(* the registry is that of the thread that runs Lua: as long as Lua code   *)
(* or a method it called is under way no native call of another thread     *)
(* replaces it, and what is collected is collected by that thread, in Lua  *)
(* code and in the native calls of those methods.  Otherwise the code does *)
(* not guarantee it: a native call collects before it stores the           *)
(* environment (luajava.c:1489), and gc gets that of the call before.      *)
(***************************************************************************)
InsideLua(j) == \E i \in DOMAIN todo[j] : todo[j][i].op = "lua"
EnvIsRunning == \A j \in Threads : InsideLua(j) => S.env = j

Collects == DOMAIN S.ud \ DOMAIN S'.ud # {} /\ open'
Collector == IF todo'["finalizer"] = todo["finalizer"] THEN "main" ELSE "finalizer"
OwnEnv ==
  [][\A j \in Threads : InsideLua(j) => S.env = j /\ (Collects => Collector = j)]_vars

(***************************************************************************)
(* The stateIndex a callback passes to LuaJavaAPI finds the LuaState whose *)
(* Lua code called it, after states were closed and made anew.             *)
(***************************************************************************)
StateFound == \A j \in Threads : InsideLua(j) => states[S.index + 1] = made

(***************************************************************************)
(* The finalizer of a LuaObject touches no state but its own, and not      *)
(* after close.                                                            *)
(***************************************************************************)
ClosedUntouched == Op("finalizer", "unref") => open /\ Target("finalizer") = made

(***************************************************************************)
(* Between methods the Lua stack holds what is known to be left there: the *)
(* handler of queued code and its message, the value of a call that failed *)
(* with no string, the value getObject refused.  Every other method takes  *)
(* down what it put up, on its exits by exception too.                     *)
(***************************************************************************)
NothingElseLeft == open /\ ~Busy("main") => GetTop(S) = left
=============================================================================
