------------------------- MODULE SmartContextProofs -------------------------
(***************************************************************************)
(* Proofs about SmartContext, for every set of symbols and rules, any      *)
(* number of service objects and any length of the message queue.          *)
(***************************************************************************)
EXTENDS ServiceInvariant, FiniteSetTheorems, FunctionTheorems,
        SequenceTheorems, WellFoundedInduction, TLAPS

-----------------------------------------------------------------------------
(* Messages and queues                                                     *)

(* What a message carries, by its type.                                    *)
LEMMA MessageFacts ==
  ASSUME NEW m \in Message
  PROVE  /\ m.type = "create" => m = [type |-> "create"]
         /\ m.type = "destroy" => m = [type |-> "destroy"]
         /\ m.type \in {"onCreate", "onResume", "onPause", "onDestroy"} =>
              m.screen \in Screens /\ m = [type |-> m.type, screen |-> m.screen]
         /\ m.type = "request" => m.for \in Askers
         /\ m.type = "resetUI" => m.of \in Instances /\ m.shows \in SUBSET Names
                                    /\ m.for \in Askers /\ "of" \in DOMAIN m
         /\ m.type = "notify" => m.name \in Names /\ m.value \in BOOLEAN
         /\ m.type = "lua" => /\ m.of \in Instances /\ "of" \in DOMAIN m
                              /\ m.word # "require" =>
                                   m.name \in InternalNames /\ m.word \in {"enter", "leave"}
         /\ m.type \in {"click", "delete"} => m.of \in Instances
<1>1. CASE m \in [type : {"create", "destroy", "change"}]
  BY <1>1
<1>2. CASE m \in [type : {"onCreate", "onResume", "onPause", "onDestroy"}, screen : Screens]
  BY <1>2
<1>3. CASE m \in [type : {"request"}, for : Askers]
  BY <1>3
<1>4. CASE m \in [type : {"resetUI"}, of : Instances, shows : SUBSET Names, for : Askers]
  BY <1>4
<1>5. CASE m \in [type : {"notify"}, name : Names, value : BOOLEAN]
  BY <1>5
<1>6. CASE m \in [type : {"lua"}, of : Instances, name : InternalNames, word : {"enter", "leave"}]
  BY <1>6
<1>7. CASE m \in [type : {"lua"}, of : Instances, name : {"demo"}, word : {"require"}]
  BY <1>7
<1>8. CASE m \in [type : {"click", "delete"}, of : Instances]
  BY <1>8
<1> QED
  BY <1>1, <1>2, <1>3, <1>4, <1>5, <1>6, <1>7, <1>8 DEF Message

(* Each kind of message posted is one of them.                             *)
LEMMA MessageKinds ==
  /\ \A t \in {"create", "destroy", "change"} : [type |-> t] \in Message
  /\ \A t \in {"onCreate", "onResume", "onPause", "onDestroy"}, s \in Screens :
       [type |-> t, screen |-> s] \in Message
  /\ \A a \in Askers : [type |-> "request", for |-> a] \in Message
  /\ \A i \in Instances, A \in SUBSET Names, a \in Askers :
       [type |-> "resetUI", of |-> i, shows |-> A, for |-> a] \in Message
  /\ \A n \in Names, b \in BOOLEAN : [type |-> "notify", name |-> n, value |-> b] \in Message
  /\ \A i \in Instances, s \in InternalNames, w \in {"enter", "leave"} :
       [type |-> "lua", of |-> i, name |-> s, word |-> w] \in Message
  /\ \A i \in Instances : [type |-> "lua", of |-> i, name |-> "demo", word |-> "require"] \in Message
  /\ \A t \in {"click", "delete"}, i \in Instances : [type |-> t, of |-> i] \in Message
  BY DEF Message

(* The first d messages of q are gone and r has the others in front.       *)
Shift(q, r, d) ==
  /\ Len(q) \in Nat /\ Len(r) \in Nat /\ DOMAIN q = 1..Len(q) /\ DOMAIN r = 1..Len(r)
  /\ d <= Len(q) /\ Len(q) - d <= Len(r)
  /\ \A k \in 1..(Len(q) - d) : r[k] = q[k + d]

(* Taking the head and posting behind the rest.                            *)
LEMMA QueueHandled ==
  ASSUME NEW M, NEW q \in Seq(M), q # <<>>, NEW m \in Seq(M), NEW r, r = Tail(q) \o m
  PROVE  /\ r \in Seq(M) /\ Len(r) = Len(q) - 1 + Len(m) /\ Len(q) \in Nat /\ Len(q) >= 1
         /\ Head(q) = q[1] /\ Len(m) \in Nat
         /\ DOMAIN q = 1..Len(q) /\ DOMAIN r = 1..Len(r) /\ DOMAIN m = 1..Len(m)
         /\ \A k \in 1..(Len(q) - 1) : r[k] = q[k + 1]
         /\ \A k \in Len(q)..Len(r) : k - Len(q) + 1 \in DOMAIN m /\ r[k] = m[k - Len(q) + 1]
<1> DEFINE t == Tail(q)
<1>1. /\ t \in Seq(M) /\ Len(t) = Len(q) - 1 /\ Len(q) \in Nat /\ Len(q) >= 1
      /\ \A k \in 1..(Len(q) - 1) : t[k] = q[k + 1]
  BY HeadTailProperties, LenProperties, EmptySeq
<1> HIDE DEF t
<1>2. /\ t \o m \in Seq(M) /\ Len(t \o m) = Len(t) + Len(m)
      /\ \A k \in 1..Len(t) : (t \o m)[k] = t[k]
      /\ \A k \in (Len(t) + 1)..(Len(t) + Len(m)) : (t \o m)[k] = m[k - Len(t)]
  <2>1. /\ t \o m \in Seq(M) /\ Len(t \o m) = Len(t) + Len(m) /\ Len(m) \in Nat
        /\ \A k \in 1..(Len(t) + Len(m)) :
             (t \o m)[k] = IF k <= Len(t) THEN t[k] ELSE m[k - Len(t)]
    BY <1>1, ConcatProperties, LenProperties
  <2> DEFINE c == t \o m
  <2> HIDE DEF c
  <2> QED
    BY <1>1, <2>1 DEF c
<1>3. r = t \o m
  BY DEF t
<1>4. ASSUME NEW k \in Len(q)..Len(r) PROVE k - Len(q) + 1 \in DOMAIN m /\ r[k] = m[k - Len(q) + 1]
  <2>1. k \in (Len(t) + 1)..(Len(t) + Len(m)) /\ k - Len(t) = k - Len(q) + 1 /\ k - Len(t) \in 1..Len(m)
    BY <1>1, <1>2, <1>3
  <2> QED
    BY <1>2, <1>3, <2>1
<1>5. \A k \in 1..(Len(q) - 1) : r[k] = q[k + 1]
  BY <1>1, <1>2, <1>3
<1> QED
  BY <1>1, <1>2, <1>3, <1>4, <1>5

(* One more at the end.                                                    *)
LEMMA QueueAppended ==
  ASSUME NEW M, NEW q \in Seq(M), NEW m \in M, NEW r, r = Append(q, m)
  PROVE  /\ r \in Seq(M) /\ Len(r) = Len(q) + 1 /\ Len(q) \in Nat
         /\ DOMAIN q = 1..Len(q) /\ DOMAIN r = 1..Len(r)
         /\ \A k \in 1..Len(q) : r[k] = q[k]
         /\ r[Len(q) + 1] = m
  OBVIOUS

-----------------------------------------------------------------------------
(* Counting messages                                                       *)

LEMMA CountFinite ==
  ASSUME NEW T, NEW q, NEW k \in Nat
  PROVE  IsFiniteSet({j \in 1..k : q[j] \in T}) /\ Count(T, q, k) \in Nat
<1>1. IsFiniteSet(1..k)
  BY FS_Interval
<1>2. {j \in 1..k : q[j] \in T} \in SUBSET (1..k)
  OBVIOUS
<1>3. IsFiniteSet({j \in 1..k : q[j] \in T})
  BY <1>1, <1>2, FS_Subset
<1> QED
  BY <1>3, FS_CardinalityType DEF Count

(* Equal prefixes count the same, and a longer one counts its last message.*)
LEMMA CountPrefix ==
  ASSUME NEW T, NEW q, NEW r, NEW k \in Nat, \A j \in 1..k : r[j] = q[j],
         NEW i \in Nat, i - k = 1
  PROVE  /\ Count(T, r, k) = Count(T, q, k)
         /\ Count(T, r, i) = Count(T, q, k) + (IF r[i] \in T THEN 1 ELSE 0)
<1> DEFINE S == {j \in 1..k : q[j] \in T}
           Sr == {j \in 1..k : r[j] \in T}
           R == {j \in 1..i : r[j] \in T}
<1>1. IsFiniteSet(S) /\ Cardinality(S) \in Nat
  BY CountFinite, FS_CardinalityType
<1>2. Sr = S
  OBVIOUS
<1>3. R = IF r[i] \in T THEN S \cup {i} ELSE S
  OBVIOUS
<1>4. i \notin S
  OBVIOUS
<1> HIDE DEF S, R, Sr
<1>5. Cardinality(R) = Cardinality(S) + (IF r[i] \in T THEN 1 ELSE 0)
  <2>1. Cardinality(S \cup {i}) = Cardinality(S) + 1
    BY ONLY <1>1, <1>4, FS_AddElement
  <2> QED
    BY <1>1, <1>3, <2>1
<1> QED
  BY <1>2, <1>5 DEF Count, S, Sr, R

(* Without its head a queue counts one less if the head was counted.       *)
LEMMA CountTail ==
  ASSUME NEW T, NEW q, NEW r, NEW k \in Nat, \A j \in 1..k : r[j] = q[j + 1],
         NEW i \in Nat, i - k = 1
  PROVE  Count(T, q, i) = Count(T, r, k) + (IF q[1] \in T THEN 1 ELSE 0)
<1> DEFINE Q == {j \in 1..(k + 1) : q[j] \in T}
           R == {j \in 1..k : r[j] \in T}
           S == {j \in 2..(k + 1) : q[j] \in T}
           f == [j \in R |-> j + 1]
<1>1. IsFiniteSet(R) /\ Cardinality(R) \in Nat
  BY CountFinite, FS_CardinalityType
<1>2. ExistsBijection(R, S)
  <2>1. f \in [R -> S]
    OBVIOUS
  <2>2. \A x, y \in R : f[x] = f[y] => x = y
    OBVIOUS
  <2>3. \A x \in S : x - 1 \in R /\ f[x - 1] = x
    OBVIOUS
  <2> HIDE DEF f, R, S
  <2>4. f \in Surjection(R, S)
    BY <2>1, <2>3, Fun_IsSurj
  <2>5. f \in Bijection(R, S)
    BY <2>1, <2>2, <2>4, Fun_IsBij
  <2> QED
    BY <2>5, Fun_ExistsBij
<1>3. Q = IF q[1] \in T THEN S \cup {1} ELSE S
  OBVIOUS
<1>4. 1 \notin S
  OBVIOUS
<1> HIDE DEF Q, R, S, f
<1>5. IsFiniteSet(S) /\ Cardinality(S) = Cardinality(R)
  BY <1>1, <1>2, FS_Bijection
<1>6. Cardinality(Q) = Cardinality(S) + (IF q[1] \in T THEN 1 ELSE 0)
  <2>1. Cardinality(S \cup {1}) = Cardinality(S) + 1 /\ Cardinality(S) \in Nat
    BY <1>1, <1>4, <1>5, FS_AddElement
  <2> QED
    BY <1>3, <2>1
<1> QED
  BY <1>1, <1>5, <1>6 DEF Count, Q, R

(* What a handled message leaves to count of one kind, if none is posted.  *)
LEMMA CountHandled ==
  ASSUME NEW X, NEW q, NEW r, Shift(q, r, 1), \A j \in Len(q)..Len(r) : r[j] # X
  PROVE  /\ \A k \in 0..(Len(q) - 1) :
              /\ Count({X}, q, k + 1) = Count({X}, r, k) + (IF q[1] = X THEN 1 ELSE 0)
              /\ Count({X}, q, k + 1) \in Nat /\ Count({X}, r, k) \in Nat
         /\ \A k \in (Len(q) - 1)..Len(r) : Count({X}, r, k) = Count({X}, r, Len(q) - 1)
<1>1. /\ Len(q) - 1 \in Nat /\ Len(q) \in Nat /\ Len(r) \in Nat
      /\ \A j \in 1..(Len(q) - 1) : r[j] = q[j + 1]
  BY DEF Shift
<1> DEFINE T == {X}
<1>2. \A m : m \in T <=> m = X
  OBVIOUS
<1> HIDE DEF T
<1>3. ASSUME NEW k \in 0..(Len(q) - 1)
      PROVE  /\ Count(T, q, k + 1) = Count(T, r, k) + (IF q[1] = X THEN 1 ELSE 0)
             /\ Count(T, q, k + 1) \in Nat /\ Count(T, r, k) \in Nat
  <2>1. k \in Nat /\ k + 1 \in Nat /\ (k + 1) - k = 1
    BY <1>1
  <2>2. \A j \in 1..k : r[j] = q[j + 1]
    BY <1>1
  <2>3. Count(T, q, k + 1) = Count(T, r, k) + (IF q[1] \in T THEN 1 ELSE 0)
    BY ONLY <2>1, <2>2, CountTail
  <2>4. Count(T, q, k + 1) \in Nat /\ Count(T, r, k) \in Nat
    BY ONLY <2>1, CountFinite
  <2> QED
    BY <1>2, <2>3, <2>4
<1>4. ASSUME NEW k \in (Len(q) - 1)..Len(r) PROVE Count(T, r, k) = Count(T, r, Len(q) - 1)
  <2>1. {j \in 1..k : r[j] \in T} = {j \in 1..(Len(q) - 1) : r[j] \in T}
    BY <1>1, <1>2
  <2> QED
    BY ONLY <2>1 DEF Count
<1> QED
  BY <1>3, <1>4 DEF T

(* What the first message and nothing count.                               *)
LEMMA CountFirst ==
  ASSUME NEW T, NEW q
  PROVE  Count(T, q, 0) = 0 /\ Count(T, q, 1) = IF q[1] \in T THEN 1 ELSE 0
<1>1. {j \in 1..0 : q[j] \in T} = {}
  OBVIOUS
<1>2. Count(T, q, 0) = 0
  BY <1>1, FS_EmptySet DEF Count
<1>3. CASE q[1] \in T
  <2>1. {j \in 1..1 : q[j] \in T} = {1}
    BY <1>3
  <2> QED
    BY <1>2, <1>3, <2>1, FS_Singleton DEF Count
<1>4. CASE q[1] \notin T
  <2>1. {j \in 1..1 : q[j] \in T} = {}
    BY <1>4
  <2> QED
    BY <1>2, <1>4, <2>1, FS_EmptySet DEF Count
<1> QED
  BY <1>3, <1>4

-----------------------------------------------------------------------------
(* A step of the queue                                                     *)

(* A handled message shifts the queue.                                     *)
LEMMA HandledShifts ==
  ASSUME TypeOK, queue # <<>>, NEW m \in Seq(Message), Post(m)
  PROVE  /\ queue' \in Seq(Message) /\ Shift(queue, queue', 1)
         /\ Len(queue) >= 1 /\ queue[1] \in Message /\ Head(queue) = queue[1]
         /\ Len(queue') = Len(queue) - 1 + Len(m) /\ Len(m) \in Nat
         /\ \A k \in Len(queue)..Len(queue') :
              k - Len(queue) + 1 \in 1..Len(m) /\ queue'[k] = m[k - Len(queue) + 1]
<1>1. queue \in Seq(Message) /\ queue' = Tail(queue) \o m
  BY DEF TypeOK, Post
<1>2. /\ queue' \in Seq(Message) /\ Len(queue') = Len(queue) - 1 + Len(m)
      /\ Len(queue) \in Nat /\ Len(queue) >= 1 /\ Head(queue) = queue[1] /\ Len(m) \in Nat
      /\ DOMAIN queue = 1..Len(queue) /\ DOMAIN queue' = 1..Len(queue') /\ DOMAIN m = 1..Len(m)
      /\ \A k \in 1..(Len(queue) - 1) : queue'[k] = queue[k + 1]
      /\ \A k \in Len(queue)..Len(queue') :
           k - Len(queue) + 1 \in DOMAIN m /\ queue'[k] = m[k - Len(queue) + 1]
  BY ONLY queue # <<>>, m \in Seq(Message), <1>1, QueueHandled
<1>3. queue[1] \in Message
  BY <1>1, <1>2
<1> QED
  BY <1>2, <1>3 DEF Shift

(* A message of the system leaves the others in their places.              *)
LEMMA AppendedShifts ==
  ASSUME TypeOK, NEW m \in Message, SystemPosts(m)
  PROVE  /\ queue' \in Seq(Message) /\ Shift(queue, queue', 0)
         /\ Len(queue') = Len(queue) + 1 /\ queue'[Len(queue) + 1] = m
<1>1. queue \in Seq(Message) /\ queue' = Append(queue, m)
  BY DEF TypeOK, SystemPosts
<1>2. /\ queue' \in Seq(Message) /\ Len(queue') = Len(queue) + 1 /\ Len(queue) \in Nat
      /\ DOMAIN queue = 1..Len(queue) /\ DOMAIN queue' = 1..Len(queue')
      /\ \A k \in 1..Len(queue) : queue'[k] = queue[k]
      /\ queue'[Len(queue) + 1] = m
  BY ONLY m \in Message, <1>1, QueueAppended
<1> QED
  BY <1>2 DEF Shift

-----------------------------------------------------------------------------
(* The holders                                                             *)

Held == IF sc = NoInstance THEN 0 ELSE 1
HeldScreen(s) == IF screen[s] = "none" THEN 0 ELSE 1

(* What the posts of a handler are never.                                  *)
Commands == {"create", "destroy", "onCreate", "onResume", "onPause", "onDestroy"}

(* A handler keeps ServiceInv if it treats the holder as ServiceAhead says.*)
LEMMA ServiceHandled ==
  ASSUME ServiceInv, Shift(queue, queue', 1),
         \A k \in Len(queue)..Len(queue') : queue'[k].type \notin Commands,
         running' = running,
         Held' = Held + (IF queue[1] = [type |-> "create"] THEN 1 ELSE 0)
                      - (IF queue[1] = [type |-> "destroy"] THEN 1 ELSE 0)
  PROVE  ServiceInv'
<1> DEFINE C == [type |-> "create"]
           D == [type |-> "destroy"]
           r == queue'
           a == Held
           b == Held'
           firstC == IF queue[1] = C THEN 1 ELSE 0
           firstD == IF queue[1] = D THEN 1 ELSE 0
           ahead(k) == b + Count({C}, r, k) - Count({D}, r, k)
           now(k) == a + Count({C}, queue, k) - Count({D}, queue, k)
<1>1. /\ Len(queue) \in Nat /\ Len(queue) >= 1 /\ Len(r) \in Nat /\ Len(r) >= Len(queue) - 1
      /\ a \in Int /\ b \in Int
  BY DEF Shift, Held
<1>2. \A j \in Len(queue)..Len(r) : r[j] # C /\ r[j] # D
  <2>1. C.type \in Commands /\ D.type \in Commands
    BY DEF Commands
  <2> HIDE DEF C, D
  <2> QED
    BY <2>1
<1>3. b = a + firstC - firstD /\ firstC \in Int /\ firstD \in Int
  OBVIOUS
<1>4. (\A k \in 0..Len(queue) : now(k) \in {0, 1}) /\ now(Len(queue)) = IF running THEN 1 ELSE 0
  BY DEF ServiceInv, ServiceAhead, Held
<1>5. Shift(queue, r, 1)
  OBVIOUS
<1>6. \A k : ServiceAhead(k)' = ahead(k)
  BY DEF ServiceAhead, Held
<1> HIDE DEF C, D, r, a, b, firstC, firstD
<1>7. ASSUME NEW X \in {C, D}
      PROVE  /\ \A k \in 0..(Len(queue) - 1) :
                  /\ Count({X}, queue, k + 1) = Count({X}, r, k) + (IF queue[1] = X THEN 1 ELSE 0)
                  /\ Count({X}, queue, k + 1) \in Nat /\ Count({X}, r, k) \in Nat
             /\ \A k \in (Len(queue) - 1)..Len(r) :
                  Count({X}, r, k) = Count({X}, r, Len(queue) - 1)
  <2>1. \A j \in Len(queue)..Len(r) : r[j] # X
    BY <1>2
  <2> QED
    BY <1>5, <2>1, CountHandled
<1>8. ASSUME NEW k \in 0..(Len(queue) - 1) PROVE ahead(k) = now(k + 1)
  <2>1. /\ Count({C}, queue, k + 1) = Count({C}, r, k) + firstC
        /\ Count({C}, queue, k + 1) \in Nat /\ Count({C}, r, k) \in Nat
    BY <1>7 DEF firstC
  <2>2. /\ Count({D}, queue, k + 1) = Count({D}, r, k) + firstD
        /\ Count({D}, queue, k + 1) \in Nat /\ Count({D}, r, k) \in Nat
    BY <1>7 DEF firstD
  <2> DEFINE c1 == Count({C}, r, k)
             c2 == Count({C}, queue, k + 1)
             d1 == Count({D}, r, k)
             d2 == Count({D}, queue, k + 1)
  <2>3. c2 = c1 + firstC /\ d2 = d1 + firstD /\ c1 \in Nat /\ d1 \in Nat /\ c2 \in Nat /\ d2 \in Nat
    BY <2>1, <2>2
  <2>4. ahead(k) = b + c1 - d1 /\ now(k + 1) = a + c2 - d2
    OBVIOUS
  <2> HIDE DEF c1, c2, d1, d2, ahead, now
  <2>5. b + c1 - d1 = a + c2 - d2
    BY <1>1, <1>3, <2>3
  <2> QED
    BY <2>4, <2>5
<1>9. ASSUME NEW k \in (Len(queue) - 1)..Len(r) PROVE ahead(k) = now(Len(queue))
  <2>1. ahead(k) = ahead(Len(queue) - 1)
    BY <1>7
  <2>2. Len(queue) - 1 \in 0..(Len(queue) - 1) /\ (Len(queue) - 1) + 1 = Len(queue)
    BY <1>1
  <2>3. ahead(Len(queue) - 1) = now(Len(queue))
    BY <1>8, <2>2
  <2> QED
    BY <2>1, <2>3
<1> HIDE DEF ahead, now
<1>10. ASSUME NEW k \in 0..Len(r) PROVE ahead(k) \in {0, 1}
  <2>1. CASE k < Len(queue)
    <3>1. k \in 0..(Len(queue) - 1) /\ k + 1 \in 0..Len(queue)
      BY <1>1, <2>1
    <3> QED
      BY <1>4, <1>8, <3>1
  <2>2. CASE k >= Len(queue)
    <3>1. k \in (Len(queue) - 1)..Len(r) /\ Len(queue) \in 0..Len(queue)
      BY <1>1, <2>2
    <3> QED
      BY <1>4, <1>9, <3>1
  <2> QED
    BY <1>1, <2>1, <2>2
<1>11. ahead(Len(r)) = IF running THEN 1 ELSE 0
  BY <1>1, <1>4, <1>9
<1> QED
  BY <1>6, <1>10, <1>11 DEF ServiceInv, r

(* So is it for the screens.                                               *)
LEMMA ScreensHandled ==
  ASSUME ScreenInv, Shift(queue, queue', 1),
         \A k \in Len(queue)..Len(queue') : queue'[k].type \notin Commands,
         UNCHANGED <<scheduled, finishing>>,
         \A s \in Screens :
           HeldScreen(s)' =
             HeldScreen(s) + (IF queue[1] = [type |-> "onCreate", screen |-> s] THEN 1 ELSE 0)
                           - (IF queue[1] = [type |-> "onDestroy", screen |-> s] THEN 1 ELSE 0)
  PROVE  ScreenInv'
<1> SUFFICES ASSUME NEW s \in Screens
             PROVE  /\ \A k \in DOMAIN queue' :
                         queue'[k] \in [type : {"onResume", "onPause", "onDestroy"}, screen : {s}]
                           => ScreenAhead(s, k - 1)' >= 1
                    /\ ScreenAhead(s, Len(queue))'
                         >= (IF scheduled'[s] = "none" THEN 0 ELSE 1)
                              + (IF finishing'[s] THEN 1 ELSE 0)
  BY DEF ScreenInv
<1> DEFINE C == [type |-> "onCreate", screen |-> s]
           D == [type |-> "onDestroy", screen |-> s]
           U == [type : {"onResume", "onPause", "onDestroy"}, screen : {s}]
           r == queue'
           a == HeldScreen(s)
           b == HeldScreen(s)'
           need == (IF scheduled[s] = "none" THEN 0 ELSE 1) + (IF finishing[s] THEN 1 ELSE 0)
           firstC == IF queue[1] = C THEN 1 ELSE 0
           firstD == IF queue[1] = D THEN 1 ELSE 0
           ahead(k) == b + Count({C}, r, k) - Count({D}, r, k)
           now(k) == a + Count({C}, queue, k) - Count({D}, queue, k)
<1>1. /\ Len(queue) \in Nat /\ Len(queue) >= 1 /\ Len(r) \in Nat /\ Len(r) >= Len(queue) - 1
      /\ a \in Int /\ b \in Int
      /\ \A j \in 1..(Len(queue) - 1) : r[j] = queue[j + 1]
      /\ DOMAIN r = 1..Len(r) /\ DOMAIN queue = 1..Len(queue)
  BY DEF Shift, HeldScreen
<1>2. \A j \in Len(queue)..Len(r) : r[j] # C /\ r[j] # D /\ r[j] \notin U
  <2>1. C.type \in Commands /\ D.type \in Commands /\ \A m \in U : m.type \in Commands
    BY DEF Commands
  <2> HIDE DEF C, D, U
  <2> QED
    BY <2>1
<1>3. b = a + firstC - firstD /\ firstC \in Int /\ firstD \in Int
  OBVIOUS
<1>4. (\A k \in 1..Len(queue) : queue[k] \in U => now(k - 1) >= 1) /\ now(Len(queue)) >= need
  BY <1>1 DEF ScreenInv, ScreenAhead, HeldScreen
<1>5. need = (IF scheduled'[s] = "none" THEN 0 ELSE 1) + (IF finishing'[s] THEN 1 ELSE 0)
  OBVIOUS
<1>6. \A k : ScreenAhead(s, k)' = ahead(k)
  BY DEF ScreenAhead, HeldScreen
<1>7. Shift(queue, r, 1)
  OBVIOUS
<1> HIDE DEF C, D, U, r, a, b, need, firstC, firstD
<1>8. ASSUME NEW X \in {C, D}
      PROVE  /\ \A k \in 0..(Len(queue) - 1) :
                  /\ Count({X}, queue, k + 1) = Count({X}, r, k) + (IF queue[1] = X THEN 1 ELSE 0)
                  /\ Count({X}, queue, k + 1) \in Nat /\ Count({X}, r, k) \in Nat
             /\ \A k \in (Len(queue) - 1)..Len(r) :
                  Count({X}, r, k) = Count({X}, r, Len(queue) - 1)
  <2>1. \A j \in Len(queue)..Len(r) : r[j] # X
    BY <1>2
  <2> QED
    BY <1>7, <2>1, CountHandled
<1>9. ASSUME NEW k \in 0..(Len(queue) - 1) PROVE ahead(k) = now(k + 1)
  <2>1. /\ Count({C}, queue, k + 1) = Count({C}, r, k) + firstC
        /\ Count({C}, queue, k + 1) \in Nat /\ Count({C}, r, k) \in Nat
    BY <1>8 DEF firstC
  <2>2. /\ Count({D}, queue, k + 1) = Count({D}, r, k) + firstD
        /\ Count({D}, queue, k + 1) \in Nat /\ Count({D}, r, k) \in Nat
    BY <1>8 DEF firstD
  <2> DEFINE c1 == Count({C}, r, k)
             c2 == Count({C}, queue, k + 1)
             d1 == Count({D}, r, k)
             d2 == Count({D}, queue, k + 1)
  <2>3. c2 = c1 + firstC /\ d2 = d1 + firstD /\ c1 \in Nat /\ d1 \in Nat /\ c2 \in Nat /\ d2 \in Nat
    BY <2>1, <2>2
  <2>4. ahead(k) = b + c1 - d1 /\ now(k + 1) = a + c2 - d2
    OBVIOUS
  <2> HIDE DEF c1, c2, d1, d2, ahead, now
  <2>5. b + c1 - d1 = a + c2 - d2
    BY <1>1, <1>3, <2>3
  <2> QED
    BY <2>4, <2>5
<1>10. ahead(Len(r)) = now(Len(queue))
  <2>1. Len(r) \in (Len(queue) - 1)..Len(r) /\ Len(queue) - 1 \in 0..(Len(queue) - 1)
        /\ (Len(queue) - 1) + 1 = Len(queue)
    BY <1>1
  <2>2. ahead(Len(r)) = ahead(Len(queue) - 1)
    BY <1>8, <2>1
  <2>3. ahead(Len(queue) - 1) = now(Len(queue))
    BY <1>9, <2>1
  <2> QED
    BY <2>2, <2>3
<1> HIDE DEF ahead, now
<1>11. ASSUME NEW k \in 1..Len(r), r[k] \in U PROVE ahead(k - 1) >= 1
  <2>1. k \in 1..(Len(queue) - 1) /\ queue[k + 1] \in U
    BY <1>1, <1>2, <1>11
  <2>2. k + 1 \in 1..Len(queue) /\ (k + 1) - 1 = k /\ k - 1 \in 0..(Len(queue) - 1) /\ (k - 1) + 1 = k
    BY <1>1, <2>1
  <2>3. now(k) >= 1
    BY <1>4, <2>1, <2>2
  <2>4. ahead(k - 1) = now(k)
    BY <1>9, <2>2
  <2> QED
    BY <2>3, <2>4
<1> QED
  BY <1>1, <1>4, <1>5, <1>6, <1>10, <1>11 DEF r, U

(* A message at the end leaves the earlier counts as they are...           *)
LEMMA CountKept ==
  ASSUME NEW X, NEW q, NEW r, Shift(q, r, 0), NEW k \in 0..Len(q)
  PROVE  Count({X}, r, k) = Count({X}, q, k) /\ Count({X}, q, k) \in Nat
<1>1. k \in Nat /\ \A j \in 1..k : r[j] = q[j]
  BY DEF Shift
<1>2. {j \in 1..k : r[j] \in {X}} = {j \in 1..k : q[j] \in {X}}
  BY <1>1
<1>3. Count({X}, q, k) \in Nat
  BY ONLY <1>1, CountFinite
<1>4. Count({X}, r, k) = Count({X}, q, k)
  BY ONLY <1>2 DEF Count
<1> QED
  BY <1>3, <1>4

(* ...and counts if it is of the kind.                                     *)
LEMMA CountAppended ==
  ASSUME NEW X, NEW q, NEW r, Shift(q, r, 0), Len(r) - Len(q) = 1
  PROVE  Count({X}, r, Len(r)) = Count({X}, q, Len(q)) + (IF r[Len(r)] = X THEN 1 ELSE 0)
<1> DEFINE T == {X}
           n == Len(q)
           i == Len(r)
<1>1. \A m : m \in T <=> m = X
  OBVIOUS
<1>2. n \in Nat /\ i \in Nat /\ \A j \in 1..n : r[j] = q[j]
  BY ONLY Shift(q, r, 0) DEF Shift
<1>3. i - n = 1
  OBVIOUS
<1> HIDE DEF T, n, i
<1>4. Count(T, r, i) = Count(T, q, n) + (IF r[i] \in T THEN 1 ELSE 0)
  BY ONLY <1>2, <1>3, CountPrefix
<1> QED
  BY <1>1, <1>4 DEF T, n, i

(* A message of the system to the service.                                 *)
LEMMA ServiceAppended ==
  ASSUME ServiceInv, Shift(queue, queue', 0), Len(queue') = Len(queue) + 1, sc' = sc,
         (IF running' THEN 1 ELSE 0) =
           (IF running THEN 1 ELSE 0)
             + (IF queue'[Len(queue')] = [type |-> "create"] THEN 1 ELSE 0)
             - (IF queue'[Len(queue')] = [type |-> "destroy"] THEN 1 ELSE 0)
  PROVE  ServiceInv'
<1> DEFINE C == [type |-> "create"]
           D == [type |-> "destroy"]
           r == queue'
           n == Len(queue)
           l == Len(r)
           m == r[l]
           want == IF running THEN 1 ELSE 0
           then == IF running' THEN 1 ELSE 0
           ahead(k) == Held + Count({C}, r, k) - Count({D}, r, k)
           now(k) == Held + Count({C}, queue, k) - Count({D}, queue, k)
<1>1. n \in Nat /\ l = n + 1 /\ Held \in Int /\ \A j \in 1..n : r[j] = queue[j]
  BY DEF Shift, Held
<1>2. (\A k \in 0..n : now(k) \in {0, 1}) /\ now(n) = want
  BY DEF ServiceInv, ServiceAhead, Held
<1>3. \A k : ServiceAhead(k)' = ahead(k)
  BY DEF ServiceAhead, Held
<1>4. then = want + (IF m = C THEN 1 ELSE 0) - (IF m = D THEN 1 ELSE 0) /\ then \in {0, 1}
  OBVIOUS
<1>5. Shift(queue, r, 0)
  OBVIOUS
<1> HIDE DEF C, D, r, want
<1>6. ASSUME NEW X, NEW k \in 0..n
      PROVE  Count({X}, r, k) = Count({X}, queue, k) /\ Count({X}, queue, k) \in Nat
  BY <1>5, CountKept
<1>7. ASSUME NEW X PROVE Count({X}, r, l) = Count({X}, queue, n) + (IF m = X THEN 1 ELSE 0)
  <2>1. l - n = 1
    BY <1>1
  <2> QED
    BY ONLY <1>5, <2>1, CountAppended
<1> HIDE DEF n, l, m
<1>8. \A k \in 0..n : ahead(k) \in {0, 1}
  BY <1>2, <1>6
<1>9. ahead(l) = then
  <2>1. /\ Count({C}, r, l) = Count({C}, queue, n) + (IF m = C THEN 1 ELSE 0)
        /\ Count({D}, r, l) = Count({D}, queue, n) + (IF m = D THEN 1 ELSE 0)
    BY <1>7
  <2>2. Count({C}, queue, n) \in Nat /\ Count({D}, queue, n) \in Nat
    <3>1. n \in 0..n
      BY <1>1
    <3> QED
      BY <1>6, <3>1
  <2>3. now(n) = want
    BY <1>2
  <2> HIDE DEF then
  <2> QED
    BY <1>1, <1>4, <2>1, <2>2, <2>3
<1> HIDE DEF ahead, now
<1>10. \A k \in 0..l : ahead(k) \in {0, 1}
  BY <1>1, <1>4, <1>8, <1>9
<1> QED
  BY <1>3, <1>9, <1>10 DEF ServiceInv, r, l

(* A message of the system to a screen.                                    *)
LEMMA ScreensAppended ==
  ASSUME ScreenInv, Shift(queue, queue', 0), Len(queue') = Len(queue) + 1, screen' = screen,
         \A s \in Screens :
           /\ queue'[Len(queue')] \in [type : {"onResume", "onPause", "onDestroy"}, screen : {s}]
                => ScreenAhead(s, Len(queue)) >= 1
           /\ (IF scheduled'[s] = "none" THEN 0 ELSE 1) + (IF finishing'[s] THEN 1 ELSE 0)
                <= ScreenAhead(s, Len(queue))
                     + (IF queue'[Len(queue')] = [type |-> "onCreate", screen |-> s] THEN 1 ELSE 0)
                     - (IF queue'[Len(queue')] = [type |-> "onDestroy", screen |-> s] THEN 1 ELSE 0)
  PROVE  ScreenInv'
<1> SUFFICES ASSUME NEW s \in Screens
             PROVE  /\ \A k \in DOMAIN queue' :
                         queue'[k] \in [type : {"onResume", "onPause", "onDestroy"}, screen : {s}]
                           => ScreenAhead(s, k - 1)' >= 1
                    /\ ScreenAhead(s, Len(queue))'
                         >= (IF scheduled'[s] = "none" THEN 0 ELSE 1)
                              + (IF finishing'[s] THEN 1 ELSE 0)
  BY DEF ScreenInv
<1> DEFINE C == [type |-> "onCreate", screen |-> s]
           D == [type |-> "onDestroy", screen |-> s]
           U == [type : {"onResume", "onPause", "onDestroy"}, screen : {s}]
           r == queue'
           n == Len(queue)
           l == Len(r)
           m == r[l]
           a == HeldScreen(s)
           need == (IF scheduled'[s] = "none" THEN 0 ELSE 1) + (IF finishing'[s] THEN 1 ELSE 0)
           isC == IF m = C THEN 1 ELSE 0
           isD == IF m = D THEN 1 ELSE 0
           ahead(k) == a + Count({C}, r, k) - Count({D}, r, k)
           now(k) == a + Count({C}, queue, k) - Count({D}, queue, k)
<1>1. /\ n \in Nat /\ l = n + 1 /\ a \in Int /\ (\A j \in 1..n : r[j] = queue[j])
      /\ DOMAIN r = 1..l /\ DOMAIN queue = 1..n /\ isC \in Int /\ isD \in Int
  BY DEF Shift, HeldScreen
<1>2. \A k \in 1..n : queue[k] \in U => now(k - 1) >= 1
  BY <1>1 DEF ScreenInv, ScreenAhead, HeldScreen
<1>3. (m \in U => now(n) >= 1) /\ need <= now(n) + isC - isD
  BY DEF ScreenAhead, HeldScreen
<1>4. \A k : ScreenAhead(s, k)' = ahead(k)
  BY DEF ScreenAhead, HeldScreen
<1>5. Shift(queue, r, 0)
  OBVIOUS
<1> HIDE DEF C, D, U, r, a, need
<1>6. ASSUME NEW X, NEW k \in 0..n
      PROVE  Count({X}, r, k) = Count({X}, queue, k) /\ Count({X}, queue, k) \in Nat
  BY <1>5, CountKept
<1>7. ASSUME NEW X PROVE Count({X}, r, l) = Count({X}, queue, n) + (IF m = X THEN 1 ELSE 0)
  <2>1. l - n = 1
    BY <1>1
  <2> QED
    BY ONLY <1>5, <2>1, CountAppended
<1> HIDE DEF n, l, m
<1>8. \A k \in 0..n : ahead(k) = now(k)
  BY <1>6
<1>9. ahead(l) = now(n) + isC - isD
  <2>1. Count({C}, r, l) = Count({C}, queue, n) + isC /\ Count({D}, r, l) = Count({D}, queue, n) + isD
    BY <1>7
  <2>2. Count({C}, queue, n) \in Nat /\ Count({D}, queue, n) \in Nat
    <3>1. n \in 0..n
      BY <1>1
    <3> QED
      BY <1>6, <3>1
  <2> HIDE DEF isC, isD
  <2> QED
    BY <1>1, <2>1, <2>2
<1> HIDE DEF ahead, now, isC, isD
<1>10. ASSUME NEW k \in 1..l, r[k] \in U PROVE ahead(k - 1) >= 1
  <2>1. k - 1 \in 0..n /\ ahead(k - 1) = now(k - 1)
    BY <1>1, <1>8
  <2>2. CASE k \in 1..n
    BY <1>1, <1>2, <1>10, <2>1, <2>2
  <2>3. CASE k = l
    BY <1>1, <1>3, <1>10, <2>1, <2>3 DEF m
  <2> QED
    BY <1>1, <2>2, <2>3
<1> QED
  BY <1>1, <1>3, <1>4, <1>9, <1>10 DEF U, r, l, need

-----------------------------------------------------------------------------
(* Lua                                                                     *)

(* Whether message k makes the current Lua state load demo.lua.            *)
Requires(k) == queue[k].type = "lua" /\ queue[k].of = sc /\ queue[k].word = "require"

(* What LuaFollows says of one symbol.                                     *)
Follows(s) ==
  IF Coming(s) # {}
    THEN \A k \in Coming(s) :
           (\A j \in Coming(s) : j <= k) => queue[k].word = Word(symbols[sc][s])
    ELSE IF told[s] # "none" THEN told[s] = Word(symbols[sc][s]) ELSE symbols[sc][s] = Loaded[s]

(* The calls that are coming move up with the queue, as loading happens    *)
(* when its turn comes.                                                    *)
LEMMA ComingShifted ==
  ASSUME NEW d \in {0, 1}, Shift(queue, queue', d), sc' = sc,
         loaded' <=> loaded \/ (d = 1 /\ Requires(1)), NEW s
  PROVE  \A k \in 1..(Len(queue) - d) : k \in Coming(s)' <=> k + d \in Coming(s)
<1> SUFFICES ASSUME NEW k \in 1..(Len(queue) - d) PROVE k \in Coming(s)' <=> k + d \in Coming(s)
  OBVIOUS
<1>1. /\ Len(queue) \in Nat /\ Len(queue') \in Nat
      /\ k \in DOMAIN queue' /\ k + d \in DOMAIN queue /\ queue'[k] = queue[k + d]
      /\ \A j \in 1..(k - 1) : queue'[j] = queue[j + d]
  BY DEF Shift
<1> DEFINE goes == queue[k + d].type = "lua" /\ queue[k + d].of = sc
                     /\ queue[k + d].name = s /\ queue[k + d].word # "require"
           before == \E j \in 1..(k - 1) : Requires(j)'
           now == \E j \in 1..(k + d - 1) : Requires(j)
<1>2. k \in Coming(s)' <=> goes /\ (loaded' \/ before)
  BY <1>1 DEF Coming, Requires
<1>3. k + d \in Coming(s) <=> goes /\ (loaded \/ now)
  BY <1>1 DEF Coming, Requires
<1>4. \A j \in 1..(k - 1) : Requires(j)' <=> Requires(j + d)
  BY <1>1 DEF Requires
<1>5. now <=> before \/ (d = 1 /\ Requires(1))
  <2>1. ASSUME NEW j \in 1..(k + d - 1), Requires(j) PROVE before \/ (d = 1 /\ Requires(1))
    <3>1. CASE j = 1 /\ d = 1
      BY <2>1, <3>1
    <3>2. CASE ~(j = 1 /\ d = 1)
      <4>1. j - d \in 1..(k - 1) /\ (j - d) + d = j
        BY <3>2
      <4> QED
        BY <1>4, <2>1, <4>1
    <3> QED
      BY <3>1, <3>2
  <2>2. ASSUME NEW j \in 1..(k - 1), Requires(j)' PROVE now
    <3>1. j + d \in 1..(k + d - 1) /\ Requires(j + d)
      BY <1>4, <2>2
    <3> QED
      BY <3>1
  <2>3. ASSUME d = 1, Requires(1) PROVE now
    <3>1. 1 \in 1..(k + d - 1)
      BY <2>3
    <3> QED
      BY <2>3, <3>1
  <2> QED
    BY <2>1, <2>2, <2>3
<1> QED
  BY <1>2, <1>3, <1>5

(* What Lua has been told of a symbol stays true when no call about it is  *)
(* posted and a call that is carried out is the one that was coming.       *)
LEMMA FollowsKept ==
  ASSUME NEW d \in {0, 1}, Shift(queue, queue', d), sc' = sc,
         loaded' <=> loaded \/ (d = 1 /\ Requires(1)), NEW s, Follows(s),
         symbols'[sc][s] = symbols[sc][s],
         \A k \in (Len(queue) - d + 1)..Len(queue') :
           queue'[k].type # "lua" \/ queue'[k].name # s \/ queue'[k].word = "require",
         IF d = 1 /\ 1 \in Coming(s) THEN told'[s] = queue[1].word ELSE told'[s] = told[s]
  PROVE  Follows(s)'
<1> DEFINE val == symbols[sc][s]
<1>1. /\ Len(queue) \in Nat /\ Len(queue') \in Nat /\ d <= Len(queue)
      /\ \A k \in 1..(Len(queue) - d) : queue'[k] = queue[k + d]
  BY DEF Shift
<1>2. \A k \in Coming(s)' : k \in 1..(Len(queue) - d)
  BY <1>1 DEF Coming, Shift
<1>3. \A k \in Coming(s) : k \in 1..Len(queue)
  BY DEF Coming, Shift
<1>4. \A k \in 1..(Len(queue) - d) : k \in Coming(s)' <=> k + d \in Coming(s)
  BY ComingShifted
<1>5. symbols'[sc'][s] = val
  OBVIOUS
<1>6. CASE Coming(s)' # {}
  <2>1. SUFFICES ASSUME NEW k \in Coming(s)', \A j \in Coming(s)' : j <= k
                 PROVE  queue'[k].word = Word(val)
    BY <1>5, <1>6 DEF Follows
  <2>2. k \in 1..(Len(queue) - d) /\ k + d \in Coming(s) /\ queue'[k] = queue[k + d]
    BY <1>1, <1>2, <1>4
  <2>3. ASSUME NEW j \in Coming(s) PROVE j <= k + d
    <3>1. CASE j <= d
      BY <1>3, <2>2, <3>1
    <3>2. CASE j > d
      <4>1. j - d \in 1..(Len(queue) - d) /\ (j - d) + d = j
        BY <1>1, <1>3, <3>2
      <4>2. j - d \in Coming(s)'
        BY <1>4, <4>1
      <4> QED
        BY <1>3, <2>1, <2>2, <4>2
    <3> QED
      BY <1>3, <3>1, <3>2
  <2> QED
    BY <2>2, <2>3 DEF Follows
<1>7. CASE Coming(s)' = {}
  <2>1. ASSUME NEW k \in Coming(s) PROVE d = 1 /\ k = 1
    <3>1. ASSUME k > d PROVE FALSE
      <4>1. k - d \in 1..(Len(queue) - d) /\ (k - d) + d = k
        BY <1>1, <1>3, <3>1
      <4> QED
        BY <1>4, <1>7, <4>1
    <3> QED
      BY <1>3, <3>1
  <2>2. CASE Coming(s) = {}
    BY <1>5, <1>7, <2>2 DEF Follows
  <2>3. CASE Coming(s) # {}
    <3>1. d = 1 /\ 1 \in Coming(s) /\ \A j \in Coming(s) : j <= 1
      BY <2>1, <2>3
    <3>2. told'[s] = Word(val)
      BY <2>3, <3>1 DEF Follows
    <3> QED
      BY <1>5, <1>7, <3>2 DEF Follows, Word
  <2> QED
    BY <2>2, <2>3
<1> QED
  BY <1>6, <1>7

(* demo.lua is still to be loaded, or is.                                  *)
LEMMA RequireKept ==
  ASSUME LuaInv, NEW d \in {0, 1}, Shift(queue, queue', d), sc' = sc, sc # NoInstance,
         loaded' <=> loaded \/ (d = 1 /\ Requires(1)), ~loaded'
  PROVE  \E k \in DOMAIN queue' : Requires(k)'
<1>1. PICK k \in DOMAIN queue : Requires(k)
  BY DEF LuaInv, Requires
<1>2. k - d \in DOMAIN queue' /\ queue'[k - d] = queue[k]
  <2>1. ~(d = 1 /\ k = 1)
    BY <1>1
  <2>2. k - d \in 1..(Len(queue) - d) /\ (k - d) + d = k
    BY <2>1 DEF Shift
  <2> QED
    BY <2>2 DEF Shift
<1>3. Requires(k - d)'
  BY <1>1, <1>2 DEF Requires
<1> QED
  BY <1>2, <1>3

(* Steps that post nothing to Lua.                                         *)
LEMMA LuaKept ==
  ASSUME LuaInv, LuaFollows, NEW d \in {0, 1}, Shift(queue, queue', d),
         UNCHANGED <<sc, symbols>>, sc = NoInstance => ~loaded',
         loaded' <=> loaded \/ (d = 1 /\ Requires(1)),
         \A k \in (Len(queue) - d + 1)..Len(queue') : queue'[k].type # "lua",
         \A s \in InternalNames :
           IF d = 1 /\ 1 \in Coming(s) THEN told'[s] = queue[1].word ELSE told'[s] = told[s]
  PROVE  LuaInv' /\ LuaFollows'
<1>1. LuaFollows'
  <2> SUFFICES ASSUME sc # NoInstance, NEW s \in InternalNames PROVE Follows(s)'
    BY DEF LuaFollows, Follows
  <2>1. Follows(s)
    BY DEF LuaFollows, Follows
  <2> QED
    BY <2>1, FollowsKept
<1>2. ~loaded' => \A s \in InternalNames : told'[s] = "none"
  <2> SUFFICES ASSUME ~loaded', NEW s \in InternalNames PROVE told'[s] = "none"
    OBVIOUS
  <2>1. 1 \notin Coming(s)
    BY DEF Coming
  <2> QED
    BY <2>1 DEF LuaInv
<1>3. sc' # NoInstance /\ ~loaded' => \E k \in DOMAIN queue' : Requires(k)'
  BY RequireKept
<1> QED
  BY <1>1, <1>2, <1>3 DEF LuaInv, Requires

(* Those that Lua has no part in.                                          *)
LEMMA LuaQuiet ==
  ASSUME LuaInv, LuaFollows, NEW d \in {0, 1}, Shift(queue, queue', d),
         d = 1 => queue[1].type # "lua", UNCHANGED serviceVars,
         \A k \in (Len(queue) - d + 1)..Len(queue') : queue'[k].type # "lua"
  PROVE  LuaInv' /\ LuaFollows'
<1>1. loaded' <=> loaded \/ (d = 1 /\ Requires(1))
  BY DEF Requires, serviceVars
<1>2. \A s \in InternalNames :
        IF d = 1 /\ 1 \in Coming(s) THEN told'[s] = queue[1].word ELSE told'[s] = told[s]
  BY DEF Coming, serviceVars
<1>3. UNCHANGED <<sc, symbols>> /\ (sc = NoInstance => ~loaded')
  BY DEF serviceVars, LuaInv
<1> QED
  BY <1>1, <1>2, <1>3, LuaKept

-----------------------------------------------------------------------------
(* The views                                                               *)

(* What is shown does not depend on messages that are gone.                *)
LEMMA ShownShifted ==
  ASSUME NEW q, NEW r, NEW d \in {0, 1}, Shift(q, r, d), NEW A, NEW n,
         NEW f \in 0..(Len(q) - d), NEW u \in 0..(Len(q) - d)
  PROVE  Shown(r, A, f, u, n) <=> Shown(q, A, f + d, u + d, n)
<1> DEFINE note(k) == Note(q, k + d, n)
           last(k) == note(k) /\ q[k + d].value /\ \A j \in (k + 1)..u : ~note(j)
<1>1. Len(q) \in Nat /\ f \in Nat /\ u \in Nat /\ \A k \in 1..u : r[k] = q[k + d]
  BY DEF Shift
<1>2. \A k \in 1..u : Note(r, k, n) <=> note(k)
  BY <1>1 DEF Note
<1>3. Shown(r, A, f, u, n) <=>
        IF \E k \in (f + 1)..u : note(k) THEN \E k \in (f + 1)..u : last(k) ELSE n \in A
  <2> HIDE DEF note
  <2>1. (\E k \in (f + 1)..u : Note(r, k, n)) <=> (\E k \in (f + 1)..u : note(k))
    BY <1>1, <1>2
  <2>2. ASSUME NEW k \in (f + 1)..u
        PROVE  (Note(r, k, n) /\ r[k].value /\ \A j \in (k + 1)..u : ~Note(r, j, n)) <=> last(k)
    <3>1. (\A j \in (k + 1)..u : ~Note(r, j, n)) <=> (\A j \in (k + 1)..u : ~note(j))
      BY <1>1, <1>2
    <3> QED
      BY <1>1, <1>2, <3>1
  <2> HIDE DEF last
  <2> QED
    BY <2>1, <2>2 DEF Shown
<1>4. Shown(q, A, f + d, u + d, n) <=>
        IF \E k \in (f + 1)..u : note(k) THEN \E k \in (f + 1)..u : last(k) ELSE n \in A
  <2> DEFINE lastq(k) == Note(q, k, n) /\ q[k].value /\ \A j \in (k + 1)..(u + d) : ~Note(q, j, n)
  <2>1. \A k \in (f + d + 1)..(u + d) : k - d \in (f + 1)..u /\ (k - d) + d = k
    BY <1>1
  <2>2. \A k \in (f + 1)..u : k + d \in (f + d + 1)..(u + d)
    BY <1>1
  <2>3. (\E k \in (f + d + 1)..(u + d) : Note(q, k, n)) <=> (\E k \in (f + 1)..u : note(k))
    BY <2>1, <2>2
  <2>4. ASSUME NEW k \in (f + 1)..u PROVE lastq(k + d) <=> last(k)
    <3>1. \A j \in (k + 1)..u : j + d \in (k + d + 1)..(u + d)
      BY <1>1
    <3>2. \A j \in (k + d + 1)..(u + d) : j - d \in (k + 1)..u /\ (j - d) + d = j
      BY <1>1
    <3>3. (\A j \in (k + d + 1)..(u + d) : ~Note(q, j, n)) <=> (\A j \in (k + 1)..u : ~note(j))
      BY <3>1, <3>2
    <3> QED
      BY <3>3
  <2>5. (\E k \in (f + d + 1)..(u + d) : lastq(k)) <=> (\E k \in (f + 1)..u : last(k))
    <3> HIDE DEF lastq, last
    <3>1. ASSUME NEW k \in (f + d + 1)..(u + d), lastq(k) PROVE \E j \in (f + 1)..u : last(j)
      <4>1. k - d \in (f + 1)..u /\ (k - d) + d = k
        BY <2>1
      <4>2. lastq((k - d) + d) <=> last(k - d)
        BY <2>4, <4>1
      <4> QED
        BY <3>1, <4>1, <4>2
    <3>2. ASSUME NEW k \in (f + 1)..u, last(k) PROVE \E j \in (f + d + 1)..(u + d) : lastq(j)
      <4>1. k + d \in (f + d + 1)..(u + d) /\ lastq(k + d)
        BY <2>2, <2>4, <3>2
      <4> QED
        BY <4>1
    <3> QED
      BY <3>1, <3>2
  <2>6. Shown(q, A, f + d, u + d, n) <=>
          IF \E k \in (f + d + 1)..(u + d) : Note(q, k, n)
            THEN \E k \in (f + d + 1)..(u + d) : lastq(k) ELSE n \in A
    BY DEF Shown
  <2> HIDE DEF note, last, lastq
  <2> QED
    BY <2>3, <2>5, <2>6
<1> QED
  BY <1>3, <1>4

(* Nor on messages that do not notify of the symbol.                       *)
LEMMA ShownQuiet ==
  ASSUME NEW r, NEW A, NEW n, NEW u \in Nat, NEW l \in Nat, u <= l, NEW f \in 0..u,
         \A k \in (u + 1)..l : ~Note(r, k, n)
  PROVE  Shown(r, A, f, l, n) <=> Shown(r, A, f, u, n)
<1>1. (\E k \in (f + 1)..l : Note(r, k, n)) <=> (\E k \in (f + 1)..u : Note(r, k, n))
  OBVIOUS
<1>2. ASSUME NEW k \in (f + 1)..u
      PROVE  (\A j \in (k + 1)..l : ~Note(r, j, n)) <=> (\A j \in (k + 1)..u : ~Note(r, j, n))
  OBVIOUS
<1>3. (\E k \in (f + 1)..l : Note(r, k, n) /\ r[k].value /\ \A j \in (k + 1)..l : ~Note(r, j, n))
        <=> (\E k \in (f + 1)..u :
               Note(r, k, n) /\ r[k].value /\ \A j \in (k + 1)..u : ~Note(r, j, n))
  BY <1>2
<1> QED
  BY <1>1, <1>3 DEF Shown

(* The last notification of a symbol decides.                              *)
LEMMA ShownLast ==
  ASSUME NEW r, NEW A, NEW n, NEW l \in Nat, NEW f \in Nat, NEW k \in (f + 1)..l,
         Note(r, k, n), \A j \in (k + 1)..l : ~Note(r, j, n)
  PROVE  Shown(r, A, f, l, n) <=> r[k].value
<1>1. \A j \in (f + 1)..l :
        Note(r, j, n) /\ (\A i \in (j + 1)..l : ~Note(r, i, n)) => j = k
  <2> SUFFICES ASSUME NEW j \in (f + 1)..l, Note(r, j, n), \A i \in (j + 1)..l : ~Note(r, i, n),
                      j # k
               PROVE  FALSE
    OBVIOUS
  <2>1. CASE j < k
    BY <2>1
  <2>2. CASE j > k
    BY <2>2
  <2> QED
    BY <2>1, <2>2
<1> QED
  BY <1>1 DEF Shown

(* Handling a notification applies it.                                     *)
LEMMA ShownApplied ==
  ASSUME NEW q, NEW A, NEW B, NEW n, NEW u \in Nat, u >= 1,
         n \in B <=> IF Note(q, 1, n) THEN q[1].value ELSE n \in A
  PROVE  Shown(q, A, 0, u, n) <=> Shown(q, B, 1, u, n)
<1> DEFINE last(k) == Note(q, k, n) /\ q[k].value /\ \A j \in (k + 1)..u : ~Note(q, j, n)
<1>1. /\ Shown(q, A, 0, u, n) <=>
           IF \E k \in 1..u : Note(q, k, n) THEN \E k \in 1..u : last(k) ELSE n \in A
      /\ Shown(q, B, 1, u, n) <=>
           IF \E k \in 2..u : Note(q, k, n) THEN \E k \in 2..u : last(k) ELSE n \in B
  BY DEF Shown
<1>2. \A k \in 1..u : k = 1 \/ k \in 2..u
  OBVIOUS
<1>3. \A k \in 2..u : k \in 1..u /\ k \in (1 + 1)..u
  OBVIOUS
<1>4. CASE \E k \in 2..u : Note(q, k, n)
  <2>1. ~last(1)
    BY <1>3, <1>4
  <2> HIDE DEF last
  <2>2. (\E k \in 1..u : last(k)) <=> (\E k \in 2..u : last(k))
    BY <1>2, <1>3, <2>1
  <2> QED
    BY <1>1, <1>3, <1>4, <2>2
<1>5. CASE ~\E k \in 2..u : Note(q, k, n)
  <2>1. last(1) <=> Note(q, 1, n) /\ q[1].value
    BY <1>5
  <2>2. \A k \in 2..u : ~last(k)
    BY <1>5
  <2>3. 1 \in 1..u
    OBVIOUS
  <2> HIDE DEF last
  <2> QED
    BY <1>1, <1>2, <1>5, <2>1, <2>2, <2>3
<1> QED
  BY <1>4, <1>5

(* The views that a queue makes of A move up with it...                    *)
LEMMA ConvergesShifted ==
  ASSUME NEW q, NEW r, NEW d \in {0, 1}, Shift(q, r, d),
         \A k \in (Len(q) - d + 1)..Len(r) : r[k].type # "notify",
         NEW A, NEW val, NEW f \in 0..(Len(q) - d), Converges(q, A, f + d, val)
  PROVE  Converges(r, A, f, val)
<1> SUFFICES ASSUME NEW n \in Names PROVE Shown(r, A, f, Len(r), n) <=> val[n]
  BY DEF Converges
<1> DEFINE u == Len(q) - d
           l == Len(r)
<1>1. u \in Nat /\ l \in Nat /\ u <= l /\ u \in 0..u /\ u + d = Len(q)
  BY DEF Shift
<1>2. \A k \in (u + 1)..l : ~Note(r, k, n)
  BY DEF Note
<1>3. Shown(q, A, f + d, u + d, n) <=> val[n]
  BY <1>1 DEF Converges
<1> HIDE DEF l
<1>4. Shown(r, A, f, u, n) <=> Shown(q, A, f + d, u + d, n)
  BY <1>1, ShownShifted, SMTT(30)
<1> HIDE DEF u
<1>5. Shown(r, A, f, l, n) <=> Shown(r, A, f, u, n)
  <2>1. f \in 0..u
    BY DEF u
  <2> QED
    BY <1>1, <1>2, <2>1, ShownQuiet
<1> QED
  BY <1>3, <1>4, <1>5 DEF l

(* ...and so do the changes on the way.                                    *)
LEMMA AlternatesShifted ==
  ASSUME NEW q, NEW r, NEW d \in {0, 1}, Shift(q, r, d), NEW A, NEW f \in 0..(Len(q) - d),
         Alternates(q, A, f + d),
         NEW k \in (f + 1)..(Len(q) - d), r[k].type = "notify"
  PROVE  r[k].value <=> ~Shown(r, A, f, k - 1, r[k].name)
<1>1. /\ Len(q) \in Nat /\ r[k] = q[k + d] /\ k + d \in (f + d + 1)..Len(q)
      /\ k - 1 \in 0..(Len(q) - d) /\ (k - 1) + d = (k + d) - 1
  BY DEF Shift
<1>2. q[k + d].value <=> ~Shown(q, A, f + d, (k + d) - 1, q[k + d].name)
  BY <1>1 DEF Alternates
<1>3. Shown(r, A, f, k - 1, r[k].name) <=> Shown(q, A, f + d, (k - 1) + d, r[k].name)
  BY <1>1, ShownShifted
<1> QED
  BY <1>1, <1>2, <1>3

(* Views that the first message has been applied to go on as before.       *)
LEMMA ViewsApplied ==
  ASSUME NEW q, Len(q) \in Nat, Len(q) >= 1, NEW A, NEW B,
         \A k \in 1..Len(q) : q[k].type = "notify" => q[k].name \in Names,
         \A n \in Names : n \in B <=> IF Note(q, 1, n) THEN q[1].value ELSE n \in A
  PROVE  /\ \A val : Converges(q, A, 0, val) => Converges(q, B, 1, val)
         /\ Alternates(q, A, 0) => Alternates(q, B, 1)
<1>1. ASSUME NEW u \in Nat, u >= 1, NEW n \in Names
      PROVE  Shown(q, A, 0, u, n) <=> Shown(q, B, 1, u, n)
  BY <1>1, ShownApplied
<1>2. ASSUME NEW val, Converges(q, A, 0, val) PROVE Converges(q, B, 1, val)
  BY <1>1, <1>2 DEF Converges
<1>3. ASSUME Alternates(q, A, 0) PROVE Alternates(q, B, 1)
  <2> SUFFICES ASSUME NEW k \in 2..Len(q), q[k].type = "notify"
               PROVE  q[k].value <=> ~Shown(q, B, 1, k - 1, q[k].name)
    BY DEF Alternates
  <2>1. k \in 1..Len(q) /\ k \in (0 + 1)..Len(q) /\ k - 1 \in Nat /\ k - 1 >= 1
    OBVIOUS
  <2>2. q[k].value <=> ~Shown(q, A, 0, k - 1, q[k].name)
    BY <1>3, <2>1 DEF Alternates
  <2>3. q[k].name \in Names
    BY <2>1
  <2> QED
    BY <1>1, <2>1, <2>2, <2>3
<1> QED
  BY <1>2, <1>3

(* Messages of a handler that do not notify: views that are there when it  *)
(* is done, and resets that it posts, show what the service has.           *)
LEMMA ViewsKept ==
  ASSUME ViewsInv, NEW d \in {0, 1}, Shift(queue, queue', d),
         repeated' = repeated, outdated => outdated',
         sc' = NoInstance \/ (sc' = sc /\ symbols'[sc] = symbols[sc]),
         uiHandler => uiHandler',
         fresh' => uiHandler' /\ screen'["ea"] # "none",
         \A k \in (Len(queue) - d + 1)..Len(queue') :
           /\ queue'[k].type # "notify"
           /\ queue'[k].type = "resetUI" =>
                /\ uiHandler'
                /\ sc' # NoInstance /\ ~outdated' =>
                     queue'[k].of = sc /\ queue'[k].shows = TrueNames(symbols[sc]),
         fresh' /\ sc' # NoInstance /\ ~outdated' =>
           /\ fresh \/ (d = 1 /\ ResetOf(queue, 1, sc))
           /\ Converges(queue, views', d, symbols[sc])
           /\ ~repeated => strays' = {} /\ Alternates(queue, views', d)
  PROVE  ViewsInv'
<1>1. /\ Len(queue) \in Nat /\ Len(queue') \in Nat /\ d <= Len(queue)
      /\ Len(queue) - d \in Nat /\ Len(queue) - d <= Len(queue')
      /\ DOMAIN queue = 1..Len(queue) /\ DOMAIN queue' = 1..Len(queue')
      /\ \A k \in 1..(Len(queue) - d) : queue'[k] = queue[k + d] /\ k + d \in DOMAIN queue
      /\ \A k \in DOMAIN queue' :
           k \in 1..(Len(queue) - d) \/ k \in (Len(queue) - d + 1)..Len(queue')
  BY DEF Shift
<1>2. (\E k \in DOMAIN queue' : queue'[k].type = "resetUI") => uiHandler'
  BY <1>1 DEF ViewsInv
<1>3. ASSUME sc' # NoInstance, ~outdated'
      PROVE  /\ \A k \in DOMAIN queue' :
                  queue'[k].type = "resetUI" /\ queue'[k].of # sc' =>
                    ~fresh' /\ \A j \in 1..k : ~ResetOf(queue', j, sc')
             /\ fresh' => Converges(queue', views', 0, symbols'[sc'])
             /\ \A k \in DOMAIN queue' :
                  ResetOf(queue', k, sc') => Converges(queue', queue'[k].shows, k, symbols'[sc'])
             /\ ~repeated' =>
                  /\ fresh' => strays' = {} /\ Alternates(queue', views', 0)
                  /\ \A k \in DOMAIN queue' :
                       ResetOf(queue', k, sc') => Alternates(queue', queue'[k].shows, k)
  <2>1. sc' = sc /\ symbols'[sc'] = symbols[sc] /\ sc # NoInstance /\ ~outdated
    BY <1>3
  <2> DEFINE val == symbols[sc]
  <2>2. ASSUME NEW k \in DOMAIN queue', queue'[k].type = "resetUI", queue'[k].of # sc
        PROVE  ~fresh' /\ \A j \in 1..k : ~ResetOf(queue', j, sc)
    <3>1. k \in 1..(Len(queue) - d) /\ queue'[k] = queue[k + d] /\ k + d \in DOMAIN queue
      BY <1>1, <1>3, <2>2
    <3>2. ~fresh /\ \A j \in 1..(k + d) : ~ResetOf(queue, j, sc)
      BY <2>1, <2>2, <3>1 DEF ViewsInv
    <3>3. ~fresh'
      <4>1. 1 \in 1..(k + d)
        BY <1>1, <3>1
      <4> QED
        BY <1>3, <3>2, <4>1
    <3>4. ASSUME NEW j \in 1..k PROVE ~ResetOf(queue', j, sc)
      <4>1. queue'[j] = queue[j + d] /\ j + d \in 1..(k + d)
        BY <1>1, <3>1
      <4> QED
        BY <3>2, <4>1 DEF ResetOf
    <3> QED
      BY <3>3, <3>4
  <2>3. ASSUME NEW A, NEW f \in 0..(Len(queue) - d), Converges(queue, A, f + d, val)
        PROVE  Converges(queue', A, f, val)
    BY <2>3, ConvergesShifted
  <2>4. ASSUME NEW A, NEW f \in 0..(Len(queue) - d), Alternates(queue, A, f + d)
        PROVE  Alternates(queue', A, f)
    <3> SUFFICES ASSUME NEW k \in (f + 1)..Len(queue'), queue'[k].type = "notify"
                 PROVE  queue'[k].value <=> ~Shown(queue', A, f, k - 1, queue'[k].name)
      BY DEF Alternates
    <3>1. k \in (f + 1)..(Len(queue) - d)
      <4>1. k \in 1..Len(queue')
        BY <1>1
      <4>2. k \notin (Len(queue) - d + 1)..Len(queue')
        OBVIOUS
      <4> QED
        BY <1>1, <4>1, <4>2
    <3> QED
      BY <2>4, <3>1, AlternatesShifted
  <2>5. ASSUME NEW k \in DOMAIN queue', ResetOf(queue', k, sc)
        PROVE  /\ Converges(queue', queue'[k].shows, k, val)
               /\ ~repeated => Alternates(queue', queue'[k].shows, k)
    <3>1. CASE k \in 1..(Len(queue) - d)
      <4>1. /\ k \in 0..(Len(queue) - d) /\ k + d \in DOMAIN queue
            /\ ResetOf(queue, k + d, sc) /\ queue'[k].shows = queue[k + d].shows
        BY <1>1, <2>5, <3>1 DEF ResetOf
      <4>2. /\ Converges(queue, queue[k + d].shows, k + d, val)
            /\ ~repeated => Alternates(queue, queue[k + d].shows, k + d)
        BY <2>1, <4>1 DEF ViewsInv
      <4> QED
        BY <2>3, <2>4, <4>1, <4>2
    <3>2. CASE k \in (Len(queue) - d + 1)..Len(queue')
      <4>1. queue'[k].shows = TrueNames(val)
        BY <1>3, <2>5, <3>2 DEF ResetOf
      <4>2. \A j \in (k + 1)..Len(queue') : queue'[j].type # "notify"
        BY <1>1, <3>2
      <4>3. \A n \in Names : Shown(queue', TrueNames(val), k, Len(queue'), n) <=> val[n]
        BY <4>2 DEF Shown, Note, TrueNames
      <4> QED
        BY <4>1, <4>2, <4>3 DEF Converges, Alternates
    <3> QED
      BY <1>1, <3>1, <3>2
  <2>6. fresh' => Converges(queue', views', 0, val)
    <3>1. 0 \in 0..(Len(queue) - d) /\ 0 + d = d
      BY <1>1
    <3> QED
      BY <1>3, <2>3, <3>1
  <2>7. ~repeated /\ fresh' => strays' = {} /\ Alternates(queue', views', 0)
    <3>1. 0 \in 0..(Len(queue) - d) /\ 0 + d = d
      BY <1>1
    <3> QED
      BY <1>3, <2>4, <3>1
  <2> QED
    BY <2>1, <2>2, <2>5, <2>6, <2>7
<1> QED
  BY <1>2, <1>3 DEF ViewsInv

-----------------------------------------------------------------------------
(* What notifyContext and its loop post                                    *)

(* One call posts at most one notification and at most one call of Lua.    *)
LEMMA NotifyContextFacts ==
  ASSUME TypeOK, NEW i \in Instances, NEW n \in Names, NEW v \in BOOLEAN
  PROVE  LET m == NotifyContext(i, n, v)
             notify == [type |-> "notify", name |-> n, value |-> v]
             call == [type |-> "lua", of |-> i, name |-> n, word |-> Word(v)]
         IN  /\ m \in Seq(Message) /\ Len(m) \in Nat
             /\ \A k \in 1..Len(m) :
                  \/ k = 1 /\ uiHandler /\ m[k] = notify
                  \/ n \in InternalNames /\ m[k] = call
             /\ uiHandler => 1 \in 1..Len(m) /\ m[1] = notify
             /\ n \in InternalNames => \E k \in 1..Len(m) : m[k] = call
<1> DEFINE notify == [type |-> "notify", name |-> n, value |-> v]
           call == [type |-> "lua", of |-> i, name |-> n, word |-> Word(v)]
           front == IF uiHandler THEN <<notify>> ELSE <<>>
           back == IF n \in InternalNames THEN <<call>> ELSE <<>>
           m == NotifyContext(i, n, v)
<1>1. m = front \o back
  BY DEF NotifyContext, InUI, Code
<1>2. notify \in Message
  BY MessageKinds
<1>3. n \in InternalNames => call \in Message
  BY MessageKinds DEF Word
<1> HIDE DEF notify, call, m
<1>4. CASE uiHandler /\ n \in InternalNames
  <2> DEFINE a == <<notify>>
             b == <<call>>
  <2>1. a \in Seq(Message) /\ b \in Seq(Message) /\ Len(a) = 1 /\ Len(b) = 1
        /\ a[1] = notify /\ b[1] = call
    BY <1>2, <1>3, <1>4
  <2>2. m = a \o b
    BY <1>1, <1>4
  <2> HIDE DEF a, b
  <2>3. m \in Seq(Message) /\ Len(m) = 2 /\ m[1] = notify /\ m[2] = call
    <3>1. /\ a \o b \in Seq(Message) /\ Len(a \o b) = Len(a) + Len(b)
          /\ \A k \in 1..(Len(a) + Len(b)) :
               (a \o b)[k] = IF k <= Len(a) THEN a[k] ELSE b[k - Len(a)]
      BY <2>1, ConcatProperties
    <3>2. 1 \in 1..(Len(a) + Len(b)) /\ 2 \in 1..(Len(a) + Len(b)) /\ 2 - Len(a) = 1
      BY <2>1
    <3> DEFINE c == a \o b
    <3> HIDE DEF c
    <3> QED
      BY <2>1, <2>2, <3>1, <3>2 DEF c
  <2>4. \A k \in 1..Len(m) : k = 1 \/ k = 2
    BY <2>3
  <2> QED
    BY <1>4, <2>3, <2>4 DEF m, notify, call
<1>5. CASE uiHandler /\ n \notin InternalNames
  <2>1. m = <<notify>>
    BY <1>1, <1>5
  <2> QED
    BY <1>2, <1>5, <2>1 DEF m, notify, call
<1>6. CASE ~uiHandler /\ n \in InternalNames
  <2>1. m = <<call>>
    BY <1>1, <1>6
  <2> QED
    BY <1>3, <1>6, <2>1 DEF m, notify, call
<1>7. CASE ~uiHandler /\ n \notin InternalNames
  <2>1. m = <<>>
    BY <1>1, <1>7
  <2> QED
    BY <1>7, <2>1 DEF m, notify, call
<1> QED
  BY <1>4, <1>5, <1>6, <1>7

(* There is a function that concatenates the parts one after another.      *)
LEMMA ConcatExists ==
  ASSUME NEW L \in Nat, NEW part
  PROVE  \E f : f = [k \in 0..L |-> IF k = 0 THEN <<>> ELSE f[k - 1] \o part[k]]
<1> DEFINE body(f, h) == [k \in 0..h |-> IF k = 0 THEN <<>> ELSE f[k - 1] \o part[k]]
           T == {h \in Nat : ~\E f : f = body(f, h)}
           R == {ss \in Nat \X Nat : ss[1] < ss[2]}
<1>1. SUFFICES ASSUME T # {} PROVE FALSE
  OBVIOUS
<1>2. PICK h \in T : \A j \in T : <<j, h>> \notin R
  <2>1. IsWellFoundedOn(R, Nat) /\ T \subseteq Nat
    BY NatLessThanWellFounded DEF OpToRel
  <2> HIDE DEF R, T
  <2> QED
    BY <1>1, <2>1, WFMin
<1>3. CASE h = 0
  <2> DEFINE g == [k \in 0..0 |-> <<>>]
  <2>1. g = body(g, 0)
    OBVIOUS
  <2> QED
    BY <1>2, <1>3, <2>1
<1>4. CASE h # 0
  <2>1. h \in Nat /\ h - 1 \in Nat /\ h - 1 < h
    BY <1>2, <1>4
  <2>2. h - 1 \notin T
    BY <1>2, <2>1
  <2>3. PICK f : f = body(f, h - 1)
    BY <2>1, <2>2
  <2> DEFINE g == [k \in 0..h |-> IF k = h THEN f[h - 1] \o part[h] ELSE f[k]]
  <2>4. ASSUME NEW k \in 0..h PROVE g[k] = IF k = 0 THEN <<>> ELSE g[k - 1] \o part[k]
    <3>1. CASE k = 0
      BY <1>4, <2>1, <2>3, <3>1
    <3>2. CASE k = h
      <4>1. g[h] = f[h - 1] \o part[h] /\ g[h - 1] = f[h - 1]
        <5> DEFINE x == f[h - 1] \o part[h]
        <5>1. h \in 0..h /\ h - 1 \in 0..h /\ h - 1 # h
          BY <2>1
        <5> HIDE DEF x
        <5>2. g = [j \in 0..h |-> IF j = h THEN x ELSE f[j]]
          BY DEF x
        <5> HIDE DEF g
        <5>3. g[h] = x /\ g[h - 1] = f[h - 1]
          BY <5>1, <5>2
        <5> QED
          BY <5>3 DEF x
      <4> QED
        BY <1>4, <3>2, <4>1
    <3>3. CASE k # 0 /\ k # h
      <4>1. k \in 0..(h - 1) /\ k - 1 \in 0..h /\ k - 1 # h
        BY <2>1, <3>3
      <4>2. f[k] = f[k - 1] \o part[k]
        BY <2>3, <3>3, <4>1
      <4>3. g[k] = f[k] /\ g[k - 1] = f[k - 1]
        BY <3>3, <4>1
      <4> QED
        BY <3>3, <4>2, <4>3
    <3> QED
      BY <3>1, <3>2, <3>3
  <2>5. g = body(g, h)
    BY <2>4
  <2> QED
    BY <1>2, <2>5
<1> QED
  BY <1>3, <1>4

Notification(n, val) == [type |-> "notify", name |-> n, value |-> val[n]]
Call(i, n, val) == [type |-> "lua", of |-> i, name |-> n, word |-> Word(val[n])]

(* The messages m tell the screen, if it listens, and the Lua state of i   *)
(* of the symbols D and of no other, the screen once of each.              *)
Tells(m, i, D, val) ==
  /\ m \in Seq(Message)
  /\ \A k \in 1..Len(m) : \E n \in D :
       \/ uiHandler /\ m[k] = Notification(n, val)
       \/ n \in InternalNames /\ m[k] = Call(i, n, val)
  /\ \A n \in D :
       /\ uiHandler => \E k \in 1..Len(m) : m[k] = Notification(n, val)
       /\ n \in InternalNames => \E k \in 1..Len(m) : m[k] = Call(i, n, val)
  /\ \A j, k \in 1..Len(m) :
       m[j].type = "notify" /\ m[k].type = "notify" /\ m[j].name = m[k].name => j = k

LEMMA TellsNothing ==
  ASSUME NEW i, NEW val
  PROVE  Tells(<<>>, i, {}, val)
  BY DEF Tells

LEMMA TellsOne ==
  ASSUME TypeOK, NEW i \in Instances, NEW n \in Names, NEW val \in [Names -> BOOLEAN]
  PROVE  Tells(NotifyContext(i, n, val[n]), i, {n}, val)
<1> DEFINE m == NotifyContext(i, n, val[n])
<1>1. val[n] \in BOOLEAN
  OBVIOUS
<1>2. /\ m \in Seq(Message) /\ Len(m) \in Nat
      /\ \A k \in 1..Len(m) :
           \/ k = 1 /\ uiHandler /\ m[k] = Notification(n, val)
           \/ n \in InternalNames /\ m[k] = Call(i, n, val)
      /\ uiHandler => 1 \in 1..Len(m) /\ m[1] = Notification(n, val)
      /\ n \in InternalNames => \E k \in 1..Len(m) : m[k] = Call(i, n, val)
  BY <1>1, NotifyContextFacts DEF Notification, Call
<1>3. Call(i, n, val).type # "notify"
  BY DEF Call
<1> HIDE DEF m
<1>4. \A k \in 1..Len(m) : m[k].type = "notify" => k = 1
  BY <1>2, <1>3
<1>5. Tells(m, i, {n}, val)
  BY <1>2, <1>4 DEF Tells
<1> QED
  BY <1>5 DEF m

LEMMA TellsBoth ==
  ASSUME NEW i, NEW val, NEW D, NEW E, D \cap E = {},
         NEW a, Tells(a, i, D, val), NEW b, Tells(b, i, E, val)
  PROVE  Tells(a \o b, i, D \cup E, val)
<1> DEFINE m == a \o b
<1>1. /\ a \in Seq(Message) /\ b \in Seq(Message) /\ Len(a) \in Nat /\ Len(b) \in Nat
  BY LenProperties DEF Tells
<1>2. /\ m \in Seq(Message) /\ Len(m) = Len(a) + Len(b)
      /\ \A k \in 1..(Len(a) + Len(b)) : m[k] = IF k <= Len(a) THEN a[k] ELSE b[k - Len(a)]
  BY <1>1, ConcatProperties
<1> HIDE DEF m
<1>3. \A k \in 1..Len(a) : k \in 1..Len(m) /\ m[k] = a[k]
  BY <1>1, <1>2
<1>4. \A k \in 1..Len(b) : k + Len(a) \in 1..Len(m) /\ m[k + Len(a)] = b[k]
  <2> SUFFICES ASSUME NEW k \in 1..Len(b) PROVE k + Len(a) \in 1..Len(m) /\ m[k + Len(a)] = b[k]
    OBVIOUS
  <2>1. /\ k + Len(a) \in 1..(Len(a) + Len(b)) /\ ~(k + Len(a) <= Len(a))
        /\ (k + Len(a)) - Len(a) = k
    BY <1>1
  <2> QED
    BY <1>1, <1>2, <2>1
<1>5. ASSUME NEW k \in 1..Len(m)
      PROVE  \/ k \in 1..Len(a) /\ m[k] = a[k]
             \/ k > Len(a) /\ k - Len(a) \in 1..Len(b) /\ m[k] = b[k - Len(a)]
  BY <1>1, <1>2
<1>6. ASSUME NEW k \in 1..Len(m)
      PROVE  \E n \in D \cup E : \/ uiHandler /\ m[k] = Notification(n, val)
                                 \/ n \in InternalNames /\ m[k] = Call(i, n, val)
  <2>1. CASE k \in 1..Len(a) /\ m[k] = a[k]
    <3>1. PICK n \in D : \/ uiHandler /\ a[k] = Notification(n, val)
                         \/ n \in InternalNames /\ a[k] = Call(i, n, val)
      BY <2>1 DEF Tells
    <3> QED
      BY <2>1, <3>1
  <2>2. CASE k - Len(a) \in 1..Len(b) /\ m[k] = b[k - Len(a)]
    <3>1. PICK n \in E : \/ uiHandler /\ b[k - Len(a)] = Notification(n, val)
                         \/ n \in InternalNames /\ b[k - Len(a)] = Call(i, n, val)
      BY <2>2 DEF Tells
    <3> QED
      BY <2>2, <3>1
  <2> QED
    BY <1>5, <2>1, <2>2
<1>7. ASSUME NEW n \in D \cup E
      PROVE  /\ uiHandler => \E k \in 1..Len(m) : m[k] = Notification(n, val)
             /\ n \in InternalNames => \E k \in 1..Len(m) : m[k] = Call(i, n, val)
  <2>1. CASE n \in D
    BY <1>3, <2>1 DEF Tells
  <2>2. CASE n \in E
    <3>1. /\ uiHandler => \E k \in 1..Len(b) : b[k] = Notification(n, val)
          /\ n \in InternalNames => \E k \in 1..Len(b) : b[k] = Call(i, n, val)
      BY <2>2 DEF Tells
    <3> QED
      BY <1>4, <3>1
  <2> QED
    BY <2>1, <2>2
<1>8. ASSUME NEW j \in 1..Len(m), NEW k \in 1..Len(m),
             m[j].type = "notify", m[k].type = "notify", m[j].name = m[k].name
      PROVE  j = k
  <2>1. \A n : Notification(n, val).name = n
    BY DEF Notification
  <2>2. \A n : Call(i, n, val).type # "notify"
    BY DEF Call
  <2>3. \A h \in 1..Len(a) : a[h].type = "notify" => a[h].name \in D
    BY <2>1, <2>2 DEF Tells
  <2>4. \A h \in 1..Len(b) : b[h].type = "notify" => b[h].name \in E
    BY <2>1, <2>2 DEF Tells
  <2>5. CASE j <= Len(a) /\ k <= Len(a)
    <3>1. j \in 1..Len(a) /\ k \in 1..Len(a) /\ m[j] = a[j] /\ m[k] = a[k]
      BY <1>1, <1>5, <2>5
    <3> QED
      BY <1>8, <3>1 DEF Tells
  <2>6. CASE j > Len(a) /\ k > Len(a)
    <3>1. /\ j - Len(a) \in 1..Len(b) /\ k - Len(a) \in 1..Len(b)
          /\ m[j] = b[j - Len(a)] /\ m[k] = b[k - Len(a)]
      BY <1>1, <1>5, <2>6
    <3>2. j - Len(a) = k - Len(a)
      BY <1>8, <3>1 DEF Tells
    <3> QED
      BY <1>1, <1>2, <3>2
  <2>7. CASE j <= Len(a) /\ k > Len(a)
    <3>1. m[j].name \in D /\ m[k].name \in E
      BY <1>1, <1>5, <1>8, <2>3, <2>4, <2>7
    <3> QED
      BY <1>8, <3>1
  <2>8. CASE j > Len(a) /\ k <= Len(a)
    <3>1. /\ k \in 1..Len(a) /\ m[k] = a[k]
          /\ j - Len(a) \in 1..Len(b) /\ m[j] = b[j - Len(a)]
      <4>1. k \in 1..Len(a) /\ m[k] = a[k]
        BY <1>1, <1>5, <2>8
      <4>2. j - Len(a) \in 1..Len(b) /\ m[j] = b[j - Len(a)]
        <5>1. ~(j \in 1..Len(a))
          BY <1>1, <2>8
        <5> QED
          BY <1>5, <5>1
      <4> QED
        BY <4>1, <4>2
    <3>2. m[k].name \in D
      BY <1>8, <2>3, <3>1
    <3>3. m[j].name \in E
      BY <1>8, <2>4, <3>1
    <3> QED
      BY <1>8, <3>2, <3>3
  <2> QED
    BY <1>1, <1>2, <2>5, <2>6, <2>7, <2>8
<1>9. Tells(m, i, D \cup E, val)
  BY <1>2, <1>6, <1>7, <1>8 DEF Tells
<1> QED
  BY <1>9 DEF m

(* Every symbol has one id.                                                *)
LEMMA IdsDiffer ==
  \A x, y \in 1..Len(Order) : Order[x] = Order[y] => x = y
<1> DEFINE S == 1..Len(Order)
<1>1. Len(Order) \in Nat /\ DOMAIN Order = S /\ Order \in [S -> Names]
  BY SmartContextAssumption, LenProperties
<1>2. IsFiniteSet(S) /\ Cardinality(S) = Len(Order)
  BY <1>1, FS_Interval
<1>3. \A n \in Names : \E x \in S : Order[x] = n
  BY <1>1, SmartContextAssumption
<1>4. Cardinality(S) = Cardinality(Names)
  BY <1>2, SmartContextAssumption
<1> HIDE DEF S
<1>5. Order \in Surjection(S, Names)
  BY <1>1, <1>3, Fun_IsSurj
<1>6. Order \in Injection(S, Names)
  BY <1>2, <1>4, <1>5, FS_SurjSameCardinalityImpliesInj
<1> QED
  BY <1>6 DEF Injection, IsInjective, S

(* The loop tells of every symbol on the list.                             *)
LEMMA NotifyAllTells ==
  ASSUME TypeOK, NEW i \in Instances, NEW names \in SUBSET Names, NEW val \in [Names -> BOOLEAN]
  PROVE  Tells(NotifyAll(i, names, val), i, names, val)
<1> DEFINE L == Len(Order)
           one(k) == IF Order[k] \in names THEN NotifyContext(i, Order[k], val[Order[k]]) ELSE <<>>
           part == [k \in 1..L |-> one(k)]
           body(f) == [k \in 0..L |-> IF k = 0 THEN <<>> ELSE f[k - 1] \o one(k)]
           Notify == CHOOSE f : f = body(f)
           seen(k) == {Order[x] : x \in 1..k} \cap names
           T == {k \in 0..L : ~Tells(Notify[k], i, seen(k), val)}
           R == {ss \in Nat \X Nat : ss[1] < ss[2]}
<1>1. L \in Nat /\ DOMAIN Order = 1..L /\ \A k \in 1..L : Order[k] \in Names
  BY SmartContextAssumption, LenProperties
<1>2. \E f : f = body(f)
  <2>1. PICK f : f = [k \in 0..L |-> IF k = 0 THEN <<>> ELSE f[k - 1] \o part[k]]
    BY <1>1, ConcatExists
  <2>2. \A k \in 0..L : k # 0 => part[k] = one(k)
    BY <1>1
  <2> HIDE DEF part, one
  <2>3. f = body(f)
    BY <2>1, <2>2
  <2> QED
    BY <2>3
<1>3. Notify = body(Notify)
  BY <1>2
<1>4. NotifyAll(i, names, val) = Notify[L]
  BY DEF NotifyAll
<1> HIDE DEF Notify, L
<1>5. seen(L) = names
  BY <1>1, SmartContextAssumption
<1>6. SUFFICES ASSUME T # {} PROVE FALSE
  <2>1. L \in 0..L
    BY <1>1
  <2> HIDE DEF seen
  <2> QED
    BY <1>4, <1>5, <2>1
<1>7. PICK k \in T : \A j \in T : <<j, k>> \notin R
  <2>1. IsWellFoundedOn(R, Nat) /\ T \subseteq Nat
    BY <1>1, NatLessThanWellFounded DEF OpToRel
  <2> HIDE DEF R, T
  <2> QED
    BY <1>6, <2>1, WFMin
<1>8. k \in 0..L /\ ~Tells(Notify[k], i, seen(k), val)
  BY <1>7
<1>9. CASE k = 0
  <2>1. Notify[0] = <<>>
    BY <1>1, <1>3
  <2>2. seen(0) = {}
    OBVIOUS
  <2> QED
    BY <1>8, <1>9, <2>1, <2>2, TellsNothing
<1>10. CASE k # 0
  <2>1. k \in 1..L /\ k - 1 \in 0..L /\ k \in Nat /\ k - 1 \in Nat /\ k - 1 < k
    BY <1>1, <1>8, <1>10
  <2>2. Tells(Notify[k - 1], i, seen(k - 1), val)
    BY <1>7, <2>1
  <2>3. Notify[k] = Notify[k - 1] \o one(k)
    <3> HIDE DEF one
    <3> QED
      BY <1>3, <1>10, <2>1
  <2> DEFINE new == {Order[k]} \cap names
  <2>4. Tells(one(k), i, new, val)
    <3>1. CASE Order[k] \in names
      <4>1. Order[k] \in Names /\ new = {Order[k]}
        BY <3>1
      <4>2. Tells(NotifyContext(i, Order[k], val[Order[k]]), i, {Order[k]}, val)
        BY <4>1, TellsOne
      <4> QED
        BY <3>1, <4>1, <4>2
    <3>2. CASE Order[k] \notin names
      BY <3>2, TellsNothing
    <3> QED
      BY <3>1, <3>2
  <2>5. seen(k) = seen(k - 1) \cup new
    <3>1. \A x \in 1..k : x \in 1..(k - 1) \/ x = k
      BY <2>1
    <3>2. k \in 1..k /\ \A x \in 1..(k - 1) : x \in 1..k
      BY <2>1
    <3> QED
      BY <3>1, <3>2
  <2>6. seen(k - 1) \cap new = {}
    <3>1. \A x \in 1..(k - 1) : Order[x] # Order[k]
      BY <1>1, <2>1, IdsDiffer DEF L
    <3> QED
      BY <3>1
  <2> HIDE DEF one, new, seen
  <2>7. Tells(Notify[k], i, seen(k), val)
    BY <2>2, <2>3, <2>4, <2>5, <2>6, TellsBoth
  <2> QED
    BY <1>8, <2>7
<1> QED
  BY <1>9, <1>10

(* Behind the messages of q, r tells of the symbols D, once of each, that  *)
(* they have their values in val, which is the old one for the others.     *)
ToldBehind(q, r, D, old, val) ==
  /\ D \in SUBSET Names
  /\ \A k \in Len(q)..Len(r) :
       r[k].type = "notify" => r[k].name \in D /\ (r[k].value <=> val[r[k].name])
  /\ \A n \in D : \E k \in Len(q)..Len(r) : Note(r, k, n)
  /\ \A j, k \in Len(q)..Len(r) :
       r[j].type = "notify" /\ r[k].type = "notify" /\ r[j].name = r[k].name => j = k
  /\ \A n \in Names \ D : val[n] <=> old[n]

(* Views that were about to show old will show val once every symbol that  *)
(* changed was notified of, and each notification changes them if no other *)
(* symbol was.                                                             *)
LEMMA ChangedViews ==
  ASSUME NEW q, NEW r, Shift(q, r, 1), NEW D, NEW old, NEW val, ToldBehind(q, r, D, old, val),
         NEW A, NEW f \in 0..(Len(q) - 1), NEW g, g - f = 1, g \in Nat, Converges(q, A, g, old)
  PROVE  /\ Converges(r, A, f, val)
         /\ Alternates(q, A, g) /\ (\A n \in D : val[n] <=> ~old[n]) => Alternates(r, A, f)
<1> DEFINE u == Len(q) - 1
           l == Len(r)
<1>1. /\ u \in Nat /\ l \in Nat /\ u <= l /\ u \in 0..u /\ u + 1 = Len(q)
      /\ f \in Nat /\ f \in 0..u /\ g = f + 1
  BY DEF Shift
<1>0. /\ D \in SUBSET Names
      /\ \A k \in Len(q)..Len(r) :
           r[k].type = "notify" => r[k].name \in D /\ (r[k].value <=> val[r[k].name])
      /\ \A n \in D : \E k \in Len(q)..Len(r) : Note(r, k, n)
      /\ \A j, k \in Len(q)..Len(r) :
           r[j].type = "notify" /\ r[k].type = "notify" /\ r[j].name = r[k].name => j = k
      /\ \A n \in Names \ D : val[n] <=> old[n]
  BY DEF ToldBehind
<1> USE <1>0
<1>2. \A n \in Names : Shown(q, A, g, u + 1, n) <=> old[n]
  BY <1>1 DEF Converges
<1>3. \A n : Shown(r, A, f, u, n) <=> Shown(q, A, g, u + 1, n)
  BY <1>1, ShownShifted
<1>4. ASSUME NEW n \in Names, NEW h \in u..l, \A k \in (u + 1)..h : ~Note(r, k, n)
      PROVE  Shown(r, A, f, h, n) <=> old[n]
  <2>1. h \in Nat /\ u <= h
    BY <1>1
  <2> HIDE DEF u, l
  <2>2. Shown(r, A, f, h, n) <=> Shown(r, A, f, u, n)
    BY <1>1, <1>4, <2>1, ShownQuiet
  <2> QED
    BY <1>2, <1>3, <2>2
<1>5. ASSUME NEW n \in Names PROVE Shown(r, A, f, l, n) <=> val[n]
  <2>1. CASE n \in D
    <3>1. PICK k \in Len(q)..Len(r) : Note(r, k, n)
      BY <2>1
    <3>2. \A j \in (k + 1)..l : ~Note(r, j, n)
      <4> SUFFICES ASSUME NEW j \in (k + 1)..l, Note(r, j, n) PROVE FALSE
        OBVIOUS
      <4>1. j \in Len(q)..Len(r) /\ j # k
        BY <1>1
      <4> QED
        BY <3>1, <4>1 DEF Note
    <3>3. k \in (f + 1)..l
      BY <1>1
    <3>4. Shown(r, A, f, l, n) <=> r[k].value
      BY <1>1, <3>1, <3>2, <3>3, ShownLast
    <3> QED
      BY <3>1, <3>4 DEF Note
  <2>2. CASE n \notin D
    <3>1. \A k \in (u + 1)..l : ~Note(r, k, n)
      BY <1>1, <2>2 DEF Note
    <3>2. l \in u..l
      BY <1>1
    <3> QED
      BY <1>4, <2>2, <3>1, <3>2
  <2> QED
    BY <2>1, <2>2
<1>6. ASSUME Alternates(q, A, g), \A n \in D : val[n] <=> ~old[n] PROVE Alternates(r, A, f)
  <2> SUFFICES ASSUME NEW k \in (f + 1)..Len(r), r[k].type = "notify"
               PROVE  r[k].value <=> ~Shown(r, A, f, k - 1, r[k].name)
    BY DEF Alternates
  <2>1. CASE k \in (f + 1)..(Len(q) - 1)
    BY <1>6, <2>1, AlternatesShifted
  <2>2. CASE k \in Len(q)..Len(r)
    <3> DEFINE n == r[k].name
    <3>1. n \in D /\ (r[k].value <=> val[n])
      BY <2>2
    <3>2. \A j \in (u + 1)..(k - 1) : ~Note(r, j, n)
      <4> SUFFICES ASSUME NEW j \in (u + 1)..(k - 1), Note(r, j, n) PROVE FALSE
        OBVIOUS
      <4>1. j \in Len(q)..Len(r) /\ j # k
        BY <1>1, <2>2
      <4> QED
        BY <2>2, <4>1 DEF Note
    <3>3. k - 1 \in u..l
      BY <1>1, <2>2
    <3> HIDE DEF n
    <3>4. Shown(r, A, f, k - 1, n) <=> old[n]
      BY <1>4, <3>1, <3>2, <3>3
    <3> QED
      BY <1>6, <3>1, <3>4 DEF n
  <2> QED
    BY <1>1, <2>1, <2>2
<1> QED
  BY <1>5, <1>6 DEF Converges

-----------------------------------------------------------------------------
(* The beginning, and the end of the process                               *)

(* Nothing is there, whatever the process died of.                         *)
Empty ==
  /\ queue = <<>>
  /\ sc = NoInstance /\ symbols = [i \in Instances |-> Loaded] /\ loaded = FALSE
  /\ told = [s \in InternalNames |-> "none"]
  /\ uiHandler = FALSE /\ screen = [s \in Screens |-> "none"]
  /\ views = {} /\ strays = {} /\ rowsOf = NoInstance /\ wra = EmptyHolder /\ fresh = FALSE
  /\ running = FALSE
  /\ scheduled = [s \in Screens |-> "none"] /\ finishing = [s \in Screens |-> FALSE]
  /\ repeated = FALSE /\ outdated = FALSE

(* The holder of WifiRuleActivity has its type.                            *)
LEMMA HolderTyped ==
  /\ EmptyHolder \in [self : Askers, listed : BOOLEAN]
  /\ \A h \in [self : Askers, listed : BOOLEAN], b \in BOOLEAN :
       [h EXCEPT !.listed = b] \in [self : Askers, listed : BOOLEAN] /\ h.self \in Askers
  /\ \A a \in Activities : [EmptyHolder EXCEPT !.self = a] \in [self : Askers, listed : BOOLEAN]
  BY DEF EmptyHolder, Askers

LEMMA LoadedTyped == Loaded \in [Names -> BOOLEAN]
  BY SmartContextAssumption DEF Loaded

LEMMA EmptyIInv ==
  Empty /\ failure \in {"none", "Lua state closed", "screen registered twice"} => IInv
<1> SUFFICES ASSUME Empty, failure \in {"none", "Lua state closed", "screen registered twice"}
             PROVE  IInv
  OBVIOUS
<1>1. TypeOK
  <2>1. queue = <<>>
    BY DEF Empty
  <2>2. queue \in Seq(Message)
    BY ONLY <2>1
  <2>3. failure \in Failures \cup {"none"}
    BY DEF Failures
  <2> QED
    BY <2>2, <2>3, LoadedTyped, HolderTyped DEF Empty, TypeOK
<1>2. Len(queue) = 0 /\ DOMAIN queue = {} /\ sc = NoInstance /\ ~loaded
  <2>1. queue = <<>>
    BY DEF Empty
  <2>2. Len(queue) = 0 /\ DOMAIN queue = {}
    BY ONLY <2>1
  <2> QED
    BY <2>2 DEF Empty
<1>3. HoldersInv
  <2>1. \A k \in 0..Len(queue) : k = 0
    BY ONLY <1>2
  <2>2. \A T : Count(T, queue, 0) = 0
    BY CountFirst
  <2>3. ServiceAhead(0) = 0 /\ \A s \in Screens : ScreenAhead(s, 0) = 0
    <3>1. ServiceAhead(0) = 0
      BY ONLY <1>2, <2>2 DEF ServiceAhead
    <3>2. \A s \in Screens : screen[s] = "none"
      BY DEF Empty
    <3>3. \A s \in Screens : ScreenAhead(s, 0) = 0
      BY ONLY <2>2, <3>2 DEF ScreenAhead
    <3> QED
      BY <3>1, <3>3
  <2>4. ServiceInv
    <3>1. Len(queue) = 0 /\ ~running
      BY <1>2 DEF Empty
    <3> QED
      BY <2>1, <2>3, <3>1 DEF ServiceInv
  <2>5. ScreenInv
    <3>1. Len(queue) = 0 /\ DOMAIN queue = {}
      BY <1>2
    <3>2. \A s \in Screens : scheduled[s] = "none" /\ ~finishing[s]
      BY DEF Empty
    <3>3. \A s \in Screens : ScreenAhead(s, Len(queue)) = 0
      BY <2>3, <3>1
    <3> QED
      BY ONLY <3>1, <3>2, <3>3 DEF ScreenInv
  <2> QED
    BY <2>4, <2>5 DEF HoldersInv
<1>4. LuaInv /\ LuaFollows
  BY <1>2 DEF Empty, LuaInv, LuaFollows
<1>5. ViewsInv
  BY <1>2 DEF Empty, ViewsInv
<1>6. ServiceHolders
  BY DEF ServiceHolders
<1> QED
  BY <1>1, <1>3, <1>4, <1>5, <1>6 DEF IInv

(* The two ways in which the process can die.                              *)
LEMMA DieKeeps ==
  ASSUME NEW reason \in {"Lua state closed", "screen registered twice"}, Die(reason)
  PROVE  IInv'
<1>1. Empty' /\ failure' \in {"none", "Lua state closed", "screen registered twice"}
  BY DEF Die, Empty
<1>2. (Empty /\ failure \in {"none", "Lua state closed", "screen registered twice"} => IInv)'
  BY EmptyIInv, PTL
<1> QED
  BY <1>1, <1>2

(* A message finds the holder as it needs it.                              *)
LEMMA HoldersReady ==
  ASSUME TypeOK, HoldersInv, queue # <<>>
  PROVE  /\ queue[1] = [type |-> "create"] => sc = NoInstance
         /\ queue[1] = [type |-> "destroy"] => sc # NoInstance
         /\ \A s \in Screens :
              queue[1] \in [type : {"onResume", "onPause", "onDestroy"}, screen : {s}]
                => screen[s] # "none"
<1>1. Len(queue) \in Nat /\ Len(queue) >= 1 /\ DOMAIN queue = 1..Len(queue)
  BY EmptySeq, LenProperties DEF TypeOK
<1>2. ServiceAhead(1) \in {0, 1}
  BY <1>1 DEF HoldersInv, ServiceInv
<1>3. ServiceAhead(1) = (IF sc = NoInstance THEN 0 ELSE 1)
                          + (IF queue[1] = [type |-> "create"] THEN 1 ELSE 0)
                          - (IF queue[1] = [type |-> "destroy"] THEN 1 ELSE 0)
  BY CountFirst DEF ServiceAhead
<1>4. [type |-> "create"] # [type |-> "destroy"]
  <2>1. [type |-> "create"].type # [type |-> "destroy"].type
    OBVIOUS
  <2> QED
    BY <2>1
<1>5. ASSUME NEW s \in Screens,
             queue[1] \in [type : {"onResume", "onPause", "onDestroy"}, screen : {s}]
      PROVE  screen[s] # "none"
  <2>1. ScreenAhead(s, 1 - 1) >= 1
    BY <1>1, <1>5 DEF HoldersInv, ScreenInv
  <2>2. ScreenAhead(s, 0) >= 1
    BY <2>1
  <2>3. ScreenAhead(s, 0) = IF screen[s] = "none" THEN 0 ELSE 1
    BY CountFirst DEF ScreenAhead
  <2> QED
    BY <2>2, <2>3
<1>6. queue[1] = [type |-> "create"] => sc = NoInstance
  BY <1>2, <1>3, <1>4
<1>7. queue[1] = [type |-> "destroy"] => sc # NoInstance
  BY <1>2, <1>3, <1>4
<1> QED
  BY <1>5, <1>6, <1>7

-----------------------------------------------------------------------------
(* Every step keeps the invariant                                          *)

(* A handler that posts nothing, or one message.                           *)
LEMMA HandledNone ==
  ASSUME TypeOK, queue # <<>>, Post(<<>>)
  PROVE  /\ queue' \in Seq(Message) /\ Shift(queue, queue', 1)
         /\ Len(queue) >= 1 /\ queue[1] \in Message /\ Msg = queue[1]
         /\ \A k \in Len(queue)..Len(queue') : FALSE
<1>1. <<>> \in Seq(Message) /\ Len(<<>>) = 0
  OBVIOUS
<1>2. /\ queue' \in Seq(Message) /\ Shift(queue, queue', 1)
      /\ Len(queue) >= 1 /\ queue[1] \in Message /\ Head(queue) = queue[1]
      /\ Len(queue') = Len(queue) - 1 + Len(<<>>)
  BY <1>1, HandledShifts
<1>3. \A k \in Len(queue)..Len(queue') : FALSE
  BY <1>1, <1>2 DEF Shift
<1> QED
  BY <1>2, <1>3 DEF Msg

LEMMA HandledOne ==
  ASSUME TypeOK, queue # <<>>, NEW x \in Message, Post(<<x>>)
  PROVE  /\ queue' \in Seq(Message) /\ Shift(queue, queue', 1)
         /\ Len(queue) >= 1 /\ queue[1] \in Message /\ Msg = queue[1]
         /\ \A k \in Len(queue)..Len(queue') : queue'[k] = x
<1> DEFINE m == <<x>>
<1>1. m \in Seq(Message) /\ Len(m) = 1 /\ m[1] = x
  OBVIOUS
<1>2. Post(m)
  OBVIOUS
<1> HIDE DEF m
<1>3. /\ queue' \in Seq(Message) /\ Shift(queue, queue', 1)
      /\ Len(queue) >= 1 /\ queue[1] \in Message /\ Head(queue) = queue[1]
      /\ \A k \in Len(queue)..Len(queue') :
           k - Len(queue) + 1 \in 1..Len(m) /\ queue'[k] = m[k - Len(queue) + 1]
  BY <1>1, <1>2, HandledShifts
<1>4. \A k \in Len(queue)..Len(queue') : queue'[k] = x
  <2> SUFFICES ASSUME NEW k \in Len(queue)..Len(queue') PROVE queue'[k] = x
    OBVIOUS
  <2>1. k - Len(queue) + 1 = 1
    BY <1>1, <1>3
  <2> QED
    BY <1>1, <1>3, <2>1
<1> QED
  BY <1>3, <1>4 DEF Msg

(* Handlers that have no part in the holders and in Lua, and post neither  *)
(* lifecycle calls nor calls of Lua.                                       *)
LEMMA OthersKept ==
  ASSUME IInv, Shift(queue, queue', 1), queue[1].type \notin Commands \cup {"lua"},
         UNCHANGED <<serviceVars, screen, systemVars>>,
         \A k \in Len(queue)..Len(queue') : queue'[k].type \notin Commands \cup {"lua"}
  PROVE  HoldersInv' /\ LuaInv' /\ LuaFollows'
<1>1. UNCHANGED <<sc, screen, running, scheduled, finishing>>
  BY DEF serviceVars, systemVars
<1>2. queue[1] # [type |-> "create"] /\ queue[1] # [type |-> "destroy"]
  BY DEF Commands
<1>3. \A s \in Screens : /\ queue[1] # [type |-> "onCreate", screen |-> s]
                         /\ queue[1] # [type |-> "onDestroy", screen |-> s]
  BY DEF Commands
<1>4. ServiceInv'
  <2>1. Held' = Held + (IF queue[1] = [type |-> "create"] THEN 1 ELSE 0)
                     - (IF queue[1] = [type |-> "destroy"] THEN 1 ELSE 0)
    BY <1>1, <1>2 DEF Held
  <2> QED
    BY <1>1, <2>1, ServiceHandled DEF IInv, HoldersInv
<1>5. ScreenInv'
  <2>1. \A s \in Screens :
          HeldScreen(s)' =
            HeldScreen(s) + (IF queue[1] = [type |-> "onCreate", screen |-> s] THEN 1 ELSE 0)
                          - (IF queue[1] = [type |-> "onDestroy", screen |-> s] THEN 1 ELSE 0)
    <3> SUFFICES ASSUME NEW s \in Screens
                 PROVE  HeldScreen(s)' =
                          HeldScreen(s)
                            + (IF queue[1] = [type |-> "onCreate", screen |-> s] THEN 1 ELSE 0)
                            - (IF queue[1] = [type |-> "onDestroy", screen |-> s] THEN 1 ELSE 0)
      OBVIOUS
    <3>1. HeldScreen(s)' = HeldScreen(s) /\ HeldScreen(s) \in Int
      BY <1>1 DEF HeldScreen
    <3>2. /\ queue[1] # [type |-> "onCreate", screen |-> s]
          /\ queue[1] # [type |-> "onDestroy", screen |-> s]
      BY <1>3
    <3> QED
      BY <3>1, <3>2
  <2> QED
    BY <1>1, <2>1, ScreensHandled DEF IInv, HoldersInv
<1>6. LuaInv' /\ LuaFollows'
  <2>1. /\ 1 \in {0, 1} /\ queue[1].type # "lua"
        /\ \A k \in (Len(queue) - 1 + 1)..Len(queue') : queue'[k].type # "lua"
    BY DEF Shift
  <2> QED
    BY <2>1, LuaQuiet DEF IInv
<1> QED
  BY <1>4, <1>5, <1>6 DEF HoldersInv

(* Handlers that leave the views alone, too, or make them anew.            *)
LEMMA ViewsStay ==
  ASSUME IInv, Shift(queue, queue', 1), queue[1] \in Message,
         queue[1].type \notin {"notify", "resetUI"},
         sc' = NoInstance \/ (sc' = sc /\ symbols' = symbols),
         repeated' = repeated, outdated => outdated', uiHandler => uiHandler',
         fresh' => fresh /\ screen'["ea"] # "none" /\ views' = views /\ strays' = strays,
         \A k \in Len(queue)..Len(queue') :
           /\ queue'[k].type # "notify"
           /\ queue'[k].type = "resetUI" =>
                /\ uiHandler
                /\ sc' # NoInstance /\ ~outdated' =>
                     queue'[k].of = sc /\ queue'[k].shows = TrueNames(symbols[sc])
  PROVE  ViewsInv'
<1>1. /\ Len(queue) \in Nat /\ Len(queue) >= 1 /\ queue \in Seq(Message)
      /\ \A k \in 1..Len(queue) : queue[k] \in Message
  BY DEF Shift, IInv, TypeOK
<1>2. \A k \in 1..Len(queue) : queue[k].type = "notify" => queue[k].name \in Names
  BY <1>1, MessageFacts
<1>3. \A n \in Names : n \in views <=> IF Note(queue, 1, n) THEN queue[1].value ELSE n \in views
  BY DEF Note
<1>4. ASSUME fresh', sc' # NoInstance, ~outdated'
      PROVE  /\ fresh
             /\ Converges(queue, views', 1, symbols[sc])
             /\ ~repeated => strays' = {} /\ Alternates(queue, views', 1)
  <2>1. /\ Converges(queue, views, 0, symbols[sc])
        /\ ~repeated => strays = {} /\ Alternates(queue, views, 0)
    BY <1>4 DEF IInv, ViewsInv
  <2>2. /\ \A val : Converges(queue, views, 0, val) => Converges(queue, views, 1, val)
        /\ Alternates(queue, views, 0) => Alternates(queue, views, 1)
    BY <1>1, <1>2, <1>3, ViewsApplied
  <2> QED
    BY <1>4, <2>1, <2>2
<1>5. /\ sc' = NoInstance \/ (sc' = sc /\ symbols'[sc] = symbols[sc])
      /\ uiHandler => uiHandler'
      /\ fresh' => uiHandler' /\ screen'["ea"] # "none"
  BY DEF IInv, ViewsInv
<1>6. \A k \in (Len(queue) - 1 + 1)..Len(queue') :
        /\ queue'[k].type # "notify"
        /\ queue'[k].type = "resetUI" =>
             /\ uiHandler'
             /\ sc' # NoInstance /\ ~outdated' =>
                  queue'[k].of = sc /\ queue'[k].shows = TrueNames(symbols[sc])
  BY <1>1
<1>7. ViewsInv /\ 1 \in {0, 1}
  BY DEF IInv
<1> QED
  BY <1>4, <1>5, <1>6, <1>7, ViewsKept

(* The runnable of onResume posts a reset for the service that is there.   *)
LEMMA ServeRequestKeeps ==
  ASSUME IInv, ServeRequest
  PROVE  IInv'
<1> DEFINE x == [type |-> "resetUI", of |-> sc, shows |-> TrueNames(symbols[sc]), for |-> Msg.for]
           m == IF sc = NoInstance \/ ~uiHandler THEN <<>> ELSE <<x>>
<1>1. /\ queue # <<>> /\ Head(queue).type = "request" /\ Post(m)
      /\ UNCHANGED <<serviceVars, screenVars, systemVars, historyVars, failure>>
  BY DEF ServeRequest, Arrives, ResetUI, InUI
<1>2. TypeOK
  BY DEF IInv
<1> HIDE DEF x
<1>3. /\ queue' \in Seq(Message) /\ Shift(queue, queue', 1)
      /\ Len(queue) >= 1 /\ queue[1] \in Message /\ Msg = queue[1]
      /\ \A k \in Len(queue)..Len(queue') : sc # NoInstance /\ uiHandler /\ queue'[k] = x
  <2>1. CASE sc = NoInstance \/ ~uiHandler
    <3>1. Post(<<>>)
      BY <1>1, <2>1
    <3> QED
      BY <1>1, <1>2, <3>1, HandledNone
  <2>2. CASE sc # NoInstance /\ uiHandler
    <3>1. Post(<<x>>)
      BY <1>1, <2>2
    <3>2. x \in Message
      <4>1. Msg \in Message /\ Msg.type = "request"
        BY <1>1, <1>2, HeadTailProperties DEF TypeOK, Msg
      <4>2. Msg.for \in Askers
        BY <4>1, MessageFacts
      <4>3. sc \in Instances /\ TrueNames(symbols[sc]) \in SUBSET Names
        BY <1>2, <2>2 DEF TypeOK, TrueNames
      <4> QED
        BY <4>2, <4>3, MessageKinds DEF x
    <3> QED
      BY <1>1, <1>2, <2>2, <3>1, <3>2, HandledOne
  <2> QED
    BY <2>1, <2>2
<1>4. queue[1].type = "request"
  BY <1>1, <1>3 DEF Msg
<1>5. x.type = "resetUI" /\ x.of = sc /\ x.shows = TrueNames(symbols[sc])
  BY DEF x
<1>6. HoldersInv' /\ LuaInv' /\ LuaFollows'
  BY <1>1, <1>3, <1>4, <1>5, OthersKept DEF Commands, screenVars
<1>7. ViewsInv'
  <2>1. /\ sc' = sc /\ symbols' = symbols /\ UNCHANGED <<uiHandler, views, strays>>
        /\ repeated' = repeated /\ (outdated => outdated')
    BY <1>1 DEF serviceVars, screenVars, historyVars
  <2>2. fresh' => fresh /\ screen'["ea"] # "none"
    BY <1>1 DEF screenVars, IInv, ViewsInv
  <2> QED
    BY <1>3, <1>4, <1>5, <2>1, <2>2, ViewsStay
<1>8. TypeOK'
  BY <1>1, <1>2, <1>3 DEF TypeOK, serviceVars, screenVars, systemVars, historyVars
<1>9. ServiceHolders'
  BY <1>1 DEF IInv, ServiceHolders
<1> QED
  BY <1>6, <1>7, <1>8, <1>9 DEF IInv

(* So does the runnable of a deletion, unless its service object is gone.  *)
LEMMA DeleteKeeps ==
  ASSUME IInv, Delete
  PROVE  IInv'
<1> DEFINE i == Msg.of
           x == [type |-> "resetUI", of |-> i, shows |-> TrueNames(symbols[i]), for |-> NoActivity]
<1>1. /\ queue # <<>> /\ Head(queue).type = "delete" /\ Post(IF uiHandler THEN <<x>> ELSE <<>>)
      /\ outdated' = (outdated \/ sc \notin {NoInstance, i})
      /\ UNCHANGED <<serviceVars, screenVars, systemVars, repeated, failure>>
  BY DEF Delete, Arrives, ResetUI, InUI
<1>2. TypeOK
  BY DEF IInv
<1>3. i \in Instances
  <2>1. Msg \in Message /\ Msg.type = "delete"
    BY <1>1, <1>2, HeadTailProperties DEF TypeOK, Msg
  <2> QED
    BY <2>1, MessageFacts
<1>4. x \in Message
  <2>1. TrueNames(symbols[i]) \in SUBSET Names /\ NoActivity \in Askers
    BY DEF TrueNames, Askers
  <2> QED
    BY <1>3, <2>1, MessageKinds
<1>5. x.type = "resetUI" /\ x.of = i /\ x.shows = TrueNames(symbols[i])
  OBVIOUS
<1> HIDE DEF i, x
<1>6. /\ queue' \in Seq(Message) /\ Shift(queue, queue', 1)
      /\ Len(queue) >= 1 /\ queue[1] \in Message /\ Msg = queue[1]
      /\ \A k \in Len(queue)..Len(queue') : uiHandler /\ queue'[k] = x
  <2>1. CASE ~uiHandler
    <3>1. Post(<<>>)
      BY <1>1, <2>1
    <3> QED
      BY <1>1, <1>2, <3>1, HandledNone
  <2>2. CASE uiHandler
    <3>1. Post(<<x>>)
      BY <1>1, <2>2
    <3> QED
      BY <1>1, <1>2, <1>4, <2>2, <3>1, HandledOne
  <2> QED
    BY <2>1, <2>2
<1>7. queue[1].type = "delete"
  BY <1>1, <1>6 DEF Msg
<1>8. HoldersInv' /\ LuaInv' /\ LuaFollows'
  BY <1>1, <1>5, <1>6, <1>7, OthersKept DEF Commands, screenVars
<1>9. ViewsInv'
  <2>1. /\ sc' = sc /\ symbols' = symbols /\ UNCHANGED <<uiHandler, views, strays>>
        /\ repeated' = repeated /\ (outdated => outdated')
    BY <1>1 DEF serviceVars, screenVars
  <2>2. fresh' => fresh /\ screen'["ea"] # "none"
    BY <1>1 DEF screenVars, IInv, ViewsInv
  <2>3. sc' # NoInstance /\ ~outdated' => i = sc
    BY <1>1, <2>1
  <2>4. \A k \in Len(queue)..Len(queue') :
          /\ queue'[k].type # "notify"
          /\ queue'[k].type = "resetUI" =>
               /\ uiHandler
               /\ sc' # NoInstance /\ ~outdated' =>
                    queue'[k].of = sc /\ queue'[k].shows = TrueNames(symbols[sc])
    BY <1>5, <1>6, <2>3
  <2> QED
    BY <1>6, <1>7, <2>1, <2>2, <2>4, ViewsStay
<1>10. TypeOK'
  BY <1>1, <1>2, <1>6 DEF TypeOK, serviceVars, screenVars, systemVars
<1>11. ServiceHolders'
  BY <1>1 DEF IInv, ServiceHolders
<1> QED
  BY <1>8, <1>9, <1>10, <1>11 DEF IInv

(* DEL posts the deletion.                                                 *)
LEMMA ClickDeleteKeeps ==
  ASSUME IInv, ClickDelete
  PROVE  IInv'
<1> DEFINE i == Msg.of
           x == [type |-> "delete", of |-> i]
<1>1. /\ queue # <<>> /\ Head(queue).type = "click"
      /\ Post(IF sc # NoInstance THEN <<x>> ELSE <<>>)
      /\ UNCHANGED <<serviceVars, screenVars, systemVars, historyVars, failure>>
  BY DEF ClickDelete, Arrives, InSC
<1>2. TypeOK
  BY DEF IInv
<1>3. i \in Instances
  <2>1. Msg \in Message /\ Msg.type = "click"
    BY <1>1, <1>2, HeadTailProperties DEF TypeOK, Msg
  <2> QED
    BY <2>1, MessageFacts
<1>4. x \in Message /\ x.type = "delete"
  BY <1>3, MessageKinds
<1> HIDE DEF i, x
<1>5. /\ queue' \in Seq(Message) /\ Shift(queue, queue', 1)
      /\ Len(queue) >= 1 /\ queue[1] \in Message /\ Msg = queue[1]
      /\ \A k \in Len(queue)..Len(queue') : queue'[k] = x
  <2>1. CASE sc = NoInstance
    <3>1. Post(<<>>)
      BY <1>1, <2>1
    <3> QED
      BY <1>1, <1>2, <3>1, HandledNone
  <2>2. CASE sc # NoInstance
    <3>1. Post(<<x>>)
      BY <1>1, <2>2
    <3> QED
      BY <1>1, <1>2, <1>4, <3>1, HandledOne
  <2> QED
    BY <2>1, <2>2
<1>6. queue[1].type = "click"
  BY <1>1, <1>5 DEF Msg
<1>7. HoldersInv' /\ LuaInv' /\ LuaFollows'
  BY <1>1, <1>4, <1>5, <1>6, OthersKept DEF Commands, screenVars
<1>8. ViewsInv'
  <2>1. /\ sc' = sc /\ symbols' = symbols /\ UNCHANGED <<uiHandler, views, strays>>
        /\ repeated' = repeated /\ (outdated => outdated')
    BY <1>1 DEF serviceVars, screenVars, historyVars
  <2>2. fresh' => fresh /\ screen'["ea"] # "none"
    BY <1>1 DEF screenVars, IInv, ViewsInv
  <2> QED
    BY <1>4, <1>5, <1>6, <2>1, <2>2, ViewsStay
<1>9. TypeOK'
  BY <1>1, <1>2, <1>5 DEF TypeOK, serviceVars, screenVars, systemVars, historyVars
<1>10. ServiceHolders'
  BY <1>1 DEF IInv, ServiceHolders
<1> QED
  BY <1>7, <1>8, <1>9, <1>10 DEF IInv

(* The views of a reset replace those of a resumed EntryActivity, and the  *)
(* notifications that are queued behind it go on from there.               *)
LEMMA ShowResetKeeps ==
  ASSUME IInv, ShowReset
  PROVE  IInv'
<1>1. /\ queue # <<>> /\ Head(queue).type = "resetUI" /\ Post(<<>>)
      /\ UNCHANGED <<serviceVars, uiHandler, screen, systemVars, historyVars, failure>>
  BY DEF ShowReset, Arrives
<1>2. TypeOK
  BY DEF IInv
<1>3. /\ queue' \in Seq(Message) /\ Shift(queue, queue', 1)
      /\ Len(queue) >= 1 /\ queue[1] \in Message /\ Msg = queue[1]
      /\ \A k \in Len(queue)..Len(queue') : FALSE
  BY <1>1, <1>2, HandledNone
<1>4. queue[1].type = "resetUI" /\ 1 \in DOMAIN queue /\ Len(queue) \in Nat
  BY <1>1, <1>3 DEF Msg, Shift
<1>5. queue[1].of \in Instances /\ queue[1].shows \in SUBSET Names
  BY <1>3, <1>4, MessageFacts
<1>6. /\ IF screen["ea"] = "resumed"
           THEN /\ views' = queue[1].shows /\ strays' = {} /\ rowsOf' = queue[1].of
                /\ fresh' = (fresh \/ queue[1].of = sc)
           ELSE UNCHANGED <<views, strays, rowsOf, fresh>>
      /\ wra' \in [self : Askers, listed : BOOLEAN]
  BY <1>2, <1>3 DEF ShowReset, ShownViews, TypeOK
<1>7. HoldersInv' /\ LuaInv' /\ LuaFollows'
  BY <1>1, <1>3, <1>4, OthersKept DEF Commands
<1>8. ViewsInv'
  <2>1. /\ sc' = sc /\ symbols' = symbols /\ UNCHANGED <<uiHandler, screen>>
        /\ repeated' = repeated /\ outdated' = outdated
    BY <1>1 DEF serviceVars, historyVars
  <2>2. uiHandler
    BY <1>4 DEF IInv, ViewsInv
  <2>3. fresh' => uiHandler' /\ screen'["ea"] # "none"
    BY <1>6, <2>1, <2>2 DEF IInv, ViewsInv
  <2>4. ASSUME fresh', sc # NoInstance, ~outdated
        PROVE  /\ fresh \/ ResetOf(queue, 1, sc)
               /\ Converges(queue, views', 1, symbols[sc])
               /\ ~repeated => strays' = {} /\ Alternates(queue, views', 1)
    <3>1. CASE screen["ea"] = "resumed" /\ queue[1].of = sc
      <4>1. ResetOf(queue, 1, sc) /\ views' = queue[1].shows /\ strays' = {}
        BY <1>4, <1>6, <3>1 DEF ResetOf
      <4> QED
        BY <1>4, <2>4, <4>1 DEF IInv, ViewsInv
    <3>2. CASE screen["ea"] = "resumed" /\ queue[1].of # sc
      <4>1. ~fresh
        BY <1>4, <2>4, <3>2 DEF IInv, ViewsInv
      <4> QED
        BY <1>6, <2>4, <3>2, <4>1
    <3>3. CASE screen["ea"] # "resumed"
      <4>1. fresh /\ views' = views /\ strays' = strays
        BY <1>6, <2>4, <3>3
      <4>2. /\ Converges(queue, views, 0, symbols[sc])
            /\ ~repeated => strays = {} /\ Alternates(queue, views, 0)
        BY <2>4, <4>1 DEF IInv, ViewsInv
      <4>3. \A n \in Names : n \in views <=> IF Note(queue, 1, n) THEN queue[1].value ELSE n \in views
        BY <1>4 DEF Note
      <4>4. \A k \in 1..Len(queue) : queue[k].type = "notify" => queue[k].name \in Names
        BY <1>2, MessageFacts DEF TypeOK
      <4>5. /\ \A val : Converges(queue, views, 0, val) => Converges(queue, views, 1, val)
            /\ Alternates(queue, views, 0) => Alternates(queue, views, 1)
        BY <1>3, <1>4, <4>3, <4>4, ViewsApplied
      <4> QED
        BY <4>1, <4>2, <4>5
    <3> QED
      BY <3>1, <3>2, <3>3
  <2>5. \A k \in (Len(queue) - 1 + 1)..Len(queue') : FALSE
    BY <1>3, <1>4
  <2>6. ViewsInv /\ 1 \in {0, 1}
    BY DEF IInv
  <2>7. fresh' /\ sc' # NoInstance /\ ~outdated' =>
          /\ fresh \/ (1 = 1 /\ ResetOf(queue, 1, sc))
          /\ Converges(queue, views', 1, symbols[sc])
          /\ ~repeated => strays' = {} /\ Alternates(queue, views', 1)
    BY <2>1, <2>4
  <2> QED
    BY <1>3, <2>1, <2>3, <2>5, <2>6, <2>7, ViewsKept
<1>9. TypeOK'
  BY <1>1, <1>2, <1>3, <1>5, <1>6 DEF TypeOK, serviceVars, systemVars, historyVars
<1>10. ServiceHolders'
  BY <1>1 DEF IInv, ServiceHolders
<1> QED
  BY <1>7, <1>8, <1>9, <1>10 DEF IInv

(* A notification changes the views as the queue says, and leaves a stray  *)
(* tag only if it changes nothing.                                         *)
LEMMA ShowNotificationKeeps ==
  ASSUME IInv, ShowNotification
  PROVE  IInv'
<1>1. /\ queue # <<>> /\ Head(queue).type = "notify" /\ Post(<<>>)
      /\ UNCHANGED <<serviceVars, uiHandler, screen, rowsOf, wra, fresh,
                     systemVars, historyVars, failure>>
  BY DEF ShowNotification, Arrives
<1>2. TypeOK
  BY DEF IInv
<1>3. /\ queue' \in Seq(Message) /\ Shift(queue, queue', 1)
      /\ Len(queue) >= 1 /\ queue[1] \in Message /\ Msg = queue[1]
      /\ \A k \in Len(queue)..Len(queue') : FALSE
  BY <1>1, <1>2, HandledNone
<1>4. queue[1].type = "notify" /\ 1 \in DOMAIN queue /\ Len(queue) \in Nat
  BY <1>1, <1>3 DEF Msg, Shift
<1> DEFINE name == queue[1].name
<1>5. name \in Names /\ queue[1].value \in BOOLEAN
  BY <1>3, <1>4, MessageFacts
<1>6. IF screen["ea"] = "none" THEN UNCHANGED <<views, strays>>
      ELSE IF queue[1].value
        THEN strays' = strays \cup (views \cap {name}) /\ views' = views \cup {name}
        ELSE views' = views \ {name} /\ strays' = strays
  BY <1>3 DEF ShowNotification
<1>7. HoldersInv' /\ LuaInv' /\ LuaFollows'
  BY <1>1, <1>3, <1>4, OthersKept DEF Commands
<1>8. ViewsInv'
  <2>1. /\ sc' = sc /\ symbols' = symbols /\ UNCHANGED <<uiHandler, screen, fresh>>
        /\ repeated' = repeated /\ outdated' = outdated
    BY <1>1 DEF serviceVars, historyVars
  <2>2. fresh' => uiHandler' /\ screen'["ea"] # "none"
    BY <2>1 DEF IInv, ViewsInv
  <2>3. ASSUME fresh, sc # NoInstance, ~outdated
        PROVE  /\ Converges(queue, views', 1, symbols[sc])
               /\ ~repeated => strays' = {} /\ Alternates(queue, views', 1)
    <3>1. /\ Converges(queue, views, 0, symbols[sc])
          /\ ~repeated => strays = {} /\ Alternates(queue, views, 0)
      BY <2>3 DEF IInv, ViewsInv
    <3>2. screen["ea"] # "none"
      BY <2>3 DEF IInv, ViewsInv
    <3>3. \A n \in Names : n \in views' <=> IF Note(queue, 1, n) THEN queue[1].value ELSE n \in views
      <4> SUFFICES ASSUME NEW n \in Names
                   PROVE  n \in views' <=> IF n = name THEN queue[1].value ELSE n \in views
        BY <1>4 DEF Note
      <4>1. CASE queue[1].value
        BY <1>6, <3>2, <4>1
      <4>2. CASE ~queue[1].value
        BY <1>6, <3>2, <4>2
      <4> QED
        BY <4>1, <4>2
    <3>4. \A k \in 1..Len(queue) : queue[k].type = "notify" => queue[k].name \in Names
      BY <1>2, MessageFacts DEF TypeOK
    <3>5. /\ \A val : Converges(queue, views, 0, val) => Converges(queue, views', 1, val)
          /\ Alternates(queue, views, 0) => Alternates(queue, views', 1)
      BY <1>3, <1>4, <3>3, <3>4, ViewsApplied
    <3>6. ASSUME ~repeated PROVE strays' = {}
      <4>1. queue[1].value <=> name \notin views
        <5>1. 1 \in (0 + 1)..Len(queue) /\ 1 - 1 = 0
          BY <1>3, <1>4
        <5>2. queue[1].value <=> ~Shown(queue, views, 0, 1 - 1, name)
          BY <1>4, <3>1, <3>6, <5>1 DEF Alternates
        <5>3. Shown(queue, views, 0, 0, name) <=> name \in views
          BY DEF Shown
        <5> QED
          BY <5>1, <5>2, <5>3
      <4>2. strays = {}
        BY <3>1, <3>6
      <4>3. CASE queue[1].value
        BY <1>6, <3>2, <4>1, <4>2, <4>3
      <4>4. CASE ~queue[1].value
        BY <1>6, <3>2, <4>2, <4>4
      <4> QED
        BY <4>3, <4>4
    <3> QED
      BY <3>1, <3>5, <3>6
  <2>4. \A k \in (Len(queue) - 1 + 1)..Len(queue') : FALSE
    BY <1>3, <1>4
  <2>5. ViewsInv /\ 1 \in {0, 1}
    BY DEF IInv
  <2>6. fresh' /\ sc' # NoInstance /\ ~outdated' =>
          /\ fresh \/ (1 = 1 /\ ResetOf(queue, 1, sc))
          /\ Converges(queue, views', 1, symbols[sc])
          /\ ~repeated => strays' = {} /\ Alternates(queue, views', 1)
    BY <2>1, <2>3
  <2> QED
    BY <1>3, <2>1, <2>2, <2>4, <2>5, <2>6, ViewsKept
<1>9. TypeOK'
  <2>1. views' \in SUBSET Names /\ strays' \in SUBSET Names
    BY <1>2, <1>5, <1>6 DEF TypeOK
  <2> QED
    BY <1>1, <1>2, <1>3, <2>1 DEF TypeOK, serviceVars, systemVars, historyVars
<1>10. ServiceHolders'
  BY <1>1 DEF IInv, ServiceHolders
<1> QED
  BY <1>7, <1>8, <1>9, <1>10 DEF IInv

(* The calls of an activity: what they do to the holder is what ScreenAhead*)
(* counts.                                                                 *)
LEMMA ScreenCallKept ==
  ASSUME IInv, NEW s \in Screens, Shift(queue, queue', 1), Len(queue) >= 1,
         queue[1].type \in {"onCreate", "onResume", "onPause", "onDestroy"},
         queue[1] = [type |-> queue[1].type, screen |-> s],
         \A k \in Len(queue)..Len(queue') : queue'[k].type = "request",
         UNCHANGED <<serviceVars, systemVars>>,
         NEW x, screen' = [screen EXCEPT ![s] = x],
         queue[1].type = "onCreate" => screen[s] = "none" /\ x # "none",
         queue[1].type = "onDestroy" => screen[s] # "none" /\ x = "none",
         queue[1].type \in {"onResume", "onPause"} => screen[s] # "none" /\ x # "none"
  PROVE  HoldersInv' /\ LuaInv' /\ LuaFollows'
<1>1. /\ UNCHANGED <<sc, running, scheduled, finishing>>
      /\ screen \in [Screens -> {"none", "paused", "resumed"}]
  BY DEF serviceVars, systemVars, IInv, TypeOK
<1>2. queue[1] # [type |-> "create"] /\ queue[1] # [type |-> "destroy"]
  OBVIOUS
<1>3. \A k \in Len(queue)..Len(queue') : queue'[k].type \notin Commands \cup {"lua"}
  BY DEF Commands
<1>4. ServiceInv'
  <2>1. Held' = Held + (IF queue[1] = [type |-> "create"] THEN 1 ELSE 0)
                     - (IF queue[1] = [type |-> "destroy"] THEN 1 ELSE 0)
    BY <1>1, <1>2 DEF Held
  <2> QED
    BY <1>1, <1>3, <2>1, ServiceHandled DEF IInv, HoldersInv
<1>5. ASSUME NEW t \in Screens
      PROVE  HeldScreen(t)' =
               HeldScreen(t) + (IF queue[1] = [type |-> "onCreate", screen |-> t] THEN 1 ELSE 0)
                             - (IF queue[1] = [type |-> "onDestroy", screen |-> t] THEN 1 ELSE 0)
  <2>1. CASE t # s
    <3>1. screen'[t] = screen[t] /\ queue[1].screen = s
      BY <1>1, <2>1
    <3>2. /\ queue[1] # [type |-> "onCreate", screen |-> t]
          /\ queue[1] # [type |-> "onDestroy", screen |-> t]
      BY <2>1, <3>1
    <3>3. HeldScreen(t)' = HeldScreen(t) /\ HeldScreen(t) \in Int
      BY <3>1 DEF HeldScreen
    <3> QED
      BY <3>2, <3>3
  <2>2. CASE t = s
    <3>1. screen'[s] = x
      BY <1>1
    <3>2. /\ queue[1] = [type |-> "onCreate", screen |-> s] <=> queue[1].type = "onCreate"
          /\ queue[1] = [type |-> "onDestroy", screen |-> s] <=> queue[1].type = "onDestroy"
      OBVIOUS
    <3>3. /\ HeldScreen(s) = IF screen[s] = "none" THEN 0 ELSE 1
          /\ HeldScreen(s)' = IF x = "none" THEN 0 ELSE 1
      BY <3>1 DEF HeldScreen
    <3> QED
      BY <2>2, <3>2, <3>3
  <2> QED
    BY <2>1, <2>2
<1>6. ScreenInv'
  BY <1>1, <1>3, <1>5, ScreensHandled DEF IInv, HoldersInv
<1>7. LuaInv' /\ LuaFollows'
  <2>1. /\ 1 \in {0, 1} /\ queue[1].type # "lua"
        /\ \A k \in (Len(queue) - 1 + 1)..Len(queue') : queue'[k].type # "lua"
    BY <1>3 DEF Shift
  <2> QED
    BY <2>1, LuaQuiet DEF IInv
<1> QED
  BY <1>4, <1>6, <1>7 DEF HoldersInv

(* An activity is created, or another one of its class is still there.     *)
LEMMA CreateScreenKeeps ==
  ASSUME IInv, NEW s \in Screens, CreateScreen(s)
  PROVE  IInv'
<1>1. CASE screen[s] # "none"
  BY <1>1, DieKeeps DEF CreateScreen
<1>2. CASE screen[s] = "none"
  <2>1. /\ queue # <<>> /\ Head(queue).type = "onCreate" /\ Head(queue).screen = s /\ Post(<<>>)
        /\ screen' = [screen EXCEPT ![s] = "paused"] /\ uiHandler' = TRUE
        /\ IF s = "ea"
             THEN views' = {} /\ strays' = {} /\ rowsOf' = NoInstance /\ fresh' = FALSE
                  /\ UNCHANGED wra
             ELSE /\ wra' = [EmptyHolder EXCEPT !.self = CHOOSE a \in Activities : a \notin Asking]
                  /\ SomeNotAsking
                  /\ UNCHANGED <<views, strays, rowsOf, fresh>>
        /\ UNCHANGED <<serviceVars, systemVars, historyVars, failure>>
    BY <1>2 DEF CreateScreen, Arrives, Msg
  <2>2. TypeOK
    BY DEF IInv
  <2>3. /\ queue' \in Seq(Message) /\ Shift(queue, queue', 1)
        /\ Len(queue) >= 1 /\ queue[1] \in Message /\ Msg = queue[1]
        /\ \A k \in Len(queue)..Len(queue') : FALSE
    BY <2>1, <2>2, HandledNone
  <2>4. /\ queue[1].type = "onCreate" /\ queue[1].screen = s
        /\ queue[1] = [type |-> queue[1].type, screen |-> s]
    BY <2>1, <2>3, MessageFacts DEF Msg
  <2>5. HoldersInv' /\ LuaInv' /\ LuaFollows'
    BY <1>2, <2>1, <2>3, <2>4, ScreenCallKept
  <2>6. ViewsInv'
    <3>1. /\ sc' = sc /\ symbols' = symbols /\ (uiHandler => uiHandler')
          /\ repeated' = repeated /\ outdated' = outdated
      BY <2>1 DEF serviceVars, historyVars
    <3>2. fresh' => fresh /\ screen'["ea"] # "none" /\ views' = views /\ strays' = strays
      <4>1. fresh' => s # "ea" /\ fresh /\ views' = views /\ strays' = strays
        BY <2>1
      <4>2. "ea" \in Screens
        BY SmartContextAssumption
      <4>3. s # "ea" => screen'["ea"] = screen["ea"]
        BY <2>1, <2>2, <4>2 DEF TypeOK
      <4>4. fresh => screen["ea"] # "none"
        BY DEF IInv, ViewsInv
      <4> QED
        BY <4>1, <4>3, <4>4
    <3> QED
      BY <2>3, <2>4, <3>1, <3>2, ViewsStay
  <2>7. TypeOK'
    <3>1. wra' \in [self : Askers, listed : BOOLEAN]
      <4>1. CASE s = "ea"
        BY <2>1, <2>2, <4>1 DEF TypeOK
      <4>2. CASE s # "ea"
        <5>1. SomeNotAsking => (CHOOSE a \in Activities : a \notin Asking) \in Activities
          BY DEF SomeNotAsking
        <5> QED
          BY <2>1, <4>2, <5>1, HolderTyped
      <4> QED
        BY <4>1, <4>2
    <3>2. screen' \in [Screens -> {"none", "paused", "resumed"}]
      BY <2>1, <2>2 DEF TypeOK
    <3>3. /\ views' \in SUBSET Names /\ strays' \in SUBSET Names
          /\ rowsOf' \in Instances \cup {NoInstance} /\ fresh' \in BOOLEAN
      BY <2>1, <2>2 DEF TypeOK
    <3> QED
      BY <2>1, <2>2, <2>3, <3>1, <3>2, <3>3 DEF TypeOK, serviceVars, systemVars, historyVars
  <2>8. ServiceHolders'
    BY <2>1 DEF IInv, ServiceHolders
  <2> QED
    BY <2>5, <2>6, <2>7, <2>8 DEF IInv
<1> QED
  BY <1>1, <1>2

(* onResume asks the service for its state.                                *)
LEMMA ResumeScreenKeeps ==
  ASSUME IInv, NEW s \in Screens, ResumeScreen(s)
  PROVE  IInv'
<1> DEFINE x == [type |-> "request", for |-> IF s = "wra" THEN wra.self ELSE NoActivity]
<1>1. /\ queue # <<>> /\ Head(queue).type = "onResume" /\ Head(queue).screen = s
      /\ Post(IF sc # NoInstance THEN <<x>> ELSE <<>>)
      /\ screen' = [screen EXCEPT ![s] = "resumed"]
      /\ wra' = IF s = "wra" THEN [wra EXCEPT !.listed = FALSE] ELSE wra
      /\ UNCHANGED <<serviceVars, uiHandler, views, strays, rowsOf, fresh,
                     systemVars, historyVars, failure>>
  BY DEF ResumeScreen, Arrives, Msg, Request, InSC
<1>2. TypeOK
  BY DEF IInv
<1>3. x \in Message /\ x.type = "request"
  BY <1>2, MessageKinds DEF TypeOK, Askers
<1> HIDE DEF x
<1>4. /\ queue' \in Seq(Message) /\ Shift(queue, queue', 1)
      /\ Len(queue) >= 1 /\ queue[1] \in Message /\ Msg = queue[1]
      /\ \A k \in Len(queue)..Len(queue') : queue'[k] = x
  <2>1. CASE sc = NoInstance
    <3>1. Post(<<>>)
      BY <1>1, <2>1
    <3> QED
      BY <1>1, <1>2, <3>1, HandledNone
  <2>2. CASE sc # NoInstance
    <3>1. Post(<<x>>)
      BY <1>1, <2>2
    <3> QED
      BY <1>1, <1>2, <1>3, <3>1, HandledOne
  <2> QED
    BY <2>1, <2>2
<1>5. /\ queue[1].type = "onResume" /\ queue[1].screen = s
      /\ queue[1] = [type |-> queue[1].type, screen |-> s]
  BY <1>1, <1>4, MessageFacts DEF Msg
<1>6. screen[s] # "none"
  <2>1. queue[1] \in [type : {"onResume", "onPause", "onDestroy"}, screen : {s}]
    BY <1>5
  <2> QED
    BY <1>1, <1>2, <2>1, HoldersReady DEF IInv
<1>7. HoldersInv' /\ LuaInv' /\ LuaFollows'
  BY <1>1, <1>3, <1>4, <1>5, <1>6, ScreenCallKept
<1>8. ViewsInv'
  <2>1. /\ sc' = sc /\ symbols' = symbols /\ (uiHandler => uiHandler')
        /\ repeated' = repeated /\ outdated' = outdated
    BY <1>1 DEF serviceVars, historyVars
  <2>2. fresh' => fresh /\ screen'["ea"] # "none" /\ views' = views /\ strays' = strays
    BY <1>1, <1>2 DEF IInv, ViewsInv, TypeOK
  <2> QED
    BY <1>3, <1>4, <1>5, <2>1, <2>2, ViewsStay
<1>9. TypeOK'
  BY <1>1, <1>2, <1>4 DEF TypeOK, serviceVars, systemVars, historyVars
<1>10. ServiceHolders'
  BY <1>1 DEF IInv, ServiceHolders
<1> QED
  BY <1>7, <1>8, <1>9, <1>10 DEF IInv

LEMMA PauseScreenKeeps ==
  ASSUME IInv, NEW s \in Screens, PauseScreen(s)
  PROVE  IInv'
<1>1. /\ queue # <<>> /\ Head(queue).type = "onPause" /\ Head(queue).screen = s /\ Post(<<>>)
      /\ screen' = [screen EXCEPT ![s] = "paused"]
      /\ UNCHANGED <<serviceVars, uiHandler, views, strays, rowsOf, wra, fresh,
                     systemVars, historyVars, failure>>
  BY DEF PauseScreen, Arrives, Msg
<1>2. TypeOK
  BY DEF IInv
<1>3. /\ queue' \in Seq(Message) /\ Shift(queue, queue', 1)
      /\ Len(queue) >= 1 /\ queue[1] \in Message /\ Msg = queue[1]
      /\ \A k \in Len(queue)..Len(queue') : FALSE
  BY <1>1, <1>2, HandledNone
<1>4. /\ queue[1].type = "onPause" /\ queue[1].screen = s
      /\ queue[1] = [type |-> queue[1].type, screen |-> s]
  BY <1>1, <1>3, MessageFacts DEF Msg
<1>5. screen[s] # "none"
  <2>1. queue[1] \in [type : {"onResume", "onPause", "onDestroy"}, screen : {s}]
    BY <1>4
  <2> QED
    BY <1>1, <1>2, <2>1, HoldersReady DEF IInv
<1>6. HoldersInv' /\ LuaInv' /\ LuaFollows'
  BY <1>1, <1>3, <1>4, <1>5, ScreenCallKept
<1>7. ViewsInv'
  <2>1. /\ sc' = sc /\ symbols' = symbols /\ (uiHandler => uiHandler')
        /\ repeated' = repeated /\ outdated' = outdated
    BY <1>1 DEF serviceVars, historyVars
  <2>2. fresh' => fresh /\ screen'["ea"] # "none" /\ views' = views /\ strays' = strays
    BY <1>1, <1>2 DEF IInv, ViewsInv, TypeOK
  <2> QED
    BY <1>3, <1>4, <2>1, <2>2, ViewsStay
<1>8. TypeOK'
  BY <1>1, <1>2, <1>3 DEF TypeOK, serviceVars, systemVars, historyVars
<1>9. ServiceHolders'
  BY <1>1 DEF IInv, ServiceHolders
<1> QED
  BY <1>6, <1>7, <1>8, <1>9 DEF IInv

(* An activity that is destroyed is one that was created.                  *)
LEMMA DestroyScreenKeeps ==
  ASSUME IInv, NEW s \in Screens, DestroyScreen(s)
  PROVE  IInv'
<1>1. queue # <<>> /\ Head(queue).type = "onDestroy" /\ Head(queue).screen = s
  BY DEF DestroyScreen, Arrives, Msg
<1>2. TypeOK
  BY DEF IInv
<1>3. /\ queue[1].type = "onDestroy" /\ queue[1].screen = s
      /\ queue[1] = [type |-> queue[1].type, screen |-> s]
  <2>1. Head(queue) = queue[1] /\ queue[1] \in Message
    BY <1>1, <1>2, HeadTailProperties, EmptySeq DEF TypeOK
  <2> QED
    BY <1>1, <2>1, MessageFacts
<1>4. screen[s] # "none"
  <2>1. queue[1] \in [type : {"onResume", "onPause", "onDestroy"}, screen : {s}]
    BY <1>3
  <2> QED
    BY <1>1, <1>2, <2>1, HoldersReady DEF IInv
<1>5. /\ Post(<<>>) /\ screen' = [screen EXCEPT ![s] = "none"]
      /\ IF s = "ea"
           THEN views' = {} /\ strays' = {} /\ rowsOf' = NoInstance /\ fresh' = FALSE
                /\ UNCHANGED wra
           ELSE wra' = EmptyHolder /\ UNCHANGED <<views, strays, rowsOf, fresh>>
      /\ UNCHANGED <<serviceVars, uiHandler, systemVars, historyVars, failure>>
  BY <1>4 DEF DestroyScreen
<1>6. /\ queue' \in Seq(Message) /\ Shift(queue, queue', 1)
      /\ Len(queue) >= 1 /\ queue[1] \in Message
      /\ \A k \in Len(queue)..Len(queue') : FALSE
  BY <1>1, <1>2, <1>5, HandledNone
<1>7. HoldersInv' /\ LuaInv' /\ LuaFollows'
  BY <1>3, <1>4, <1>5, <1>6, ScreenCallKept
<1>8. ViewsInv'
  <2>1. /\ sc' = sc /\ symbols' = symbols /\ (uiHandler => uiHandler')
        /\ repeated' = repeated /\ outdated' = outdated
    BY <1>5 DEF serviceVars, historyVars
  <2>2. fresh' => fresh /\ screen'["ea"] # "none" /\ views' = views /\ strays' = strays
    <3>1. fresh' => s # "ea" /\ fresh /\ views' = views /\ strays' = strays
      BY <1>5
    <3>2. "ea" \in Screens
      BY SmartContextAssumption
    <3>3. s # "ea" => screen'["ea"] = screen["ea"]
      BY <1>2, <1>5, <3>2 DEF TypeOK
    <3>4. fresh => screen["ea"] # "none"
      BY DEF IInv, ViewsInv
    <3> QED
      BY <3>1, <3>3, <3>4
  <2> QED
    BY <1>3, <1>6, <2>1, <2>2, ViewsStay
<1>9. TypeOK'
  <2>1. wra' \in [self : Askers, listed : BOOLEAN]
    BY <1>2, <1>5, HolderTyped DEF TypeOK
  <2>2. screen' \in [Screens -> {"none", "paused", "resumed"}]
    BY <1>2, <1>5 DEF TypeOK
  <2>3. /\ views' \in SUBSET Names /\ strays' \in SUBSET Names
        /\ rowsOf' \in Instances \cup {NoInstance} /\ fresh' \in BOOLEAN
    BY <1>2, <1>5 DEF TypeOK
  <2> QED
    BY <1>2, <1>5, <1>6, <2>1, <2>2, <2>3 DEF TypeOK, serviceVars, systemVars, historyVars
<1>10. ServiceHolders'
  BY <1>5 DEF IInv, ServiceHolders
<1> QED
  BY <1>7, <1>8, <1>9, <1>10 DEF IInv

(* What a handler leaves alone it need not count.                          *)
LEMMA ScreensUntouched ==
  ASSUME ScreenInv, Shift(queue, queue', 1),
         queue[1].type \notin {"onCreate", "onDestroy"},
         UNCHANGED <<screen, scheduled, finishing>>,
         \A k \in Len(queue)..Len(queue') : queue'[k].type \notin Commands
  PROVE  ScreenInv'
<1>1. ASSUME NEW s \in Screens
      PROVE  HeldScreen(s)' =
               HeldScreen(s) + (IF queue[1] = [type |-> "onCreate", screen |-> s] THEN 1 ELSE 0)
                             - (IF queue[1] = [type |-> "onDestroy", screen |-> s] THEN 1 ELSE 0)
  <2>1. HeldScreen(s)' = HeldScreen(s) /\ HeldScreen(s) \in Int
    BY DEF HeldScreen
  <2>2. /\ queue[1] # [type |-> "onCreate", screen |-> s]
        /\ queue[1] # [type |-> "onDestroy", screen |-> s]
    OBVIOUS
  <2> QED
    BY <2>1, <2>2
<1> QED
  BY <1>1, ScreensHandled

LEMMA ServiceUntouched ==
  ASSUME ServiceInv, Shift(queue, queue', 1),
         queue[1].type \notin {"create", "destroy"},
         UNCHANGED <<sc, running>>,
         \A k \in Len(queue)..Len(queue') : queue'[k].type \notin Commands
  PROVE  ServiceInv'
<1>1. queue[1] # [type |-> "create"] /\ queue[1] # [type |-> "destroy"]
  OBVIOUS
<1>2. Held' = Held + (IF queue[1] = [type |-> "create"] THEN 1 ELSE 0)
                   - (IF queue[1] = [type |-> "destroy"] THEN 1 ELSE 0)
  BY <1>1 DEF Held
<1> QED
  BY <1>2, ServiceHandled

(* The service is destroyed: Lua and the engine go with it.                *)
LEMMA DestroyServiceKeeps ==
  ASSUME IInv, DestroyService
  PROVE  IInv'
<1>1. queue # <<>> /\ Head(queue).type = "destroy"
  BY DEF DestroyService, Arrives
<1>2. TypeOK
  BY DEF IInv
<1>3. queue[1].type = "destroy" /\ queue[1] = [type |-> "destroy"]
  <2>1. Head(queue) = queue[1] /\ queue[1] \in Message
    BY <1>1, <1>2, HeadTailProperties, EmptySeq DEF TypeOK
  <2> QED
    BY <1>1, <2>1, MessageFacts
<1>4. sc # NoInstance
  BY <1>1, <1>2, <1>3, HoldersReady DEF IInv
<1>5. /\ sc' = NoInstance /\ loaded' = FALSE /\ told' = [s \in InternalNames |-> "none"]
      /\ Post(<<>>)
      /\ UNCHANGED <<symbols, screenVars, systemVars, historyVars, failure>>
  BY <1>4 DEF DestroyService, AfterDestroy
<1>6. /\ queue' \in Seq(Message) /\ Shift(queue, queue', 1)
      /\ Len(queue) >= 1 /\ queue[1] \in Message
      /\ \A k \in Len(queue)..Len(queue') : FALSE
  BY <1>1, <1>2, <1>5, HandledNone
<1>7. HoldersInv'
  <2>1. ServiceInv'
    <3>1. queue[1] # [type |-> "create"]
      BY <1>3
    <3>2. Held = 1 /\ Held' = 0
      BY <1>4, <1>5 DEF Held
    <3>3. Held' = Held + (IF queue[1] = [type |-> "create"] THEN 1 ELSE 0)
                       - (IF queue[1] = [type |-> "destroy"] THEN 1 ELSE 0)
      BY <1>3, <3>1, <3>2
    <3>4. running' = running /\ ServiceInv
      BY <1>5 DEF systemVars, IInv, HoldersInv
    <3> QED
      BY <1>6, <3>3, <3>4, ServiceHandled
  <2>2. ScreenInv'
    <3>1. ScreenInv /\ UNCHANGED <<screen, scheduled, finishing>>
      BY <1>5 DEF screenVars, systemVars, IInv, HoldersInv
    <3> QED
      BY <1>3, <1>6, <3>1, ScreensUntouched
  <2> QED
    BY <2>1, <2>2 DEF HoldersInv
<1>8. LuaInv' /\ LuaFollows'
  BY <1>5 DEF LuaInv, LuaFollows
<1>9. ViewsInv'
  <2>1. /\ repeated' = repeated /\ outdated' = outdated
        /\ UNCHANGED <<uiHandler, views, strays, fresh, screen>>
    BY <1>5 DEF screenVars, historyVars
  <2>2. fresh' => fresh /\ screen'["ea"] # "none" /\ views' = views /\ strays' = strays
    BY <2>1 DEF IInv, ViewsInv
  <2> QED
    BY <1>3, <1>5, <1>6, <2>1, <2>2, ViewsStay
<1>10. TypeOK'
  BY <1>2, <1>5, <1>6 DEF TypeOK, screenVars, systemVars, historyVars
<1>11. ServiceHolders'
  BY <1>5 DEF IInv, ServiceHolders
<1> QED
  BY <1>7, <1>8, <1>9, <1>10, <1>11 DEF IInv

(* Lua carries out a call, unless its state is closed.                     *)
LEMMA RunLuaKeeps ==
  ASSUME IInv, RunLua
  PROVE  IInv'
<1>1. queue # <<>> /\ Head(queue).type = "lua"
  BY DEF RunLua, Arrives
<1>2. TypeOK
  BY DEF IInv
<1>3. CASE Msg.of # sc
  BY <1>3, DieKeeps DEF RunLua
<1>4. CASE Msg.of = sc
  <2>1. /\ Post(<<>>) /\ loaded' = (loaded \/ Msg.word = "require")
        /\ told' = IF loaded /\ Msg.word # "require"
                     THEN [told EXCEPT ![Msg.name] = Msg.word] ELSE told
        /\ UNCHANGED <<sc, symbols, screenVars, systemVars, historyVars, failure>>
    BY <1>4 DEF RunLua
  <2>2. /\ queue' \in Seq(Message) /\ Shift(queue, queue', 1)
        /\ Len(queue) >= 1 /\ queue[1] \in Message /\ Msg = queue[1]
        /\ \A k \in Len(queue)..Len(queue') : FALSE
    BY <1>1, <1>2, <2>1, HandledNone
  <2>3. /\ queue[1].type = "lua" /\ queue[1].of = sc /\ sc # NoInstance
        /\ queue[1].word # "require" =>
             queue[1].name \in InternalNames /\ queue[1].word \in {"enter", "leave"}
    <3>1. queue[1].of \in Instances
      BY <1>1, <2>2, MessageFacts DEF Msg
    <3> QED
      BY <1>1, <1>4, <2>2, <3>1, MessageFacts, SmartContextAssumption DEF Msg
  <2>4. HoldersInv'
    <3>1. /\ ServiceInv /\ ScreenInv /\ UNCHANGED <<sc, running, screen, scheduled, finishing>>
      BY <2>1 DEF screenVars, systemVars, IInv, HoldersInv
    <3> QED
      BY <2>2, <2>3, <3>1, ScreensUntouched, ServiceUntouched DEF HoldersInv
  <2>5. LuaInv' /\ LuaFollows'
    <3>1. \A s : 1 \in Coming(s) <=> queue[1].word # "require" /\ queue[1].name = s /\ loaded
      <4>1. 1 \in DOMAIN queue /\ ~ \E j \in 1..(1 - 1) : TRUE
        BY <2>2 DEF Shift
      <4> QED
        BY <2>3, <4>1 DEF Coming
    <3>2. loaded' <=> loaded \/ (1 = 1 /\ Requires(1))
      BY <1>2, <2>1, <2>2, <2>3 DEF Requires, TypeOK
    <3>3. ASSUME NEW s \in InternalNames
          PROVE  IF 1 = 1 /\ 1 \in Coming(s) THEN told'[s] = queue[1].word ELSE told'[s] = told[s]
      BY <1>2, <2>1, <2>2, <2>3, <3>1, <3>3 DEF TypeOK
    <3>4. \A k \in (Len(queue) - 1 + 1)..Len(queue') : queue'[k].type # "lua"
      BY <2>2 DEF Shift
    <3>5. /\ LuaInv /\ LuaFollows /\ 1 \in {0, 1}
          /\ UNCHANGED <<sc, symbols>> /\ (sc = NoInstance => ~loaded')
      BY <2>1, <2>3 DEF IInv
    <3> QED
      BY <2>2, <3>2, <3>3, <3>4, <3>5, LuaKept
  <2>6. ViewsInv'
    <3>1. /\ sc' = sc /\ symbols' = symbols /\ repeated' = repeated /\ outdated' = outdated
          /\ UNCHANGED <<uiHandler, views, strays, fresh, screen>>
      BY <2>1 DEF screenVars, historyVars
    <3>2. fresh' => fresh /\ screen'["ea"] # "none" /\ views' = views /\ strays' = strays
      BY <3>1 DEF IInv, ViewsInv
    <3> QED
      BY <2>2, <2>3, <3>1, <3>2, ViewsStay
  <2>7. TypeOK'
    <3>1. told' \in [InternalNames -> {"none", "enter", "leave"}] /\ loaded' \in BOOLEAN
      BY <1>2, <2>1, <2>2, <2>3 DEF TypeOK
    <3> QED
      BY <1>2, <2>1, <2>2, <3>1 DEF TypeOK, screenVars, systemVars, historyVars
  <2>8. ServiceHolders'
    BY <2>1 DEF IInv, ServiceHolders
  <2> QED
    BY <2>4, <2>5, <2>6, <2>7, <2>8 DEF IInv
<1> QED
  BY <1>3, <1>4

(* What notifyContext posts for the symbols D is behind the other messages.*)
LEMMA TellsPosted ==
  ASSUME TypeOK, queue # <<>>, NEW i, NEW D, NEW val, NEW m, Tells(m, i, D, val), Post(m)
  PROVE  /\ queue' \in Seq(Message) /\ Shift(queue, queue', 1)
         /\ Len(queue) >= 1 /\ queue[1] \in Message /\ Head(queue) = queue[1]
         /\ \A k \in Len(queue)..Len(queue') : \E n \in D :
              \/ uiHandler /\ queue'[k] = Notification(n, val)
              \/ n \in InternalNames /\ queue'[k] = Call(i, n, val)
         /\ \A n \in D :
              /\ uiHandler => \E k \in Len(queue)..Len(queue') : queue'[k] = Notification(n, val)
              /\ n \in InternalNames =>
                   \E k \in Len(queue)..Len(queue') : queue'[k] = Call(i, n, val)
         /\ \A j, k \in Len(queue)..Len(queue') :
              queue'[j].type = "notify" /\ queue'[k].type = "notify"
              /\ queue'[j].name = queue'[k].name => j = k
<1>1. m \in Seq(Message)
  BY DEF Tells
<1>2. /\ queue' \in Seq(Message) /\ Shift(queue, queue', 1)
      /\ Len(queue) >= 1 /\ queue[1] \in Message /\ Head(queue) = queue[1]
      /\ Len(queue') = Len(queue) - 1 + Len(m) /\ Len(m) \in Nat
      /\ \A k \in Len(queue)..Len(queue') :
           k - Len(queue) + 1 \in 1..Len(m) /\ queue'[k] = m[k - Len(queue) + 1]
  BY <1>1, HandledShifts
<1>3. Len(queue) \in Nat /\ Len(queue') \in Nat
  BY <1>2 DEF Shift
<1>4. ASSUME NEW j \in 1..Len(m)
      PROVE  \E k \in Len(queue)..Len(queue') : queue'[k] = m[j]
  <2>1. /\ j + Len(queue) - 1 \in Len(queue)..Len(queue')
        /\ (j + Len(queue) - 1) - Len(queue) + 1 = j
    BY <1>2, <1>3
  <2> QED
    BY <1>2, <2>1
<1>5. \A k \in Len(queue)..Len(queue') : \E n \in D :
        \/ uiHandler /\ queue'[k] = Notification(n, val)
        \/ n \in InternalNames /\ queue'[k] = Call(i, n, val)
  BY <1>2, SMTT(30) DEF Tells
<1>6. \A n \in D :
        /\ uiHandler => \E k \in Len(queue)..Len(queue') : queue'[k] = Notification(n, val)
        /\ n \in InternalNames =>
             \E k \in Len(queue)..Len(queue') : queue'[k] = Call(i, n, val)
  BY <1>4 DEF Tells
<1>7. ASSUME NEW j \in Len(queue)..Len(queue'), NEW k \in Len(queue)..Len(queue'),
             queue'[j].type = "notify", queue'[k].type = "notify",
             queue'[j].name = queue'[k].name
      PROVE  j = k
  <2> DEFINE x == j - Len(queue) + 1
             y == k - Len(queue) + 1
  <2>1. /\ x \in 1..Len(m) /\ y \in 1..Len(m) /\ queue'[j] = m[x] /\ queue'[k] = m[y]
        /\ (x = y => j = k)
    BY <1>2, <1>3
  <2> HIDE DEF x, y
  <2>2. m[x].type = "notify" /\ m[y].type = "notify" /\ m[x].name = m[y].name
    BY <1>7, <2>1
  <2>3. x = y
    BY <2>1, <2>2 DEF Tells
  <2> QED
    BY <2>1, <2>3
<1> QED
  BY <1>2, <1>5, <1>6, <1>7

(* A native context changes while the service is there: Lua and the screen *)
(* are told of every symbol that changes.                                  *)
LEMMA ContextChanges ==
  ASSUME IInv, queue # <<>>, Head(queue).type = "change", sc # NoInstance,
         NEW val \in [Names -> BOOLEAN], NEW list \in SUBSET Names,
         {x \in Names : val[x] # symbols[sc][x]} \subseteq list,
         symbols' = [symbols EXCEPT ![sc] = val],
         repeated' = (repeated \/ list # {x \in Names : val[x] # symbols[sc][x]}),
         Post(NotifyAll(sc, list, val)),
         UNCHANGED <<sc, loaded, told, outdated, screenVars, systemVars, failure>>
  PROVE  IInv'
<1> DEFINE old == symbols[sc]
           m == NotifyAll(sc, list, val)
<1>1. /\ TypeOK /\ sc \in Instances /\ old \in [Names -> BOOLEAN]
      /\ sc' = sc /\ symbols'[sc] = val
  BY DEF IInv, TypeOK
<1>2. Tells(m, sc, list, val) /\ Post(m)
  BY <1>1, NotifyAllTells
<1>3. /\ \A x \in Names \ list : val[x] = old[x]
      /\ ~repeated' => ~repeated /\ \A x \in list : val[x] # old[x]
  OBVIOUS
<1> HIDE DEF m, old
<1>4. /\ queue' \in Seq(Message) /\ Shift(queue, queue', 1)
      /\ Len(queue) >= 1 /\ queue[1] \in Message /\ Head(queue) = queue[1]
      /\ \A k \in Len(queue)..Len(queue') : \E n \in list :
           \/ uiHandler /\ queue'[k] = Notification(n, val)
           \/ n \in InternalNames /\ queue'[k] = Call(sc, n, val)
      /\ \A n \in list :
           /\ uiHandler => \E k \in Len(queue)..Len(queue') : queue'[k] = Notification(n, val)
           /\ n \in InternalNames =>
                \E k \in Len(queue)..Len(queue') : queue'[k] = Call(sc, n, val)
      /\ \A j, k \in Len(queue)..Len(queue') :
           queue'[j].type = "notify" /\ queue'[k].type = "notify"
           /\ queue'[j].name = queue'[k].name => j = k
  BY <1>1, <1>2, TellsPosted
<1>5. /\ Len(queue) \in Nat /\ Len(queue') \in Nat /\ DOMAIN queue = 1..Len(queue)
      /\ DOMAIN queue' = 1..Len(queue') /\ Len(queue) - 1 <= Len(queue')
      /\ \A k \in 1..(Len(queue) - 1) : queue'[k] = queue[k + 1]
      /\ queue[1].type = "change"
  BY <1>4 DEF Shift
<1>6. /\ \A n : /\ Notification(n, val).type = "notify" /\ Notification(n, val).name = n
                /\ Notification(n, val).value = val[n]
      /\ \A n : /\ Call(sc, n, val).type = "lua" /\ Call(sc, n, val).of = sc
                /\ Call(sc, n, val).name = n /\ Call(sc, n, val).word = Word(val[n])
      /\ \A b : Word(b) # "require"
  BY DEF Notification, Call, Word
<1>7. \A k \in Len(queue)..Len(queue') : \E n \in list :
        \/ /\ uiHandler /\ queue'[k].type = "notify" /\ queue'[k].name = n
           /\ queue'[k].value = val[n]
        \/ /\ n \in InternalNames /\ queue'[k].type = "lua" /\ queue'[k].of = sc
           /\ queue'[k].name = n /\ queue'[k].word = Word(val[n])
  <2> SUFFICES ASSUME NEW k \in Len(queue)..Len(queue')
               PROVE  \E n \in list :
                        \/ /\ uiHandler /\ queue'[k].type = "notify" /\ queue'[k].name = n
                           /\ queue'[k].value = val[n]
                        \/ /\ n \in InternalNames /\ queue'[k].type = "lua"
                           /\ queue'[k].of = sc /\ queue'[k].name = n
                           /\ queue'[k].word = Word(val[n])
    OBVIOUS
  <2> DEFINE x == queue'[k]
  <2>1. PICK n \in list : \/ (uiHandler /\ x = Notification(n, val))
                         \/ (n \in InternalNames /\ x = Call(sc, n, val))
    BY <1>4
  <2> HIDE DEF x
  <2>2. \/ /\ uiHandler /\ x.type = "notify" /\ x.name = n /\ x.value = val[n]
        \/ /\ n \in InternalNames /\ x.type = "lua" /\ x.of = sc /\ x.name = n
           /\ x.word = Word(val[n])
    BY <1>6, <2>1
  <2> QED
    BY <2>2 DEF x
<1>8. \A k \in Len(queue)..Len(queue') :
        queue'[k].type \in {"notify", "lua"} /\ (queue'[k].type = "lua" => queue'[k].word # "require")
  BY <1>6, <1>7
<1>9. HoldersInv'
  <2>1. /\ ServiceInv /\ ScreenInv /\ UNCHANGED <<sc, running, screen, scheduled, finishing>>
    BY DEF screenVars, systemVars, IInv, HoldersInv
  <2>2. \A k \in Len(queue)..Len(queue') : queue'[k].type \notin Commands
    BY <1>8 DEF Commands
  <2> QED
    BY <1>4, <1>5, <2>1, <2>2, ScreensUntouched, ServiceUntouched DEF HoldersInv
<1>10. LuaInv' /\ LuaFollows'
  <2>1. loaded' <=> loaded \/ (1 = 1 /\ Requires(1))
    BY <1>5 DEF Requires
  <2>2. ASSUME ~loaded' PROVE \E k \in DOMAIN queue' : Requires(k)'
    BY <1>1, <1>4, <2>1, <2>2, RequireKept DEF IInv
  <2>3. LuaInv'
    <3>1. LuaInv
      BY DEF IInv
    <3>2. sc' # NoInstance /\ ~loaded' =>
            \E k \in DOMAIN queue' :
              queue'[k].type = "lua" /\ queue'[k].of = sc' /\ queue'[k].word = "require"
      BY <2>2 DEF Requires
    <3> QED
      BY <3>1, <3>2 DEF LuaInv
  <2>4. ASSUME NEW s \in InternalNames PROVE Follows(s)'
    <3>1. Follows(s)
      BY DEF IInv, LuaFollows, Follows
    <3>2. CASE s \notin list
      <4>1. symbols'[sc][s] = symbols[sc][s]
        BY <1>1, <1>3, <3>2 DEF old, Names
      <4>2. \A k \in (Len(queue) - 1 + 1)..Len(queue') :
              queue'[k].type # "lua" \/ queue'[k].name # s \/ queue'[k].word = "require"
        BY <1>5, <1>7, <3>2
      <4>3. IF 1 = 1 /\ 1 \in Coming(s) THEN told'[s] = queue[1].word ELSE told'[s] = told[s]
        BY <1>5 DEF Coming
      <4>4. 1 \in {0, 1}
        OBVIOUS
      <4> QED
        BY <1>1, <1>4, <2>1, <3>1, <4>1, <4>2, <4>3, <4>4, FollowsKept
    <3>3. CASE s \in list
      <4>1. PICK j \in Len(queue)..Len(queue') : queue'[j] = Call(sc, s, val)
        BY <1>4, <3>3
      <4>2. j \in Coming(s)'
        <5>1. j \in DOMAIN queue'
          BY <1>4, <1>5
        <5>2. CASE loaded'
          BY <1>1, <1>6, <4>1, <5>1, <5>2 DEF Coming
        <5>3. CASE ~loaded'
          <6>1. PICK k \in DOMAIN queue' : Requires(k)'
            BY <2>2, <5>3
          <6>2. k < Len(queue)
            <7>1. queue'[k].type = "lua" /\ queue'[k].word = "require" /\ k \in 1..Len(queue')
              BY <1>5, <6>1 DEF Requires
            <7> QED
              BY <1>5, <1>8, <7>1
          <6>3. k \in 1..(j - 1)
            BY <1>5, <6>2
          <6> QED
            BY <1>1, <1>6, <4>1, <5>1, <6>1, <6>3 DEF Coming, Requires
        <5> QED
          BY <5>2, <5>3
      <4>3. ASSUME NEW k \in Coming(s)', \A l \in Coming(s)' : l <= k
            PROVE  queue'[k].word = Word(val[s])
        <5>1. j <= k
          BY <4>2, <4>3
        <5>2. k \in 1..Len(queue') /\ queue'[k].type = "lua" /\ queue'[k].name = s
          BY <1>5 DEF Coming
        <5>3. k \in Len(queue)..Len(queue')
          BY <1>5, <5>1, <5>2
        <5> QED
          BY <1>7, <5>2, <5>3
      <4>4. symbols'[sc'][s] = val[s]
        BY <1>1
      <4> QED
        BY <4>2, <4>3, <4>4 DEF Follows
    <3> QED
      BY <3>2, <3>3
  <2> QED
    BY <2>3, <2>4 DEF LuaFollows, Follows
<1>11. ViewsInv'
  <2>1. UNCHANGED <<sc, outdated, uiHandler, screen, views, strays, fresh>>
    BY DEF screenVars
  <2>2. \A k \in DOMAIN queue' :
          queue'[k].type = "resetUI" =>
            k \in 1..(Len(queue) - 1) /\ queue'[k] = queue[k + 1] /\ k + 1 \in DOMAIN queue
    BY <1>5, <1>8
  <2>3. /\ fresh' => uiHandler' /\ screen'["ea"] # "none"
        /\ (\E k \in DOMAIN queue' : queue'[k].type = "resetUI") => uiHandler'
    BY <2>1, <2>2 DEF IInv, ViewsInv
  <2>4. ASSUME ~outdated', NEW k \in DOMAIN queue',
               queue'[k].type = "resetUI", queue'[k].of # sc
        PROVE  ~fresh' /\ \A j \in 1..k : ~ResetOf(queue', j, sc)
    <3>1. /\ k \in 1..(Len(queue) - 1) /\ k + 1 \in DOMAIN queue
          /\ queue[k + 1].type = "resetUI" /\ queue[k + 1].of # sc
      BY <2>2, <2>4
    <3>2. ~fresh /\ \A j \in 1..(k + 1) : ~ResetOf(queue, j, sc)
      BY <2>1, <2>4, <3>1 DEF IInv, ViewsInv
    <3>3. ASSUME NEW j \in 1..k PROVE ~ResetOf(queue', j, sc)
      <4>1. j + 1 \in 1..(k + 1) /\ queue'[j] = queue[j + 1]
        BY <1>5, <3>1
      <4> QED
        BY <3>2, <4>1 DEF ResetOf
    <3> QED
      BY <2>1, <3>2, <3>3
  <2>5. ASSUME uiHandler, NEW A, NEW f \in 0..(Len(queue) - 1), Converges(queue, A, f + 1, old)
        PROVE  /\ Converges(queue', A, f, val)
               /\ Alternates(queue, A, f + 1) /\ ~repeated' => Alternates(queue', A, f)
    <3>1. \A k \in Len(queue)..Len(queue') :
            queue'[k].type = "notify" =>
              queue'[k].name \in list /\ (queue'[k].value <=> val[queue'[k].name])
      BY <1>7
    <3>2. \A n \in list : \E k \in Len(queue)..Len(queue') : Note(queue', k, n)
      BY <1>4, <1>6, <2>5 DEF Note
    <3>3. \A n \in Names \ list : val[n] <=> old[n]
      BY <1>3
    <3>4. /\ Converges(queue', A, f, val)
          /\ Alternates(queue, A, f + 1) /\ (\A n \in list : val[n] <=> ~old[n])
               => Alternates(queue', A, f)
      <4> DEFINE q == queue
                 r == queue'
      <4>1. ToldBehind(q, r, list, old, val) /\ Shift(q, r, 1) /\ f \in 0..(Len(q) - 1)
        BY <1>4, <3>1, <3>2, <3>3 DEF ToldBehind
      <4> DEFINE g == f + 1
      <4>2. Converges(q, A, g, old) /\ g - f = 1 /\ g \in Nat
        BY <2>5
      <4> HIDE DEF q, r, g
      <4>3. /\ Converges(r, A, f, val)
            /\ Alternates(q, A, g) /\ (\A n \in list : val[n] <=> ~old[n])
                 => Alternates(r, A, f)
        BY ONLY <4>1, <4>2, ChangedViews
      <4> QED
        BY <4>3 DEF q, r, g
    <3>5. ~repeated' => \A n \in list : val[n] <=> ~old[n]
      BY <1>1, <1>3
    <3> QED
      BY <3>4, <3>5
  <2>6. ASSUME ~outdated', fresh'
        PROVE  /\ Converges(queue', views', 0, val)
               /\ ~repeated' => strays' = {} /\ Alternates(queue', views', 0)
    <3>1. /\ uiHandler /\ Converges(queue, views, 0, old)
          /\ ~repeated => strays = {} /\ Alternates(queue, views, 0)
      BY <2>1, <2>6 DEF IInv, ViewsInv, old
    <3>2. \A n \in Names : n \in views <=> IF Note(queue, 1, n) THEN queue[1].value ELSE n \in views
      BY <1>5 DEF Note
    <3>3. \A k \in 1..Len(queue) : queue[k].type = "notify" => queue[k].name \in Names
      BY <1>1, <1>5, MessageFacts DEF TypeOK
    <3>4. /\ \A v : Converges(queue, views, 0, v) => Converges(queue, views, 1, v)
          /\ Alternates(queue, views, 0) => Alternates(queue, views, 1)
      BY <1>4, <1>5, <3>2, <3>3, ViewsApplied
    <3>5. 0 \in 0..(Len(queue) - 1) /\ 0 + 1 = 1
      BY <1>4, <1>5
    <3>6. Converges(queue, views, 0 + 1, old)
      BY <3>1, <3>4, <3>5
    <3>7. /\ Converges(queue', views, 0, val)
          /\ Alternates(queue, views, 0 + 1) /\ ~repeated' => Alternates(queue', views, 0)
      BY <2>5, <3>1, <3>5, <3>6
    <3> QED
      BY <1>3, <2>1, <3>1, <3>4, <3>5, <3>7
  <2>7. ASSUME ~outdated', NEW k \in DOMAIN queue', ResetOf(queue', k, sc)
        PROVE  /\ Converges(queue', queue'[k].shows, k, val)
               /\ ~repeated' => Alternates(queue', queue'[k].shows, k)
    <3>1. k \in 1..(Len(queue) - 1) /\ queue'[k] = queue[k + 1] /\ k + 1 \in DOMAIN queue
      BY <2>2, <2>7 DEF ResetOf
    <3>2. ResetOf(queue, k + 1, sc)
      BY <2>7, <3>1 DEF ResetOf
    <3>3. /\ uiHandler /\ Converges(queue, queue[k + 1].shows, k + 1, old)
          /\ ~repeated => Alternates(queue, queue[k + 1].shows, k + 1)
      BY <2>1, <2>7, <3>1, <3>2 DEF IInv, ViewsInv, old, ResetOf
    <3>4. k \in 0..(Len(queue) - 1)
      BY <3>1
    <3>5. /\ Converges(queue', queue[k + 1].shows, k, val)
          /\ Alternates(queue, queue[k + 1].shows, k + 1) /\ ~repeated'
               => Alternates(queue', queue[k + 1].shows, k)
      BY <2>5, <3>3, <3>4
    <3> QED
      BY <1>3, <3>1, <3>3, <3>5
  <2> QED
    BY <1>1, <2>1, <2>3, <2>4, <2>6, <2>7 DEF ViewsInv
<1>12. TypeOK'
  BY <1>1, <1>4 DEF TypeOK, screenVars, systemVars
<1>13. ServiceHolders'
  BY DEF IInv, ServiceHolders
<1> QED
  BY <1>9, <1>10, <1>11, <1>12, <1>13 DEF IInv

LEMMA ChangeContextKeeps ==
  ASSUME IInv, ChangeContext
  PROVE  IInv'
<1>1. queue # <<>> /\ Head(queue).type = "change" /\ UNCHANGED <<screenVars, systemVars, failure>>
  BY DEF ChangeContext, Arrives
<1>2. CASE sc = NoInstance
  <2>1. Post(<<>>) /\ UNCHANGED <<serviceVars, historyVars>>
    BY <1>2 DEF ChangeContext
  <2>2. TypeOK
    BY DEF IInv
  <2>3. /\ queue' \in Seq(Message) /\ Shift(queue, queue', 1)
        /\ Len(queue) >= 1 /\ queue[1] \in Message /\ Msg = queue[1]
        /\ \A k \in Len(queue)..Len(queue') : FALSE
    BY <1>1, <2>1, <2>2, HandledNone
  <2>4. queue[1].type = "change"
    BY <1>1, <2>3 DEF Msg
  <2>5. HoldersInv' /\ LuaInv' /\ LuaFollows'
    BY <1>1, <2>1, <2>3, <2>4, OthersKept DEF Commands, screenVars
  <2>6. ViewsInv'
    <3>1. /\ sc' = sc /\ symbols' = symbols /\ repeated' = repeated /\ outdated' = outdated
          /\ UNCHANGED <<uiHandler, views, strays, fresh, screen>>
      BY <1>1, <2>1 DEF serviceVars, screenVars, historyVars
    <3>2. fresh' => fresh /\ screen'["ea"] # "none" /\ views' = views /\ strays' = strays
      BY <3>1 DEF IInv, ViewsInv
    <3> QED
      BY <2>3, <2>4, <3>1, <3>2, ViewsStay
  <2>7. TypeOK'
    BY <1>1, <2>1, <2>2, <2>3 DEF TypeOK, serviceVars, screenVars, systemVars, historyVars
  <2>8. ServiceHolders'
    BY <1>1 DEF IInv, ServiceHolders
  <2> QED
    BY <2>5, <2>6, <2>7, <2>8 DEF IInv
<1>3. CASE sc # NoInstance
  <2>1. PICK n \in NativeNames, val \in [Names -> BOOLEAN], list \in SUBSET Names :
          /\ {x \in Names : val[x] # symbols[sc][x]} \subseteq list
          /\ symbols' = [symbols EXCEPT ![sc] = val]
          /\ repeated' = (repeated \/ list # {x \in Names : val[x] # symbols[sc][x]})
          /\ Post(NotifyAll(sc, list, val))
          /\ UNCHANGED <<sc, loaded, told, outdated>>
    BY <1>3 DEF ChangeContext
  <2> QED
    BY <1>1, <1>3, <2>1, ContextChanges
<1> QED
  BY <1>2, <1>3

(* What onCreate posts: notifications and calls, then the loading of       *)
(* demo.lua, then the reset of a screen that listens.                      *)
Created(i, a) == a \o Code(i, "demo", "require") \o ResetUI(i, Loaded, NoActivity)

LEMMA CreatePosts ==
  ASSUME TypeOK, NEW i \in Instances, NEW D, NEW a, Tells(a, i, D, Loaded),
         NEW m, m = Created(i, a)
  PROVE  /\ m \in Seq(Message) /\ Len(m) \in Nat /\ Len(a) \in Nat /\ Len(a) + 1 <= Len(m)
         /\ \A k \in 1..Len(a) :
              /\ m[k].type \in {"notify", "lua"}
              /\ m[k].type = "lua" => m[k].word # "require"
         /\ LET call == m[Len(a) + 1]
            IN  call.type = "lua" /\ call.of = i /\ call.word = "require"
         /\ \A k \in (Len(a) + 2)..Len(m) :
              /\ k = Len(m) /\ uiHandler
              /\ m[k].type = "resetUI" /\ m[k].of = i /\ m[k].shows = TrueNames(Loaded)
<1> DEFINE c == [type |-> "lua", of |-> i, name |-> "demo", word |-> "require"]
           x == [type |-> "resetUI", of |-> i, shows |-> TrueNames(Loaded), for |-> NoActivity]
           r == IF uiHandler THEN <<x>> ELSE <<>>
           b == a \o <<c>>
<1>1. c \in Message /\ x \in Message
  <2>1. TrueNames(Loaded) \in SUBSET Names /\ NoActivity \in Askers
    BY DEF TrueNames, Askers
  <2> QED
    BY <2>1, MessageKinds
<1>2. /\ c.type = "lua" /\ c.of = i /\ c.word = "require"
      /\ x.type = "resetUI" /\ x.of = i /\ x.shows = TrueNames(Loaded)
  OBVIOUS
<1>3. m = b \o r
  BY DEF Created, Code, ResetUI, InUI
<1> HIDE DEF c, x
<1>4. /\ a \in Seq(Message) /\ Len(a) \in Nat
      /\ \A k \in 1..Len(a) :
           a[k].type \in {"notify", "lua"} /\ (a[k].type = "lua" => a[k].word # "require")
  <2>1. a \in Seq(Message) /\ Len(a) \in Nat
    BY LenProperties DEF Tells
  <2>2. ASSUME NEW k \in 1..Len(a)
        PROVE  a[k].type \in {"notify", "lua"} /\ (a[k].type = "lua" => a[k].word # "require")
    <3>1. PICK n \in D : a[k] = Notification(n, Loaded) \/ a[k] = Call(i, n, Loaded)
      BY <2>2 DEF Tells
    <3>2. /\ Notification(n, Loaded).type = "notify"
          /\ Call(i, n, Loaded).type = "lua" /\ Call(i, n, Loaded).word # "require"
      BY DEF Notification, Call, Word
    <3> DEFINE y == a[k]
    <3>3. y = Notification(n, Loaded) \/ y = Call(i, n, Loaded)
      BY <3>1
    <3> HIDE DEF y
    <3>4. y.type \in {"notify", "lua"} /\ (y.type = "lua" => y.word # "require")
      BY <3>2, <3>3
    <3> QED
      BY <3>4 DEF y
  <2> QED
    BY <2>1, <2>2
<1>5. /\ b \in Seq(Message) /\ Len(b) = Len(a) + 1
      /\ \A k \in 1..Len(a) : b[k] = a[k]
      /\ b[Len(a) + 1] = c
  <2>1. <<c>> \in Seq(Message) /\ Len(<<c>>) = 1 /\ <<c>>[1] = c
    BY <1>1
  <2> QED
    BY <1>4, <2>1
<1> HIDE DEF b
<1>6. r \in Seq(Message) /\ Len(r) \in Nat /\ \A k \in 1..Len(r) : k = Len(r) /\ uiHandler /\ r[k] = x
  <2>1. CASE uiHandler
    <3>1. <<x>> \in Seq(Message) /\ Len(<<x>>) = 1 /\ <<x>>[1] = x
      BY <1>1
    <3> QED
      BY <2>1, <3>1
  <2>2. CASE ~uiHandler
    <3>1. <<>> \in Seq(Message) /\ Len(<<>>) = 0
      OBVIOUS
    <3> QED
      BY <2>2, <3>1
  <2> QED
    BY <2>1, <2>2
<1> HIDE DEF r
<1>7. /\ m \in Seq(Message) /\ Len(m) = Len(b) + Len(r)
      /\ \A k \in 1..Len(b) : m[k] = b[k]
      /\ \A k \in (Len(b) + 1)..Len(m) : k - Len(b) \in 1..Len(r) /\ m[k] = r[k - Len(b)]
  <2>1. /\ b \o r \in Seq(Message) /\ Len(b \o r) = Len(b) + Len(r)
        /\ \A k \in 1..(Len(b) + Len(r)) :
             (b \o r)[k] = IF k <= Len(b) THEN b[k] ELSE r[k - Len(b)]
    BY <1>5, <1>6, ConcatProperties, LenProperties
  <2> DEFINE w == b \o r
  <2>2. m = w
    BY <1>3
  <2> HIDE DEF w
  <2>3. /\ m \in Seq(Message) /\ Len(m) = Len(b) + Len(r)
        /\ \A k \in 1..(Len(b) + Len(r)) : m[k] = IF k <= Len(b) THEN b[k] ELSE r[k - Len(b)]
    BY <2>1, <2>2 DEF w
  <2> QED
    BY ONLY <1>4, <1>5, <1>6, <2>3
<1>8. ASSUME NEW k \in 1..Len(a)
      PROVE  m[k].type \in {"notify", "lua"} /\ (m[k].type = "lua" => m[k].word # "require")
  <2>1. m[k] = a[k]
    BY <1>4, <1>5, <1>7
  <2> QED
    BY <1>4, <2>1
<1>9. m[Len(a) + 1] = c
  <2>1. Len(a) + 1 \in 1..Len(b)
    BY ONLY <1>4, <1>5
  <2>2. m[Len(a) + 1] = b[Len(a) + 1]
    BY ONLY <1>7, <2>1
  <2> QED
    BY ONLY <1>5, <2>2
<1>10. ASSUME NEW k \in (Len(a) + 2)..Len(m)
       PROVE  k = Len(m) /\ uiHandler /\ m[k] = x
  <2>1. k - Len(b) \in 1..Len(r) /\ m[k] = r[k - Len(b)]
    BY <1>4, <1>5, <1>6, <1>7
  <2>2. k - Len(b) = Len(r) /\ uiHandler /\ m[k] = x
    BY <1>6, <2>1
  <2> QED
    BY <1>4, <1>5, <1>6, <1>7, <2>2
<1> QED
  <2>1. /\ m \in Seq(Message) /\ Len(m) \in Nat /\ Len(a) \in Nat /\ Len(a) + 1 <= Len(m)
    BY ONLY <1>4, <1>5, <1>6, <1>7
  <2>2. /\ m[Len(a) + 1].type = "lua" /\ m[Len(a) + 1].of = i
        /\ m[Len(a) + 1].word = "require"
    BY ONLY <1>2, <1>9
  <2>3. \A k \in (Len(a) + 2)..Len(m) :
          /\ k = Len(m) /\ uiHandler
          /\ m[k].type = "resetUI" /\ m[k].of = i /\ m[k].shows = TrueNames(Loaded)
    BY ONLY <1>2, <1>10
  <2> QED
    BY ONLY <1>8, <2>1, <2>2, <2>3

(* The service is created: no message of an earlier one is taken for one   *)
(* of its own, as nothing refers to the new object.                        *)
LEMMA CreateServiceKeeps ==
  ASSUME IInv, CreateService
  PROVE  IInv'
<1>1. queue # <<>> /\ Head(queue).type = "create"
  BY DEF CreateService, Arrives
<1>2. TypeOK
  BY DEF IInv
<1>3. queue[1].type = "create" /\ queue[1] = [type |-> "create"]
  <2>1. Head(queue) = queue[1] /\ queue[1] \in Message
    BY <1>1, <1>2, HeadTailProperties, EmptySeq DEF TypeOK
  <2> QED
    BY <1>1, <2>1, MessageFacts
<1>4. sc = NoInstance
  BY <1>1, <1>2, <1>3, HoldersReady DEF IInv
<1> DEFINE i == CHOOSE i \in Instances : i \notin Referenced
           a == NotifyAll(i, TrueNames(Loaded), Loaded)
           m == Created(i, a)
<1>5. /\ SomeUnreferenced /\ sc' = i
      /\ symbols' = [j \in Instances |-> IF j \in Referenced THEN symbols[j] ELSE Loaded]
      /\ fresh' = FALSE /\ Post(m)
      /\ UNCHANGED <<loaded, told, uiHandler, screen, views, strays, rowsOf, wra,
                     systemVars, historyVars, failure>>
  BY <1>4 DEF CreateService, Created
<1>6. i \in Instances /\ i \notin Referenced /\ i # NoInstance
  <2>1. \E j \in Instances : j \notin Referenced
    BY <1>5 DEF SomeUnreferenced
  <2> QED
    BY <2>1, SmartContextAssumption
<1>7. Tells(a, i, TrueNames(Loaded), Loaded)
  <2>1. TrueNames(Loaded) \in SUBSET Names
    BY DEF TrueNames
  <2> HIDE DEF i
  <2> QED
    BY <1>2, <1>6, <2>1, LoadedTyped, NotifyAllTells
<1>8. symbols'[i] = Loaded
  BY <1>5, <1>6
<1> HIDE DEF i, a
<1>9. /\ m \in Seq(Message) /\ Len(m) \in Nat /\ Len(a) \in Nat /\ Len(a) + 1 <= Len(m)
      /\ \A k \in 1..Len(a) :
           m[k].type \in {"notify", "lua"} /\ (m[k].type = "lua" => m[k].word # "require")
      /\ m[Len(a) + 1].type = "lua" /\ m[Len(a) + 1].of = i /\ m[Len(a) + 1].word = "require"
      /\ \A k \in (Len(a) + 2)..Len(m) :
           /\ k = Len(m) /\ uiHandler
           /\ m[k].type = "resetUI" /\ m[k].of = i /\ m[k].shows = TrueNames(Loaded)
  BY ONLY <1>2, <1>6, <1>7, CreatePosts
<1> HIDE DEF m
<1>10. /\ queue' \in Seq(Message) /\ Shift(queue, queue', 1)
       /\ Len(queue) >= 1 /\ queue[1] \in Message
       /\ Len(queue') = Len(queue) - 1 + Len(m)
       /\ \A k \in Len(queue)..Len(queue') :
            k - Len(queue) + 1 \in 1..Len(m) /\ queue'[k] = m[k - Len(queue) + 1]
  BY <1>1, <1>2, <1>5, <1>9, HandledShifts
<1>11. /\ Len(queue) \in Nat /\ Len(queue') \in Nat /\ DOMAIN queue = 1..Len(queue)
       /\ DOMAIN queue' = 1..Len(queue')
       /\ \A k \in 1..(Len(queue) - 1) : queue'[k] = queue[k + 1]
  BY <1>10 DEF Shift
<1> DEFINE p == Len(queue) + Len(a)
<1>12. p \in 1..Len(queue') /\ Len(queue) <= p
  BY <1>9, <1>10, <1>11
<1>13. \A k \in Len(queue)..(p - 1) :
         queue'[k].type \in {"notify", "lua"} /\ (queue'[k].type = "lua" => queue'[k].word # "require")
  <2> SUFFICES ASSUME NEW k \in Len(queue)..(p - 1)
               PROVE  queue'[k].type \in {"notify", "lua"}
                      /\ (queue'[k].type = "lua" => queue'[k].word # "require")
    OBVIOUS
  <2>1. k \in Len(queue)..Len(queue') /\ k - Len(queue) + 1 \in 1..Len(a)
    BY <1>9, <1>11, <1>12
  <2>2. queue'[k] = m[k - Len(queue) + 1]
    BY <1>10, <2>1
  <2> QED
    BY <1>9, <2>1, <2>2
<1>14. queue'[p].type = "lua" /\ queue'[p].of = i /\ queue'[p].word = "require"
  <2>1. p \in Len(queue)..Len(queue') /\ p - Len(queue) + 1 = Len(a) + 1
    BY <1>9, <1>11, <1>12
  <2>2. queue'[p] = m[Len(a) + 1]
    BY <1>10, <2>1
  <2> QED
    BY <1>9, <2>2
<1>15. \A k \in (p + 1)..Len(queue') :
         /\ k = Len(queue') /\ uiHandler
         /\ queue'[k].type = "resetUI" /\ queue'[k].of = i /\ queue'[k].shows = TrueNames(Loaded)
  <2> SUFFICES ASSUME NEW k \in (p + 1)..Len(queue')
               PROVE  /\ k = Len(queue') /\ uiHandler
                      /\ queue'[k].type = "resetUI" /\ queue'[k].of = i
                      /\ queue'[k].shows = TrueNames(Loaded)
    OBVIOUS
  <2> DEFINE j == k - Len(queue) + 1
  <2>1. k \in Len(queue)..Len(queue') /\ j \in (Len(a) + 2)..Len(m)
        /\ (j = Len(m) => k = Len(queue'))
    BY <1>9, <1>10, <1>11, <1>12
  <2>2. queue'[k] = m[j]
    BY <1>10, <2>1
  <2> HIDE DEF j
  <2> QED
    BY <1>9, <2>1, <2>2
<1> HIDE DEF p
<1>16. ASSUME NEW k \in 1..(Len(queue) - 1)
       PROVE  /\ ~ResetOf(queue', k, i)
              /\ queue'[k].type = "lua" => queue'[k].of # i
  <2>1. queue'[k] = queue[k + 1] /\ k + 1 \in DOMAIN queue /\ queue[k + 1] \in Message
    BY <1>2, <1>11 DEF TypeOK
  <2>2. "of" \in DOMAIN queue[k + 1] => queue[k + 1].of # i
    BY <1>6, <2>1 DEF Referenced
  <2>3. queue[k + 1].type \in {"resetUI", "lua"} => "of" \in DOMAIN queue[k + 1]
    BY <2>1, MessageFacts
  <2> QED
    BY <2>1, <2>2, <2>3 DEF ResetOf
<1>17. \A k \in Len(queue)..Len(queue') : queue'[k].type \in {"notify", "lua", "resetUI"}
  <2> SUFFICES ASSUME NEW k \in Len(queue)..Len(queue')
               PROVE  queue'[k].type \in {"notify", "lua", "resetUI"}
    OBVIOUS
  <2>1. k \in Len(queue)..(p - 1) \/ k = p \/ k \in (p + 1)..Len(queue')
    BY <1>11, <1>12
  <2> QED
    BY <1>13, <1>14, <1>15, <2>1
<1>18. HoldersInv'
  <2>1. \A k \in Len(queue)..Len(queue') : queue'[k].type \notin Commands
    BY <1>17 DEF Commands
  <2>2. /\ ServiceInv /\ ScreenInv /\ UNCHANGED <<running, screen, scheduled, finishing>>
    BY <1>5 DEF systemVars, IInv, HoldersInv
  <2>3. ServiceInv'
    <3>1. queue[1] # [type |-> "destroy"]
      BY <1>3
    <3>2. Held = 0 /\ Held' = 1
      BY <1>4, <1>5, <1>6 DEF Held
    <3>3. Held' = Held + (IF queue[1] = [type |-> "create"] THEN 1 ELSE 0)
                       - (IF queue[1] = [type |-> "destroy"] THEN 1 ELSE 0)
      BY <1>3, <3>1, <3>2
    <3> QED
      BY <1>10, <2>1, <2>2, <3>3, ServiceHandled
  <2>4. ScreenInv'
    BY <1>3, <1>10, <2>1, <2>2, ScreensUntouched
  <2> QED
    BY <2>3, <2>4 DEF HoldersInv
<1>19. ~loaded' /\ \A s \in InternalNames : told'[s] = "none"
  BY <1>4, <1>5 DEF IInv, LuaInv
<1>20. LuaInv'
  <2>1. p \in DOMAIN queue'
    BY <1>11, <1>12
  <2> QED
    BY <1>5, <1>6, <1>14, <1>19, <2>1 DEF LuaInv
<1>21. LuaFollows'
  <2>1. ASSUME NEW s \in InternalNames PROVE Coming(s)' = {}
    <3> SUFFICES ASSUME NEW k \in Coming(s)' PROVE FALSE
      OBVIOUS
    <3>1. /\ k \in 1..Len(queue') /\ queue'[k].type = "lua" /\ queue'[k].of = i
          /\ queue'[k].word # "require"
      BY <1>5, <1>11 DEF Coming
    <3>2. PICK j \in 1..(k - 1) : /\ queue'[j].type = "lua" /\ queue'[j].word = "require"
                                  /\ queue'[j].of = i
      BY <1>5, <1>19 DEF Coming
    <3>3. k < p
      <4>1. k < p \/ k = p \/ k \in (p + 1)..Len(queue')
        BY <1>11, <1>12, <3>1
      <4>2. k # p
        BY <1>14, <3>1
      <4>3. k \notin (p + 1)..Len(queue')
        BY <1>15, <3>1
      <4> QED
        BY <4>1, <4>2, <4>3
    <3>4. j \in 1..(Len(queue) - 1) \/ j \in Len(queue)..(p - 1)
      BY <1>11, <1>12, <3>1, <3>3
    <3> QED
      BY <1>13, <1>16, <3>2, <3>4
  <2>2. \A s \in InternalNames : symbols'[sc'][s] = Loaded[s]
    BY <1>5, <1>8
  <2> QED
    BY <1>19, <2>1, <2>2 DEF LuaFollows
<1>22. ViewsInv'
  <2>1. ASSUME NEW k \in DOMAIN queue', queue'[k].type = "resetUI"
        PROVE  \/ k \in 1..(Len(queue) - 1) /\ k + 1 \in DOMAIN queue /\ queue'[k] = queue[k + 1]
               \/ k \in (p + 1)..Len(queue')
    <3>1. \/ k \in 1..(Len(queue) - 1) \/ k \in Len(queue)..(p - 1)
          \/ k = p \/ k \in (p + 1)..Len(queue')
      BY <1>11, <1>12
    <3> QED
      BY <1>11, <1>13, <1>14, <2>1, <3>1
  <2>2. (\E k \in DOMAIN queue' : queue'[k].type = "resetUI") => uiHandler'
    BY <1>5, <1>15, <2>1 DEF IInv, ViewsInv
  <2>3. ASSUME NEW k \in DOMAIN queue', queue'[k].type = "resetUI", queue'[k].of # i
        PROVE  \A j \in 1..k : ~ResetOf(queue', j, i)
    <3>1. k \in 1..(Len(queue) - 1)
      BY <1>15, <2>1, <2>3
    <3> QED
      BY <1>11, <1>16, <3>1
  <2>4. ASSUME NEW k \in DOMAIN queue', ResetOf(queue', k, i)
        PROVE  /\ Converges(queue', queue'[k].shows, k, Loaded)
               /\ Alternates(queue', queue'[k].shows, k)
    <3>1. k \in (p + 1)..Len(queue')
      BY <1>16, <2>1, <2>4 DEF ResetOf
    <3>2. k = Len(queue') /\ queue'[k].shows = TrueNames(Loaded)
      BY <1>15, <3>1
    <3>3. (k + 1)..k = {}
      BY <3>1, <1>11, <1>12
    <3>4. \A n \in Names : Shown(queue', TrueNames(Loaded), k, k, n) <=> n \in TrueNames(Loaded)
      BY <3>3 DEF Shown
    <3>5. \A n \in Names : n \in TrueNames(Loaded) <=> Loaded[n]
      BY DEF TrueNames
    <3> QED
      BY <3>2, <3>3, <3>4, <3>5 DEF Converges, Alternates
  <2> QED
    BY <1>5, <1>8, <2>2, <2>3, <2>4 DEF ViewsInv
<1>23. TypeOK'
  <2>1. symbols' \in [Instances -> [Names -> BOOLEAN]]
    BY <1>2, <1>5, LoadedTyped DEF TypeOK
  <2> QED
    BY <1>2, <1>5, <1>6, <1>10, <2>1 DEF TypeOK, systemVars, historyVars
<1>24. ServiceHolders'
  BY <1>5 DEF IInv, ServiceHolders
<1> QED
  BY <1>18, <1>20, <1>21, <1>22, <1>23, <1>24 DEF IInv

(* Messages of the system change neither what Lua will hear nor what will  *)
(* be shown.                                                               *)
LEMMA SystemPostsKeep ==
  ASSUME IInv, NEW m \in Message, SystemPosts(m), m.type \notin {"lua", "notify", "resetUI"},
         UNCHANGED <<serviceVars, screenVars, historyVars, failure>>,
         running' \in BOOLEAN, scheduled' \in [Screens -> {"none", "paused", "resumed"}],
         finishing' \in [Screens -> BOOLEAN]
  PROVE  /\ TypeOK' /\ ServiceHolders' /\ LuaInv' /\ LuaFollows' /\ ViewsInv'
         /\ Shift(queue, queue', 0) /\ Len(queue') = Len(queue) + 1
         /\ queue'[Len(queue')] = m
<1>1. TypeOK
  BY DEF IInv
<1>2. /\ queue' \in Seq(Message) /\ Shift(queue, queue', 0)
      /\ Len(queue') = Len(queue) + 1 /\ queue'[Len(queue) + 1] = m
  BY <1>1, AppendedShifts
<1>3. Len(queue) \in Nat
  BY <1>2 DEF Shift
<1>4. \A k \in (Len(queue) - 0 + 1)..Len(queue') : queue'[k] = m
  <2> SUFFICES ASSUME NEW k \in (Len(queue) - 0 + 1)..Len(queue') PROVE queue'[k] = m
    OBVIOUS
  <2>1. k = Len(queue) + 1
    BY <1>2, <1>3
  <2> QED
    BY <1>2, <2>1
<1>5. LuaInv' /\ LuaFollows'
  <2>1. 0 \in {0, 1} /\ LuaInv /\ LuaFollows
    BY DEF IInv
  <2>2. \A k \in (Len(queue) - 0 + 1)..Len(queue') : queue'[k].type # "lua"
    BY <1>4
  <2> QED
    BY <1>2, <2>1, <2>2, LuaQuiet
<1>6. ViewsInv'
  <2>1. /\ sc' = sc /\ symbols' = symbols /\ repeated' = repeated /\ outdated' = outdated
        /\ UNCHANGED <<uiHandler, views, strays, fresh, screen>>
    BY DEF serviceVars, screenVars, historyVars
  <2>2. ViewsInv /\ 0 \in {0, 1}
    BY DEF IInv
  <2>3. fresh' => uiHandler' /\ screen'["ea"] # "none"
    BY <2>1, <2>2 DEF ViewsInv
  <2>4. \A k \in (Len(queue) - 0 + 1)..Len(queue') :
          /\ queue'[k].type # "notify"
          /\ queue'[k].type = "resetUI" =>
               /\ uiHandler'
               /\ sc' # NoInstance /\ ~outdated' =>
                    queue'[k].of = sc /\ queue'[k].shows = TrueNames(symbols[sc])
    BY <1>4
  <2>5. fresh' /\ sc' # NoInstance /\ ~outdated' =>
          /\ fresh \/ (0 = 1 /\ ResetOf(queue, 1, sc))
          /\ Converges(queue, views', 0, symbols[sc])
          /\ ~repeated => strays' = {} /\ Alternates(queue, views', 0)
    BY <2>1, <2>2 DEF ViewsInv
  <2>6. /\ sc' = NoInstance \/ (sc' = sc /\ symbols'[sc] = symbols[sc])
        /\ uiHandler => uiHandler'
    BY <2>1
  <2> QED
    BY <1>2, <2>1, <2>2, <2>3, <2>4, <2>5, <2>6, ViewsKept
<1>7. TypeOK'
  BY <1>1, <1>2 DEF TypeOK, serviceVars, screenVars, historyVars
<1>8. ServiceHolders'
  BY DEF IInv, ServiceHolders
<1> QED
  BY <1>2, <1>5, <1>6, <1>7, <1>8

(* How many activities of a class the system counts on.                    *)
Wanted(s) == (IF scheduled[s] = "none" THEN 0 ELSE 1) + (IF finishing[s] THEN 1 ELSE 0)

LEMMA ScreenAheadInt ==
  ASSUME NEW s, Len(queue) \in Nat
  PROVE  ScreenAhead(s, Len(queue)) \in Int
<1> DEFINE c == Count({[type |-> "onCreate", screen |-> s]}, queue, Len(queue))
           d == Count({[type |-> "onDestroy", screen |-> s]}, queue, Len(queue))
<1>1. c \in Nat /\ d \in Nat
  BY CountFinite
<1>2. ScreenAhead(s, Len(queue)) = (IF screen[s] = "none" THEN 0 ELSE 1) + c - d
  BY DEF ScreenAhead
<1> HIDE DEF c, d
<1> QED
  BY <1>1, <1>2

(* A message that is for no screen.                                        *)
LEMMA ScreensUnaware ==
  ASSUME ScreenInv, Shift(queue, queue', 0), Len(queue') = Len(queue) + 1, screen' = screen,
         UNCHANGED <<scheduled, finishing>>,
         NEW m, queue'[Len(queue')] = m, m.type \in {"create", "destroy", "change", "click"}
  PROVE  ScreenInv'
<1>1. ASSUME NEW s \in Screens
      PROVE  /\ m \notin [type : {"onResume", "onPause", "onDestroy"}, screen : {s}]
             /\ m # [type |-> "onCreate", screen |-> s] /\ m # [type |-> "onDestroy", screen |-> s]
  OBVIOUS
<1>2. ASSUME NEW s \in Screens
      PROVE  (IF scheduled'[s] = "none" THEN 0 ELSE 1) + (IF finishing'[s] THEN 1 ELSE 0)
                <= ScreenAhead(s, Len(queue))
                     + (IF m = [type |-> "onCreate", screen |-> s] THEN 1 ELSE 0)
                     - (IF m = [type |-> "onDestroy", screen |-> s] THEN 1 ELSE 0)
  <2>1. (IF scheduled[s] = "none" THEN 0 ELSE 1) + (IF finishing[s] THEN 1 ELSE 0)
          <= ScreenAhead(s, Len(queue))
    BY DEF ScreenInv
  <2>2. ScreenAhead(s, Len(queue)) \in Int
    BY ScreenAheadInt DEF Shift
  <2> DEFINE A == ScreenAhead(s, Len(queue))
  <2> HIDE DEF A
  <2>3. A + 0 - 0 = A
    BY <2>2 DEF A
  <2> QED
    BY <1>1, <2>1, <2>3 DEF A
<1> QED
  BY <1>1, <1>2, ScreensAppended

(* A message for the screen s, which an activity is there to get if it is  *)
(* not the one that creates it.                                            *)
LEMMA ScreensAware ==
  ASSUME ScreenInv, Shift(queue, queue', 0), Len(queue') = Len(queue) + 1, screen' = screen,
         NEW s \in Screens, NEW t \in {"onCreate", "onResume", "onPause", "onDestroy"},
         queue'[Len(queue')] = [type |-> t, screen |-> s],
         \A x \in Screens \ {s} : scheduled'[x] = scheduled[x] /\ finishing'[x] = finishing[x],
         t # "onCreate" => Wanted(s) >= 1,
         Wanted(s)' <= Wanted(s) + (IF t = "onCreate" THEN 1 ELSE 0)
                                 - (IF t = "onDestroy" THEN 1 ELSE 0)
  PROVE  ScreenInv'
<1> DEFINE m == [type |-> t, screen |-> s]
<1>1. /\ queue'[Len(queue')] = m /\ m.type = t /\ m.screen = s
      /\ m = [type |-> "onCreate", screen |-> s] <=> t = "onCreate"
      /\ m = [type |-> "onDestroy", screen |-> s] <=> t = "onDestroy"
  OBVIOUS
<1> HIDE DEF m
<1>2. ASSUME NEW x \in Screens
      PROVE  /\ Wanted(x) <= ScreenAhead(x, Len(queue))
             /\ ScreenAhead(x, Len(queue)) \in Int /\ Wanted(x) \in Int
  <2>1. Wanted(x) <= ScreenAhead(x, Len(queue))
    BY DEF ScreenInv, Wanted
  <2>2. ScreenAhead(x, Len(queue)) \in Int
    BY ScreenAheadInt DEF Shift
  <2> QED
    BY <2>1, <2>2 DEF Wanted
<1>3. ASSUME NEW x \in Screens
      PROVE  /\ m \in [type : {"onResume", "onPause", "onDestroy"}, screen : {x}]
                  => ScreenAhead(x, Len(queue)) >= 1
             /\ Wanted(x)' <= ScreenAhead(x, Len(queue))
                  + (IF m = [type |-> "onCreate", screen |-> x] THEN 1 ELSE 0)
                  - (IF m = [type |-> "onDestroy", screen |-> x] THEN 1 ELSE 0)
  <2> DEFINE A == ScreenAhead(x, Len(queue))
             W == Wanted(x)
             V == Wanted(x)'
  <2>0. W <= A /\ A \in Int /\ W \in Int
    BY <1>2
  <2>1. CASE x = s
    <3>1. (t # "onCreate" => W >= 1)
          /\ V <= W + (IF t = "onCreate" THEN 1 ELSE 0) - (IF t = "onDestroy" THEN 1 ELSE 0)
      BY <2>1
    <3>2. V \in Int
      BY DEF Wanted
    <3>3. m \in [type : {"onResume", "onPause", "onDestroy"}, screen : {x}] => t # "onCreate"
      BY <1>1
    <3>4. /\ m = [type |-> "onCreate", screen |-> x] <=> t = "onCreate"
          /\ m = [type |-> "onDestroy", screen |-> x] <=> t = "onDestroy"
      BY <1>1, <2>1
    <3> HIDE DEF A, W, V
    <3>5. m \in [type : {"onResume", "onPause", "onDestroy"}, screen : {x}] => A >= 1
      BY <2>0, <3>1, <3>3
    <3>6. V <= A + (IF t = "onCreate" THEN 1 ELSE 0) - (IF t = "onDestroy" THEN 1 ELSE 0)
      BY ONLY <2>0, <3>1, <3>2
    <3> QED
      BY <3>4, <3>5, <3>6 DEF A, V
  <2>2. CASE x # s
    <3>1. V = W
      BY <2>2 DEF Wanted
    <3>2. /\ m \notin [type : {"onResume", "onPause", "onDestroy"}, screen : {x}]
          /\ m # [type |-> "onCreate", screen |-> x] /\ m # [type |-> "onDestroy", screen |-> x]
      BY <1>1, <2>2
    <3> HIDE DEF A, W, V
    <3>3. V <= A + 0 - 0
      BY <2>0, <3>1
    <3> QED
      BY <3>2, <3>3 DEF A, V
  <2> QED
    BY <2>1, <2>2
<1>4. ASSUME NEW x \in Screens
      PROVE  Wanted(x)' =
               (IF scheduled'[x] = "none" THEN 0 ELSE 1) + (IF finishing'[x] THEN 1 ELSE 0)
  BY DEF Wanted
<1> QED
  BY <1>1, <1>3, <1>4, ScreensAppended

(* A message that is not for the service.                                  *)
LEMMA ServiceUnaware ==
  ASSUME ServiceInv, Shift(queue, queue', 0), Len(queue') = Len(queue) + 1,
         UNCHANGED <<sc, running>>,
         NEW m, queue'[Len(queue')] = m, m.type \notin {"create", "destroy"}
  PROVE  ServiceInv'
<1>1. m # [type |-> "create"] /\ m # [type |-> "destroy"]
  OBVIOUS
<1>2. (IF running' THEN 1 ELSE 0) =
        (IF running THEN 1 ELSE 0) + (IF m = [type |-> "create"] THEN 1 ELSE 0)
                                   - (IF m = [type |-> "destroy"] THEN 1 ELSE 0)
  BY <1>1
<1> QED
  BY <1>2, ServiceAppended

LEMMA StartServiceKeeps ==
  ASSUME IInv, StartService
  PROVE  IInv'
<1> DEFINE m == [type |-> "create"]
<1>1. /\ ~running /\ running' = TRUE /\ SystemPosts(m)
      /\ UNCHANGED <<serviceVars, screenVars, scheduled, finishing, historyVars, failure>>
  BY DEF StartService
<1>2. m \in Message /\ m.type = "create"
  BY MessageKinds
<1>3. /\ running' \in BOOLEAN /\ scheduled' \in [Screens -> {"none", "paused", "resumed"}]
      /\ finishing' \in [Screens -> BOOLEAN]
  BY <1>1 DEF IInv, TypeOK
<1>4. m # [type |-> "destroy"]
  BY <1>2
<1> HIDE DEF m
<1>5. /\ TypeOK' /\ ServiceHolders' /\ LuaInv' /\ LuaFollows' /\ ViewsInv'
      /\ Shift(queue, queue', 0) /\ Len(queue') = Len(queue) + 1 /\ queue'[Len(queue')] = m
  BY <1>1, <1>2, <1>3, SystemPostsKeep
<1>6. /\ ServiceInv /\ ScreenInv /\ sc' = sc /\ screen' = screen
      /\ UNCHANGED <<scheduled, finishing>>
  BY <1>1 DEF IInv, HoldersInv, serviceVars, screenVars
<1>7. ServiceInv'
  <2>1. (IF running' THEN 1 ELSE 0) =
          (IF running THEN 1 ELSE 0) + (IF m = [type |-> "create"] THEN 1 ELSE 0)
                                     - (IF m = [type |-> "destroy"] THEN 1 ELSE 0)
    BY <1>1, <1>4 DEF m
  <2> QED
    BY <1>5, <1>6, <2>1, ServiceAppended
<1>8. ScreenInv'
  BY <1>2, <1>5, <1>6, ScreensUnaware
<1> QED
  BY <1>5, <1>7, <1>8 DEF IInv, HoldersInv

LEMMA StopServiceKeeps ==
  ASSUME IInv, StopService
  PROVE  IInv'
<1> DEFINE m == [type |-> "destroy"]
<1>1. /\ running /\ running' = FALSE /\ SystemPosts(m)
      /\ UNCHANGED <<serviceVars, screenVars, scheduled, finishing, historyVars, failure>>
  BY DEF StopService
<1>2. m \in Message /\ m.type = "destroy"
  BY MessageKinds
<1>3. /\ running' \in BOOLEAN /\ scheduled' \in [Screens -> {"none", "paused", "resumed"}]
      /\ finishing' \in [Screens -> BOOLEAN]
  BY <1>1 DEF IInv, TypeOK
<1>4. m # [type |-> "create"]
  BY <1>2
<1> HIDE DEF m
<1>5. /\ TypeOK' /\ ServiceHolders' /\ LuaInv' /\ LuaFollows' /\ ViewsInv'
      /\ Shift(queue, queue', 0) /\ Len(queue') = Len(queue) + 1 /\ queue'[Len(queue')] = m
  BY <1>1, <1>2, <1>3, SystemPostsKeep
<1>6. /\ ServiceInv /\ ScreenInv /\ sc' = sc /\ screen' = screen
      /\ UNCHANGED <<scheduled, finishing>>
  BY <1>1 DEF IInv, HoldersInv, serviceVars, screenVars
<1>7. ServiceInv'
  <2>1. (IF running' THEN 1 ELSE 0) =
          (IF running THEN 1 ELSE 0) + (IF m = [type |-> "create"] THEN 1 ELSE 0)
                                     - (IF m = [type |-> "destroy"] THEN 1 ELSE 0)
    BY <1>1, <1>4 DEF m
  <2> QED
    BY <1>5, <1>6, <2>1, ServiceAppended
<1>8. ScreenInv'
  BY <1>2, <1>5, <1>6, ScreensUnaware
<1> QED
  BY <1>5, <1>7, <1>8 DEF IInv, HoldersInv

(* A broadcast and a click: messages for neither.                          *)
LEMMA OtherPostsKeep ==
  ASSUME IInv, NEW m \in Message, m.type \in {"change", "click"}, SystemPosts(m),
         UNCHANGED <<serviceVars, screenVars, systemVars, historyVars, failure>>
  PROVE  IInv'
<1>1. UNCHANGED <<running, scheduled, finishing, sc, screen>>
  BY DEF systemVars, serviceVars, screenVars
<1>2. /\ running' \in BOOLEAN /\ scheduled' \in [Screens -> {"none", "paused", "resumed"}]
      /\ finishing' \in [Screens -> BOOLEAN]
  BY <1>1 DEF IInv, TypeOK
<1>3. /\ TypeOK' /\ ServiceHolders' /\ LuaInv' /\ LuaFollows' /\ ViewsInv'
      /\ Shift(queue, queue', 0) /\ Len(queue') = Len(queue) + 1 /\ queue'[Len(queue')] = m
  BY <1>2, SystemPostsKeep
<1>4. ServiceInv /\ ScreenInv
  BY DEF IInv, HoldersInv
<1>5. ServiceInv'
  BY <1>1, <1>3, <1>4, ServiceUnaware
<1>6. ScreenInv'
  BY <1>1, <1>3, <1>4, ScreensUnaware
<1> QED
  BY <1>3, <1>5, <1>6 DEF IInv, HoldersInv

LEMMA BroadcastKeeps ==
  ASSUME IInv, Broadcast
  PROVE  IInv'
<1>1. [type |-> "change"] \in Message
  BY MessageKinds
<1> QED
  BY <1>1, OtherPostsKeep DEF Broadcast

LEMMA ClickKeeps ==
  ASSUME IInv, Click
  PROVE  IInv'
<1>1. rowsOf \in Instances
  BY DEF Click, IInv, TypeOK
<1>2. [type |-> "click", of |-> rowsOf] \in Message
  BY <1>1, MessageKinds
<1> QED
  BY <1>2, OtherPostsKeep DEF Click

(* A lifecycle call is for an activity the system knows of.                *)
LEMMA LifecyclePostsKeep ==
  ASSUME IInv, NEW s \in Screens, NEW t \in {"onCreate", "onResume", "onPause", "onDestroy"},
         SystemPosts([type |-> t, screen |-> s]),
         UNCHANGED <<serviceVars, screenVars, running, historyVars, failure>>,
         scheduled' \in [Screens -> {"none", "paused", "resumed"}],
         finishing' \in [Screens -> BOOLEAN],
         \A x \in Screens \ {s} : scheduled'[x] = scheduled[x] /\ finishing'[x] = finishing[x],
         t # "onCreate" => Wanted(s) >= 1,
         Wanted(s)' <= Wanted(s) + (IF t = "onCreate" THEN 1 ELSE 0)
                                 - (IF t = "onDestroy" THEN 1 ELSE 0)
  PROVE  IInv'
<1> DEFINE m == [type |-> t, screen |-> s]
<1>1. m \in Message /\ m.type = t /\ SystemPosts(m)
  BY MessageKinds
<1>2. m.type \notin {"lua", "notify", "resetUI"} /\ m.type \notin {"create", "destroy"}
  BY <1>1
<1>3. running' \in BOOLEAN
  BY DEF IInv, TypeOK
<1> HIDE DEF m
<1>4. /\ TypeOK' /\ ServiceHolders' /\ LuaInv' /\ LuaFollows' /\ ViewsInv'
      /\ Shift(queue, queue', 0) /\ Len(queue') = Len(queue) + 1 /\ queue'[Len(queue')] = m
  BY <1>1, <1>2, <1>3, SystemPostsKeep
<1>5. /\ ServiceInv /\ ScreenInv /\ UNCHANGED <<sc, running>> /\ screen' = screen
  BY DEF IInv, HoldersInv, serviceVars, screenVars
<1>6. ServiceInv'
  BY <1>2, <1>4, <1>5, ServiceUnaware
<1>7. ScreenInv'
  <2>1. queue'[Len(queue')] = [type |-> t, screen |-> s]
    BY <1>4 DEF m
  <2> QED
    BY <1>4, <1>5, <2>1, ScreensAware
<1> QED
  BY <1>4, <1>6, <1>7 DEF IInv, HoldersInv

LEMMA LifecycleKeeps ==
  ASSUME IInv, NEW s \in Screens, Lifecycle(s)
  PROVE  IInv'
<1>1. /\ scheduled \in [Screens -> {"none", "paused", "resumed"}]
      /\ finishing \in [Screens -> BOOLEAN]
  BY DEF IInv, TypeOK
<1>2. ASSUME NEW t \in {"onCreate", "onResume", "onPause"}, NEW from,
             NEW to \in {"paused", "resumed"},
             Schedule(s, t, from, to), UNCHANGED finishing,
             t # "onCreate" => scheduled[s] # "none"
      PROVE  IInv'
  <2>1. /\ scheduled' = [scheduled EXCEPT ![s] = to]
        /\ SystemPosts([type |-> t, screen |-> s])
        /\ UNCHANGED <<serviceVars, screenVars, running, historyVars, failure>>
    BY <1>2 DEF Schedule
  <2>2. /\ scheduled' \in [Screens -> {"none", "paused", "resumed"}]
        /\ finishing' \in [Screens -> BOOLEAN] /\ scheduled'[s] = to
        /\ \A x \in Screens \ {s} : scheduled'[x] = scheduled[x] /\ finishing'[x] = finishing[x]
    BY <1>1, <1>2, <2>1
  <2>3. /\ t # "onCreate" => Wanted(s) >= 1
        /\ Wanted(s)' <= Wanted(s) + (IF t = "onCreate" THEN 1 ELSE 0)
                                   - (IF t = "onDestroy" THEN 1 ELSE 0)
    BY <1>2, <2>2 DEF Wanted
  <2> QED
    BY <2>1, <2>2, <2>3, LifecyclePostsKeep
<1>3. CASE /\ Schedule(s, "onCreate", {"none"} \cup (IF s = "wra" THEN {"paused"} ELSE {}), "paused")
           /\ UNCHANGED finishing
  BY <1>2, <1>3
<1>4. CASE Schedule(s, "onResume", {"paused"}, "resumed") /\ UNCHANGED finishing
  <2>1. scheduled[s] # "none"
    BY <1>4 DEF Schedule
  <2> QED
    BY <1>2, <1>4, <2>1
<1>5. CASE Schedule(s, "onPause", {"resumed"}, "paused") /\ UNCHANGED finishing
  <2>1. scheduled[s] # "none"
    BY <1>5 DEF Schedule
  <2> QED
    BY <1>2, <1>5, <2>1
<1>6. CASE /\ finishing[s] /\ finishing' = [finishing EXCEPT ![s] = FALSE]
           /\ SystemPosts([type |-> "onDestroy", screen |-> s])
           /\ UNCHANGED <<serviceVars, screenVars, running, scheduled, historyVars, failure>>
  <2>1. /\ scheduled' \in [Screens -> {"none", "paused", "resumed"}]
        /\ finishing' \in [Screens -> BOOLEAN] /\ ~finishing'[s]
        /\ \A x \in Screens \ {s} : scheduled'[x] = scheduled[x] /\ finishing'[x] = finishing[x]
    BY <1>1, <1>6
  <2>2. /\ "onDestroy" # "onCreate" => Wanted(s) >= 1
        /\ Wanted(s)' <= Wanted(s) + (IF "onDestroy" = "onCreate" THEN 1 ELSE 0)
                                   - (IF "onDestroy" = "onDestroy" THEN 1 ELSE 0)
    BY <1>6, <2>1 DEF Wanted
  <2> QED
    BY <1>6, <2>1, <2>2, LifecyclePostsKeep
<1> QED
  BY <1>3, <1>4, <1>5, <1>6 DEF Lifecycle

(* An activity that finishes is counted on until it is destroyed.          *)
LEMMA FinishKeeps ==
  ASSUME IInv, NEW s \in Screens, Finish(s)
  PROVE  IInv'
<1>1. /\ scheduled[s] = "paused" /\ ~finishing[s]
      /\ scheduled' = [scheduled EXCEPT ![s] = "none"]
      /\ finishing' = [finishing EXCEPT ![s] = TRUE]
      /\ UNCHANGED <<queue, running, failure>>
      /\ UNCHANGED <<sc, symbols, loaded, told>>
      /\ UNCHANGED <<uiHandler, screen, views, strays, rowsOf, wra, fresh, repeated, outdated>>
  BY DEF Finish, serviceVars, screenVars, historyVars
<1>2. TypeOK
  BY DEF IInv
<1>3. TypeOK'
  BY <1>1, <1>2 DEF TypeOK
<1>4. ServiceInv'
  BY <1>1 DEF IInv, HoldersInv, ServiceInv, ServiceAhead
<1>5. ScreenInv'
  <2>1. ScreenInv
    BY DEF IInv, HoldersInv
  <2>2. \A x, k : ScreenAhead(x, k)' = ScreenAhead(x, k)
    BY <1>1 DEF ScreenAhead
  <2>3. ASSUME NEW x \in Screens PROVE Wanted(x)' = Wanted(x)
    BY <1>1, <1>2 DEF Wanted, TypeOK
  <2> QED
    BY <1>1, <2>1, <2>2, <2>3 DEF ScreenInv, Wanted
<1>6. LuaInv' /\ LuaFollows'
  BY <1>1 DEF IInv, LuaInv, LuaFollows, Coming
<1>7. ViewsInv'
  BY <1>1 DEF IInv, ViewsInv
<1>8. ServiceHolders'
  BY <1>1 DEF IInv, ServiceHolders
<1> QED
  BY <1>3, <1>4, <1>5, <1>6, <1>7, <1>8 DEF IInv, HoldersInv

(* All variables but failure, which is of no account to what is queued.    *)
LEMMA UnchangedKeeps ==
  ASSUME IInv, UNCHANGED <<queue, serviceVars, screenVars, systemVars, historyVars>>,
         failure' \in {"none", failure}
  PROVE  IInv'
<1>1. /\ UNCHANGED <<queue, running, scheduled, finishing>>
      /\ UNCHANGED <<sc, symbols, loaded, told>>
      /\ UNCHANGED <<uiHandler, screen, views, strays, rowsOf, wra, fresh, repeated, outdated>>
  BY DEF serviceVars, screenVars, systemVars, historyVars
<1>2. TypeOK'
  BY <1>1 DEF IInv, TypeOK
<1>3. ServiceInv'
  BY <1>1 DEF IInv, HoldersInv, ServiceInv, ServiceAhead
<1>4. ScreenInv'
  BY <1>1 DEF IInv, HoldersInv, ScreenInv, ScreenAhead
<1>5. LuaInv' /\ LuaFollows'
  BY <1>1 DEF IInv, LuaInv, LuaFollows, Coming
<1>6. ViewsInv'
  BY <1>1 DEF IInv, ViewsInv
<1>7. ServiceHolders'
  BY DEF IInv, ServiceHolders
<1> QED
  BY <1>2, <1>3, <1>4, <1>5, <1>6, <1>7 DEF IInv, HoldersInv

-----------------------------------------------------------------------------
(* What follows                                                            *)

(* Without notifications and resets on the way, views that will show what  *)
(* holds do show it.                                                       *)
LEMMA ViewsSettled == IInv => ViewsFollow
<1> SUFFICES ASSUME IInv, sc # NoInstance, fresh, ~outdated,
                    \A k \in DOMAIN queue : queue[k].type \notin {"notify", "resetUI"}
             PROVE  views = TrueNames(symbols[sc]) /\ (strays # {} => repeated)
  BY DEF ViewsFollow
<1>1. /\ DOMAIN queue = 1..Len(queue) /\ Len(queue) \in Nat /\ views \in SUBSET Names
  BY LenProperties DEF IInv, TypeOK
<1>2. /\ \A n \in Names : Shown(queue, views, 0, Len(queue), n) <=> symbols[sc][n]
      /\ ~repeated => strays = {}
  BY DEF IInv, ViewsInv, Converges
<1>3. \A k \in (0 + 1)..Len(queue) : \A n : ~Note(queue, k, n)
  BY <1>1 DEF Note
<1>4. \A n \in Names : Shown(queue, views, 0, Len(queue), n) <=> n \in views
  BY <1>3 DEF Shown
<1> QED
  BY <1>1, <1>2, <1>4 DEF TrueNames

LEMMA InitIInv == Init => IInv
<1>1. Init => Empty /\ failure = "none"
  BY DEF Init, Empty
<1> QED
  BY <1>1, EmptyIInv

LEMMA LoopKeeps ==
  ASSUME IInv, Loop
  PROVE  IInv'
<1>1. CASE \E s \in Screens : CreateScreen(s) \/ ResumeScreen(s) \/ PauseScreen(s) \/ DestroyScreen(s)
  BY <1>1, CreateScreenKeeps, ResumeScreenKeeps, PauseScreenKeeps, DestroyScreenKeeps
<1>2. CASE CreateService
  BY <1>2, CreateServiceKeeps
<1>3. CASE DestroyService
  BY <1>3, DestroyServiceKeeps
<1>4. CASE ChangeContext
  BY <1>4, ChangeContextKeeps
<1>5. CASE RunLua
  BY <1>5, RunLuaKeeps
<1>6. CASE ServeRequest \/ ShowReset \/ ShowNotification \/ ClickDelete \/ Delete
  BY <1>6, ServeRequestKeeps, ShowResetKeeps, ShowNotificationKeeps, ClickDeleteKeeps, DeleteKeeps
<1> QED
  BY <1>1, <1>2, <1>3, <1>4, <1>5, <1>6 DEF Loop

LEMMA SystemKeeps ==
  ASSUME IInv, System
  PROVE  IInv'
<1>1. CASE StartService
  BY <1>1, StartServiceKeeps
<1>2. CASE StopService
  BY <1>2, StopServiceKeeps
<1>3. CASE \E s \in Screens : Lifecycle(s) \/ Finish(s)
  BY <1>3, LifecycleKeeps, FinishKeeps
<1>4. CASE Broadcast
  BY <1>4, BroadcastKeeps
<1>5. CASE Click
  BY <1>5, ClickKeeps
<1>6. CASE Restart
  BY <1>6, UnchangedKeeps DEF Restart
<1> QED
  BY <1>1, <1>2, <1>3, <1>4, <1>5, <1>6 DEF System

(* Whatever the system does and in whatever order the looper finds the     *)
(* messages, what is queued goes on to bring the holders, Lua and the      *)
(* views where they have to be.                                            *)
THEOREM ServiceInvariance == Spec => []IInv
<1>1. IInv /\ [Next]_vars => IInv'
  <2> SUFFICES ASSUME IInv, [Next]_vars PROVE IInv'
    OBVIOUS
  <2>1. CASE Next
    BY <2>1, LoopKeeps, SystemKeeps DEF Next
  <2>2. CASE UNCHANGED vars
    BY <2>2, UnchangedKeeps DEF vars
  <2> QED
    BY <2>1, <2>2
<1> QED
  BY <1>1, InitIInv, PTL DEF Spec

(* Every variable of the service, the screens and the queue keeps its type:*)
(* Lua is only called by the names demo.lua defines.                       *)
THEOREM ServiceTypeCorrect == Spec => []TypeOK
<1>1. IInv => TypeOK
  BY DEF IInv
<1> QED
  BY <1>1, ServiceInvariance, PTL

(* SmartContext is never registered twice nor cleared when it is not       *)
(* registered, and no activity clears an empty holder, however STARTs and  *)
(* STOPs and the lifecycles of the activities are interleaved.             *)
THEOREM HoldersNeverClash == Spec => []ServiceHolders
<1>1. IInv => ServiceHolders
  BY DEF IInv
<1> QED
  BY <1>1, ServiceInvariance, PTL

(* What Lua was told last of a symbol, or is about to be told, is true.    *)
THEOREM LuaAlwaysFollows == Spec => []LuaFollows
<1>1. IInv => LuaFollows
  BY DEF IInv
<1> QED
  BY <1>1, ServiceInvariance, PTL

(* A screen that was reset for the service object, and to which nothing is *)
(* on the way, shows the symbols that hold.                                *)
THEOREM ViewsAlwaysFollow == Spec => []ViewsFollow
  BY ViewsSettled, ServiceInvariance, PTL
=============================================================================
