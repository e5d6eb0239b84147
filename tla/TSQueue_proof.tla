---------------------------- MODULE TSQueue_proof ----------------------------
(***************************************************************************)
(* Theorems about the blocking queue, for any number of producers and      *)
(* consumers and any size: no wakeup is ever lost.                         *)
(***************************************************************************)
EXTENDS TSQueue, FiniteSetTheorems, TLAPS

\* The inductive invariant: the two kinds of wakeups need one another.
Inv == TypeOK /\ ProducersWoken /\ ConsumersWoken

-----------------------------------------------------------------------------
(* Type correctness. *)

\* A notification changes places only.
LEMMA NotifyType ==
    ASSUME TypeOK, NEW T \in SUBSET Threads, NEW self \in Threads,
           NotifyOne(T, self)
    PROVE  pc' \in [Threads -> {"idle", "asleep", "woken"}]
  BY DEF NotifyOne, Asleep, TypeOK

\* A push keeps the types.
LEMMA PushItemType ==
    ASSUME TypeOK, NEW p \in Producers, pushes[p] < PushLimit,
           HasRoom \/ shutdown, PushItem(p)
    PROVE  TypeOK'
<1>0. p \in Threads /\ Consumers \subseteq Threads /\ MaxSize \in Nat
  BY QueueAssumption DEF Threads
<1>1. <<p, pushes[p]>> \in Item /\ pushes'[p] \in 0 .. PushLimit
  BY QueueAssumption DEF TypeOK, Item, PushItem
<1>2. pushes' \in [Producers -> 0 .. PushLimit]
  BY <1>1 DEF TypeOK, PushItem
<1>3. CASE shutdown
  BY <1>0, <1>1, <1>2, <1>3 DEF TypeOK, PushItem, Discard
<1>4. CASE ~shutdown
  <2>1. pc' \in [Threads -> {"idle", "asleep", "woken"}]
    <3>1. NotifyOne(Consumers, p)
      BY <1>4 DEF PushItem, Accept
    <3>. QED
      BY <1>0, <3>1, NotifyType
  <2>2. queue' \in Seq(Item) /\ Len(queue') = Len(queue) + 1
    <3>1. queue' = Append(queue, <<p, pushes[p]>>)
      BY <1>4 DEF PushItem, Accept
    <3>. QED
      BY <1>1, <3>1 DEF TypeOK
  <2>3. Len(queue') <= MaxSize
    BY <1>0, <1>4, <2>2 DEF TypeOK, HasRoom
  <2>. QED
    BY <1>2, <1>4, <2>1, <2>2, <2>3 DEF TypeOK, PushItem, Accept
<1>. QED
  BY <1>3, <1>4

\* A pop keeps the types.
LEMMA PopItemType ==
    ASSUME TypeOK, NEW c \in Consumers, PopItem(c)
    PROVE  TypeOK'
<1>0. c \in Threads /\ Producers \subseteq Threads
  BY DEF Threads
<1>1. pc' \in [Threads -> {"idle", "asleep", "woken"}]
  BY <1>0, NotifyType DEF PopItem
<1>2. /\ Head(queue) \in Item
      /\ Tail(queue) \in Seq(Item)
      /\ Len(Tail(queue)) = Len(queue) - 1
  BY DEF TypeOK, PopItem
<1>3. popped' \in Seq(Item) /\ Len(queue') <= MaxSize
  BY <1>2, QueueAssumption DEF TypeOK, PopItem
<1>. QED
  BY <1>1, <1>2, <1>3 DEF TypeOK, PopItem

\* TypeOK is inductive.
LEMMA TypeNext == TypeOK /\ [Next]_vars => TypeOK'
<1>. SUFFICES ASSUME TypeOK, [Next]_vars PROVE TypeOK'
  OBVIOUS
<1>. USE DEF Threads
<1>1. ASSUME NEW p \in Producers, Push(p) PROVE TypeOK'
  BY <1>1, PushItemType DEF Push, PushReady
<1>2. ASSUME NEW p \in Producers, PushSleeps(p) PROVE TypeOK'
  BY <1>2 DEF PushSleeps, TypeOK
<1>3. ASSUME NEW p \in Producers, TryPush(p) PROVE TypeOK'
  <2>1. CASE HasRoom /\ ~shutdown
    BY <1>3, <2>1, PushItemType DEF TryPush
  <2>2. CASE ~(HasRoom /\ ~shutdown)
    BY <1>3, <2>2 DEF TryPush, vars, TypeOK
  <2>. QED
    BY <2>1, <2>2
<1>4. ASSUME NEW c \in Consumers, PopItem(c) PROVE TypeOK'
  BY <1>4, PopItemType
<1>5. ASSUME NEW c \in Consumers, PopNothing(c) \/ PopTimesOut(c)
      PROVE  TypeOK'
  BY <1>5 DEF PopNothing, PopTimesOut, TypeOK
<1>6. ASSUME NEW c \in Consumers, PopSleeps(c) PROVE TypeOK'
  BY <1>6 DEF PopSleeps, TypeOK
<1>7. ASSUME NEW t \in Threads, WakeUp(t) PROVE TypeOK'
  BY <1>7 DEF WakeUp, TypeOK
<1>8. CASE Shutdown
  BY <1>8 DEF Shutdown, WakeAll, TypeOK
<1>9. CASE UNCHANGED vars
  BY <1>9 DEF vars, TypeOK
<1>. QED
  BY <1>1, <1>2, <1>3, <1>4, <1>5, <1>6, <1>7, <1>8, <1>9
     DEF Next, PushStep, PopStep

\* The queue never exceeds its size.
THEOREM TypeCorrect == Spec => []TypeOK
<1>1. Init => TypeOK
  <2>. SUFFICES ASSUME Init PROVE TypeOK
    OBVIOUS
  <2>1. queue \in Seq(Item) /\ popped \in Seq(Item) /\ Len(queue) = 0
    BY DEF Init
  <2>2. Len(queue) <= MaxSize
    BY <2>1, QueueAssumption
  <2>3. /\ pc \in [Threads -> {"idle", "asleep", "woken"}]
        /\ timed \in [Consumers -> BOOLEAN]
        /\ pushes \in [Producers -> 0 .. PushLimit]
    BY QueueAssumption DEF Init
  <2>4. shutdown \in BOOLEAN /\ lost \subseteq Item
    BY DEF Init
  <2>. QED
    BY <2>1, <2>2, <2>3, <2>4 DEF TypeOK
<1>. QED
  BY <1>1, TypeNext, PTL DEF Spec

-----------------------------------------------------------------------------
(* No lost wakeup.  A critical section moves one or two threads between the *)
(* sleeping, the woken and the others; the counts follow.                   *)

\* The sets of threads that are counted are finite.
LEMMA Counts ==
    ASSUME TypeOK
    PROVE  /\ IsFiniteSet(Awake(Producers))
           /\ IsFiniteSet(Awake(Consumers))
           /\ Cardinality(Awake(Producers)) \in Nat
           /\ Cardinality(Awake(Consumers)) \in Nat
<1>1. /\ Awake(Producers) \in SUBSET Producers
      /\ Awake(Consumers) \in SUBSET Consumers
  BY DEF Awake
<1>2. IsFiniteSet(Awake(Producers)) /\ IsFiniteSet(Awake(Consumers))
  BY <1>1, QueueAssumption, FS_Subset
<1>. QED
  BY <1>2, FS_CardinalityType

\* The thread leaves its set of woken threads, if it was there.
LEMMA OneReturns ==
    ASSUME NEW S, NEW t, IsFiniteSet(S)
    PROVE  /\ Cardinality(S \ {t}) \in Nat
           /\ Cardinality(S \ {t}) >= Cardinality(S) - 1
           /\ Cardinality(S \ {t}) <= Cardinality(S)
<1>1. Cardinality(S) \in Nat
  BY FS_CardinalityType
<1>2. /\ IsFiniteSet(S \ {t})
      /\ Cardinality(S \ {t}) = IF t \in S THEN Cardinality(S) - 1
                                ELSE Cardinality(S)
  BY FS_RemoveElement
<1>3. Cardinality(S \ {t}) \in Nat
  BY <1>2, FS_CardinalityType
<1>. QED
  BY <1>1, <1>2, <1>3

\* One more is woken, or one less asleep.
LEMMA OneWakes ==
    ASSUME NEW S, NEW t, IsFiniteSet(S), t \notin S
    PROVE  /\ Cardinality(S \cup {t}) \in Nat
           /\ Cardinality(S \cup {t}) = Cardinality(S) + 1
<1>1. IsFiniteSet(S \cup {t}) /\ Cardinality(S \cup {t}) = Cardinality(S) + 1
  BY FS_AddElement
<1>. QED
  BY <1>1, FS_CardinalityType

\* What a returning thread does to its own side and, by notify_one, to the
\* other side.
LEMMA Notified ==
    ASSUME TypeOK, NEW T \in SUBSET Threads, NEW U \in SUBSET Threads,
           T \cap U = {}, NEW self \in U, MayEnter(self), NotifyOne(T, self)
    PROVE  /\ Asleep(U)' = Asleep(U)
           /\ Awake(U)' = Awake(U) \ {self}
           /\ \/ Asleep(T) = {} /\ Asleep(T)' = {}
              \/ \E t \in Asleep(T) : /\ t \notin Awake(T)
                                      /\ Awake(T)' = Awake(T) \cup {t}
<1>1. CASE Asleep(T) = {}
  <2>1. pc' = [pc EXCEPT ![self] = "idle"]
    BY <1>1 DEF NotifyOne
  <2>. QED
    BY <1>1, <2>1 DEF TypeOK, Asleep, Awake, MayEnter
<1>2. CASE Asleep(T) # {}
  <2>1. PICK t \in Asleep(T) :
            pc' = [pc EXCEPT ![self] = "idle", ![t] = "woken"]
    BY <1>2 DEF NotifyOne
  <2>2. t \in Threads /\ t \in T /\ t \notin U /\ t # self /\ pc[t] = "asleep"
    BY DEF Asleep
  <2>. QED
    BY <2>1, <2>2 DEF TypeOK, Asleep, Awake, MayEnter
<1>. QED
  BY <1>1, <1>2

\* A push that gets through, or is thrown away.
LEMMA WokenPush ==
    ASSUME Inv, NEW p \in Producers, MayEnter(p), HasRoom \/ shutdown,
           PushItem(p)
    PROVE  ProducersWoken' /\ ConsumersWoken'
<1>. USE Counts DEF Inv
<1>0. /\ Consumers \in SUBSET Threads
      /\ Producers \in SUBSET Threads
      /\ Consumers \cap Producers = {}
      /\ Len(queue) \in Nat
      /\ MaxSize \in Nat
  BY QueueAssumption DEF Threads, TypeOK
<1>1. CASE shutdown
  <2>1. Asleep(Producers) = {} /\ Asleep(Consumers) = {}
    BY <1>1 DEF ProducersWoken, ConsumersWoken
  <2>2. pc' = [pc EXCEPT ![p] = "idle"]
    BY <1>1 DEF PushItem, Discard
  <2>3. Asleep(Producers)' = {} /\ Asleep(Consumers)' = {}
    BY <1>0, <2>1, <2>2 DEF Asleep, TypeOK
  <2>. QED
    BY <2>3 DEF ProducersWoken, ConsumersWoken
<1>2. CASE ~shutdown
  <2>1. NotifyOne(Consumers, p)
    BY <1>2 DEF PushItem, Accept
  <2>2. /\ Asleep(Producers)' = Asleep(Producers)
        /\ Awake(Producers)' = Awake(Producers) \ {p}
        /\ \/ Asleep(Consumers) = {} /\ Asleep(Consumers)' = {}
           \/ \E t \in Asleep(Consumers) :
                  /\ t \notin Awake(Consumers)
                  /\ Awake(Consumers)' = Awake(Consumers) \cup {t}
    BY <1>0, <2>1, Notified
  <2>3. shutdown' = shutdown /\ Len(queue') = Len(queue) + 1
    BY <1>2 DEF PushItem, Accept, TypeOK
  <2>4. ProducersWoken'
    <3>1. /\ Cardinality(Awake(Producers)') \in Nat
          /\ Cardinality(Awake(Producers)') >= Cardinality(Awake(Producers)) - 1
      BY <2>2, OneReturns
    <3>. QED
      BY <1>0, <2>2, <2>3, <3>1 DEF ProducersWoken
  <2>5. ConsumersWoken'
    <3>1. CASE Asleep(Consumers)' = {}
      BY <3>1 DEF ConsumersWoken
    <3>2. CASE Asleep(Consumers)' # {}
      <4>1. PICK t \in Asleep(Consumers) :
                /\ t \notin Awake(Consumers)
                /\ Awake(Consumers)' = Awake(Consumers) \cup {t}
        BY <2>2, <3>2
      <4>2. Cardinality(Awake(Consumers)') = Cardinality(Awake(Consumers)) + 1
        BY <4>1, OneWakes
      <4>. QED
        BY <1>0, <1>2, <2>3, <4>1, <4>2 DEF ConsumersWoken
    <3>. QED
      BY <3>1, <3>2
  <2>. QED
    BY <2>4, <2>5
<1>. QED
  BY <1>1, <1>2

\* A pop that returns an item.
LEMMA WokenPop ==
    ASSUME Inv, NEW c \in Consumers, PopItem(c)
    PROVE  ProducersWoken' /\ ConsumersWoken'
<1>. USE Counts DEF Inv
<1>0. /\ Consumers \in SUBSET Threads
      /\ Producers \in SUBSET Threads
      /\ Producers \cap Consumers = {}
      /\ Len(queue) \in Nat
      /\ MaxSize \in Nat
  BY QueueAssumption DEF Threads, TypeOK
<1>1. NotifyOne(Producers, c) /\ MayEnter(c)
  BY DEF PopItem
<1>2. /\ Asleep(Consumers)' = Asleep(Consumers)
      /\ Awake(Consumers)' = Awake(Consumers) \ {c}
      /\ \/ Asleep(Producers) = {} /\ Asleep(Producers)' = {}
         \/ \E t \in Asleep(Producers) :
                /\ t \notin Awake(Producers)
                /\ Awake(Producers)' = Awake(Producers) \cup {t}
  BY <1>0, <1>1, Notified
<1>3. shutdown' = shutdown /\ Len(queue') = Len(queue) - 1
  BY DEF PopItem, TypeOK
<1>4. ConsumersWoken'
  <2>1. /\ Cardinality(Awake(Consumers)') \in Nat
        /\ Cardinality(Awake(Consumers)') >= Cardinality(Awake(Consumers)) - 1
    BY <1>2, OneReturns
  <2>. QED
    BY <1>0, <1>2, <1>3, <2>1 DEF ConsumersWoken
<1>5. ProducersWoken'
  <2>1. CASE Asleep(Producers)' = {}
    BY <2>1 DEF ProducersWoken
  <2>2. CASE Asleep(Producers)' # {}
    <3>1. PICK t \in Asleep(Producers) :
              /\ t \notin Awake(Producers)
              /\ Awake(Producers)' = Awake(Producers) \cup {t}
      BY <1>2, <2>2
    <3>2. Cardinality(Awake(Producers)') = Cardinality(Awake(Producers)) + 1
      BY <3>1, OneWakes
    <3>. QED
      BY <1>0, <1>3, <3>1, <3>2 DEF ProducersWoken
  <2>. QED
    BY <2>1, <2>2
<1>. QED
  BY <1>4, <1>5

\* A thread that goes to sleep found the queue full, or empty.
LEMMA WokenSleeps ==
    ASSUME Inv, NEW t \in Threads,
           \/ t \in Producers /\ PushSleeps(t)
           \/ t \in Consumers /\ PopSleeps(t)
    PROVE  ProducersWoken' /\ ConsumersWoken'
<1>. USE Counts DEF Inv
<1>0. /\ Len(queue) \in Nat
      /\ MaxSize \in Nat
      /\ Producers \cap Consumers = {}
      /\ pc' = [pc EXCEPT ![t] = "asleep"]
      /\ UNCHANGED <<queue, shutdown>>
      /\ ~shutdown
  BY QueueAssumption DEF TypeOK, PushSleeps, PopSleeps, PushReady, PopReady
<1>1. /\ Awake(Producers)' = Awake(Producers) \ {t}
      /\ Awake(Consumers)' = Awake(Consumers) \ {t}
  BY <1>0 DEF Awake, Threads, TypeOK
<1>2. /\ Cardinality(Awake(Producers)') \in Nat
      /\ Cardinality(Awake(Consumers)') \in Nat
  BY <1>1, OneReturns
<1>3. CASE t \in Producers /\ PushSleeps(t)
  <2>1. Len(queue) >= MaxSize
    BY <1>0, <1>3 DEF PushSleeps, PushReady, HasRoom
  <2>2. /\ Asleep(Consumers)' = Asleep(Consumers)
        /\ Awake(Consumers)' = Awake(Consumers)
    BY <1>0, <1>3 DEF Asleep, Awake, Threads, TypeOK
  <2>. QED
    BY <1>0, <1>2, <2>1, <2>2 DEF ProducersWoken, ConsumersWoken
<1>4. CASE t \in Consumers /\ PopSleeps(t)
  <2>1. Len(queue) = 0
    BY <1>4 DEF PopSleeps, PopReady, TypeOK
  <2>2. /\ Asleep(Producers)' = Asleep(Producers)
        /\ Awake(Producers)' = Awake(Producers)
    BY <1>0, <1>4 DEF Asleep, Awake, Threads, TypeOK
  <2>. QED
    BY <1>0, <1>2, <2>1, <2>2 DEF ProducersWoken, ConsumersWoken
<1>. QED
  BY <1>3, <1>4

\* A consumer that returns empty-handed leaves an empty queue behind.
LEMMA WokenNothing ==
    ASSUME Inv, NEW c \in Consumers, PopNothing(c) \/ PopTimesOut(c)
    PROVE  ProducersWoken' /\ ConsumersWoken'
<1>. USE Counts DEF Inv
<1>0. /\ Len(queue) = 0
      /\ Producers \cap Consumers = {}
      /\ pc' = [pc EXCEPT ![c] = "idle"]
      /\ UNCHANGED <<queue, shutdown>>
  BY QueueAssumption DEF PopNothing, PopTimesOut, PopReady, TypeOK
<1>1. /\ Asleep(Producers)' = Asleep(Producers)
      /\ Awake(Producers)' = Awake(Producers)
      /\ Asleep(Consumers)' \subseteq Asleep(Consumers)
      /\ Awake(Consumers)' = Awake(Consumers) \ {c}
  BY <1>0 DEF Asleep, Awake, Threads, TypeOK
<1>2. Cardinality(Awake(Consumers)') \in Nat
  BY <1>1, OneReturns
<1>. QED
  BY <1>0, <1>1, <1>2 DEF ProducersWoken, ConsumersWoken

\* One more thread competes for the mutex.
LEMMA WokenWakeUp ==
    ASSUME Inv, NEW t \in Threads, WakeUp(t)
    PROVE  ProducersWoken' /\ ConsumersWoken'
<1>. USE Counts DEF Inv
<1>0. /\ Len(queue) \in Nat /\ MaxSize \in Nat
      /\ UNCHANGED <<queue, shutdown>>
      /\ Producers \cap Consumers = {}
  BY QueueAssumption DEF WakeUp, TypeOK
<1>1. ASSUME NEW T \in {Producers, Consumers}
      PROVE  /\ Asleep(T)' \subseteq Asleep(T)
             /\ Cardinality(Awake(T)') \in Nat
             /\ Cardinality(Awake(T)') >= Cardinality(Awake(T))
  <2>1. T \subseteq Threads /\ t \notin Awake(T)
    BY DEF Threads, WakeUp, Awake
  <2>2. Asleep(T)' \subseteq Asleep(T)
    BY <2>1 DEF Asleep, WakeUp, TypeOK
  <2>3. Awake(T)' = IF t \in T THEN Awake(T) \cup {t} ELSE Awake(T)
    BY <2>1 DEF Awake, WakeUp, TypeOK
  <2>. QED
    BY <2>1, <2>2, <2>3, OneWakes
<1>. QED
  BY <1>0, <1>1 DEF ProducersWoken, ConsumersWoken

\* No step loses a wakeup.
LEMMA WokenNext == Inv /\ [Next]_vars => ProducersWoken' /\ ConsumersWoken'
<1>. SUFFICES ASSUME Inv, [Next]_vars
              PROVE  ProducersWoken' /\ ConsumersWoken'
  OBVIOUS
<1>1. ASSUME NEW p \in Producers, Push(p)
      PROVE  ProducersWoken' /\ ConsumersWoken'
  BY <1>1, WokenPush DEF Push, PushReady
<1>2. ASSUME NEW p \in Producers, TryPush(p), HasRoom /\ ~shutdown
      PROVE  ProducersWoken' /\ ConsumersWoken'
  <2>1. PushItem(p) /\ MayEnter(p)
    BY <1>2 DEF TryPush, MayEnter
  <2>. QED
    BY <1>2, <2>1, WokenPush
<1>3. ASSUME NEW p \in Producers, PushSleeps(p)
      PROVE  ProducersWoken' /\ ConsumersWoken'
  BY <1>3, WokenSleeps DEF Threads
<1>4. ASSUME NEW c \in Consumers, PopStep(c) \/ PopTimesOut(c)
      PROVE  ProducersWoken' /\ ConsumersWoken'
  BY <1>4, WokenPop, WokenNothing, WokenSleeps DEF PopStep, Threads
<1>5. ASSUME NEW t \in Threads, WakeUp(t)
      PROVE  ProducersWoken' /\ ConsumersWoken'
  BY <1>5, WokenWakeUp
<1>6. ASSUME Shutdown
      PROVE  ProducersWoken' /\ ConsumersWoken'
  <2>1. Asleep(Producers)' = {} /\ Asleep(Consumers)' = {}
    BY <1>6 DEF Shutdown, WakeAll, Asleep, Threads
  <2>. QED
    BY <2>1 DEF ProducersWoken, ConsumersWoken
<1>7. ASSUME UNCHANGED vars
      PROVE  ProducersWoken' /\ ConsumersWoken'
  BY <1>7 DEF Inv, vars, ProducersWoken, ConsumersWoken, Asleep, Awake
<1>8. ASSUME NEW p \in Producers, TryPush(p), ~(HasRoom /\ ~shutdown)
      PROVE  UNCHANGED vars
  BY <1>8 DEF TryPush
<1>. QED
  BY <1>1, <1>2, <1>3, <1>4, <1>5, <1>6, <1>7, <1>8 DEF Next, PushStep

\* Type correctness and both promises, in every state.
LEMMA InvHolds == Spec => []Inv
<1>1. Init => ProducersWoken /\ ConsumersWoken
  BY DEF Init, ProducersWoken, ConsumersWoken, Asleep, Threads
<1>2. Inv /\ [Next]_vars => Inv'
  BY TypeNext, WokenNext DEF Inv
<1>3. TypeOK /\ ProducersWoken /\ ConsumersWoken => Inv
  BY DEF Inv
<1>. QED
  BY <1>1, <1>2, <1>3, TypeCorrect, PTL DEF Spec

\* For any number of producers, consumers and any size: while a producer
\* sleeps every free slot has a woken producer on its way, and none sleeps
\* once the queue is shut down.
THEOREM NoLostWakeup == Spec => []ProducersWoken
<1>1. Inv => ProducersWoken
  BY DEF Inv
<1>. QED
  BY <1>1, InvHolds, PTL

\* For any number of producers, consumers and any size: while a consumer
\* sleeps every item has a woken consumer on its way, and none sleeps once the
\* queue is shut down.
THEOREM NoItemForgotten == Spec => []ConsumersWoken
<1>1. Inv => ConsumersWoken
  BY DEF Inv
<1>. QED
  BY <1>1, InvHolds, PTL

-----------------------------------------------------------------------------
(* The queue implements BoundedFifo: a push that gets through is Accept, a  *)
(* pop that returns an item is Give, every wait and every wakeup is a       *)
(* stutter.                                                                 *)

\* A push that gets through is Accept.
LEMMA FifoPush ==
    ASSUME TypeOK, NEW p \in Producers, pushes[p] < PushLimit,
           HasRoom \/ shutdown, PushItem(p)
    PROVE  [Fifo!Next]_Fifo!vars
<1>1. <<p, pushes[p]>> \in Item
  BY QueueAssumption DEF TypeOK, Item
<1>2. CASE shutdown
  BY <1>2 DEF PushItem, Discard, Fifo!vars
<1>3. CASE ~shutdown
  <2>1. Fifo!Accept(<<p, pushes[p]>>)
    BY <1>3 DEF PushItem, Accept, HasRoom, Fifo!Accept
  <2>. QED
    BY <1>1, <2>1 DEF Fifo!Next
<1>. QED
  BY <1>2, <1>3

\* Every step is a step of BoundedFifo or a stutter.
LEMMA FifoNext == TypeOK /\ [Next]_vars => [Fifo!Next]_Fifo!vars
<1>. SUFFICES ASSUME TypeOK, [Next]_vars PROVE [Fifo!Next]_Fifo!vars
  OBVIOUS
<1>1. ASSUME NEW p \in Producers, Push(p) PROVE [Fifo!Next]_Fifo!vars
  BY <1>1, FifoPush DEF Push, PushReady
<1>2. ASSUME NEW p \in Producers, TryPush(p) PROVE [Fifo!Next]_Fifo!vars
  <2>1. CASE HasRoom /\ ~shutdown
    BY <1>2, <2>1, FifoPush DEF TryPush
  <2>2. CASE ~(HasRoom /\ ~shutdown)
    BY <1>2, <2>2 DEF TryPush, vars, Fifo!vars
  <2>. QED
    BY <2>1, <2>2
<1>3. ASSUME NEW c \in Consumers, PopItem(c) PROVE [Fifo!Next]_Fifo!vars
  <2>1. Fifo!Give
    BY <1>3 DEF PopItem, Fifo!Give
  <2>. QED
    BY <2>1 DEF Fifo!Next
<1>4. ASSUME Shutdown PROVE [Fifo!Next]_Fifo!vars
  <2>1. Fifo!Close
    BY <1>4 DEF Shutdown, Fifo!Close
  <2>. QED
    BY <2>1 DEF Fifo!Next
<1>5. ASSUME NEW t \in Threads,
             \/ t \in Producers /\ PushSleeps(t)
             \/ t \in Consumers /\ (PopNothing(t) \/ PopSleeps(t) \/ PopTimesOut(t))
             \/ WakeUp(t)
      PROVE  [Fifo!Next]_Fifo!vars
  BY <1>5 DEF PushSleeps, PopNothing, PopSleeps, PopTimesOut, WakeUp, Fifo!vars
<1>6. ASSUME UNCHANGED vars PROVE [Fifo!Next]_Fifo!vars
  BY <1>6 DEF vars, Fifo!vars
<1>. QED
  BY <1>1, <1>2, <1>3, <1>4, <1>5, <1>6 DEF Next, PushStep, PopStep, Threads

\* Whatever the threads do, what push accepts is popped once and in order,
\* never more than max_size_ items wait, and nothing enters after shutdown().
THEOREM QueueImplementsFifo == Spec => ImplementsFifo
<1>1. Init => Fifo!Init
  BY DEF Init, Fifo!Init
<1>. QED
  BY <1>1, FifoNext, TypeCorrect, PTL DEF Spec, ImplementsFifo, Fifo!Spec
=============================================================================
