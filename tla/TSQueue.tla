------------------------------- MODULE TSQueue -------------------------------
(***************************************************************************)
(* The blocking queue between two stages (TSQueue in src/src/dpi_mt.cpp,   *)
(* ThreadSafeQueue in src/include/thread_safe_queue.h): one mutex, two     *)
(* condition variables, notify_one on every push and every pop.            *)
(*                                                                         *)
(* A step is one critical section, from taking the mutex to the wait or    *)
(* the return.  A thread that has to wait sleeps on its condition          *)
(* variable; a notification (or a spurious wakeup, or the timeout of a     *)
(* timed pop) makes it compete for the mutex again, and others may take    *)
(* the mutex first.                                                        *)
(***************************************************************************)
EXTENDS Integers, Sequences, FiniteSets

CONSTANTS
    Producers, Consumers,
    MaxSize,     \* max_size_
    PushLimit    \* bound: pushes each producer makes

ASSUME QueueAssumption ==
    /\ MaxSize \in Nat \ {0}
    /\ PushLimit \in Nat
    /\ IsFiniteSet(Producers)
    /\ IsFiniteSet(Consumers)
    /\ Producers \cap Consumers = {}

VARIABLES
    queue, shutdown,
    pc,       \* of each thread: where it is in its call
    timed,    \* of each consumer: its wait has a timeout
    pushes,   \* of each producer: calls made
    lost,     \* items push threw away because of the shutdown
    popped    \* the items returned by pop, in order

vars == <<queue, shutdown, pc, timed, pushes, lost, popped>>

Threads == Producers \cup Consumers
Item == Producers \X (0 .. PushLimit)

Asleep(T) == {t \in T : pc[t] = "asleep"}
Awake(T) == {t \in T : pc[t] = "woken"}

-----------------------------------------------------------------------------
(* Condition variables: not_full_ holds the sleeping producers, not_empty_  *)
(* the sleeping consumers.                                                  *)

NotifyNobody(T, self) ==  \* mutant: the notification is forgotten
    pc' = [pc EXCEPT ![self] = "idle"]

\* The thread self returns from its call and notifies one of T, if any sleeps.
NotifyAtEdge(T, self) ==  \* mutant: only if the queue was empty or full
    IF Asleep(T) = {} \/ Len(queue) \in 1 .. MaxSize - 1
    THEN pc' = [pc EXCEPT ![self] = "idle"]
    ELSE \E t \in Asleep(T) :
             pc' = [pc EXCEPT ![self] = "idle", ![t] = "woken"]
NotifyOne(T, self) ==
    IF Asleep(T) = {}
    THEN pc' = [pc EXCEPT ![self] = "idle"]
    ELSE \E t \in Asleep(T) :
             pc' = [pc EXCEPT ![self] = "idle", ![t] = "woken"]

\* A thread enters at the call, or again when it has been woken.
MayEnter(t) == pc[t] \in {"idle", "woken"}

-----------------------------------------------------------------------------
(* push *)

AlmostRoom == Len(queue) <= MaxSize  \* mutant: off by one
HasRoom == Len(queue) < MaxSize
PushReady == HasRoom \/ shutdown

\* After the wait: the item goes in, or is thrown away if the queue was
\* shut down meanwhile.
Accept(p) ==
    /\ queue' = Append(queue, <<p, pushes[p]>>)
    /\ NotifyOne(Consumers, p)
    /\ UNCHANGED lost
Discard(p) ==
    /\ lost' = lost \cup {<<p, pushes[p]>>}
    /\ pc' = [pc EXCEPT ![p] = "idle"]
    /\ UNCHANGED queue
PushAnyway(p) ==  \* mutant: the shutdown is not looked at again
    /\ Accept(p)
    /\ pushes' = [pushes EXCEPT ![p] = @ + 1]
    /\ UNCHANGED <<shutdown, timed, popped>>
PushItem(p) ==
    /\ IF shutdown THEN Discard(p) ELSE Accept(p)
    /\ pushes' = [pushes EXCEPT ![p] = @ + 1]
    /\ UNCHANGED <<shutdown, timed, popped>>

Push(p) ==
    /\ MayEnter(p)
    /\ pushes[p] < PushLimit
    /\ PushReady
    /\ PushItem(p)

PushSleeps(p) ==
    /\ MayEnter(p)
    /\ pushes[p] < PushLimit
    /\ ~PushReady
    /\ pc' = [pc EXCEPT ![p] = "asleep"]
    /\ UNCHANGED <<queue, shutdown, timed, pushes, lost, popped>>

\* tryPush: gives up at once on a full queue or after the shutdown.
TryPush(p) ==
    /\ pc[p] = "idle"
    /\ pushes[p] < PushLimit
    /\ IF HasRoom /\ ~shutdown
       THEN PushItem(p)
       ELSE UNCHANGED vars

-----------------------------------------------------------------------------
(* pop, and pop with a timeout *)

PopReady == queue # <<>> \/ shutdown

PopItem(c) ==
    /\ MayEnter(c)
    /\ queue # <<>>
    /\ popped' = Append(popped, Head(queue))
    /\ queue' = Tail(queue)
    /\ NotifyOne(Producers, c)
    /\ UNCHANGED <<shutdown, timed, pushes, lost>>

\* Shut down and empty: nullopt.
PopNothing(c) ==
    /\ MayEnter(c)
    /\ queue = <<>>
    /\ shutdown
    /\ pc' = [pc EXCEPT ![c] = "idle"]
    /\ UNCHANGED <<queue, shutdown, timed, pushes, lost, popped>>

PopSleeps(c) ==
    /\ MayEnter(c)
    /\ ~PopReady
    /\ pc' = [pc EXCEPT ![c] = "asleep"]
    /\ \E b \in BOOLEAN :
           timed' = [timed EXCEPT ![c] = IF pc[c] = "idle" THEN b ELSE @]
    /\ UNCHANGED <<queue, shutdown, pushes, lost, popped>>

\* wait_for reports the timeout only if the predicate is still false once
\* the mutex is held again; otherwise the pop goes on.
PopTimesOut(c) ==
    /\ pc[c] \in {"asleep", "woken"}
    /\ timed[c]
    /\ ~PopReady
    /\ pc' = [pc EXCEPT ![c] = "idle"]
    /\ UNCHANGED <<queue, shutdown, timed, pushes, lost, popped>>

-----------------------------------------------------------------------------
(* shutdown(), and the wakeups nobody asked for *)

WakeNobody == UNCHANGED pc  \* mutant: shutdown() forgets notify_all
WakeAll ==
    pc' = [t \in Threads |-> IF pc[t] = "asleep" THEN "woken" ELSE pc[t]]

Shutdown ==
    /\ ~shutdown
    /\ shutdown' = TRUE
    /\ WakeAll
    /\ UNCHANGED <<queue, timed, pushes, lost, popped>>

\* A spurious wakeup, or a timeout that competes for the mutex.
WakeUp(t) ==
    /\ pc[t] = "asleep"
    /\ pc' = [pc EXCEPT ![t] = "woken"]
    /\ UNCHANGED <<queue, shutdown, timed, pushes, lost, popped>>

-----------------------------------------------------------------------------
Init ==
    /\ queue = <<>>
    /\ shutdown = FALSE
    /\ pc = [t \in Threads |-> "idle"]
    /\ timed = [c \in Consumers |-> FALSE]
    /\ pushes = [p \in Producers |-> 0]
    /\ lost = {}
    /\ popped = <<>>

PushStep(p) == Push(p) \/ PushSleeps(p)
PopStep(c) == PopItem(c) \/ PopNothing(c) \/ PopSleeps(c)

Next ==
    \/ \E p \in Producers : PushStep(p) \/ TryPush(p)
    \/ \E c \in Consumers : PopStep(c) \/ PopTimesOut(c)
    \/ \E t \in Threads : WakeUp(t)
    \/ Shutdown

\* The scheduler runs every thread that can take the mutex.  No fairness for
\* timeouts, spurious wakeups or the shutdown: progress may not rest on them.
Fairness ==
    /\ \A p \in Producers : WF_vars(PushStep(p))
    /\ \A c \in Consumers : WF_vars(PopStep(c))

Spec == Init /\ [][Next]_vars
FairSpec == Spec /\ Fairness

-----------------------------------------------------------------------------
(* Properties. *)

\* The queue never holds more than max_size_ items, and the bookkeeping of
\* the threads is well formed.
TypeOK ==
    /\ queue \in Seq(Item)
    /\ Len(queue) <= MaxSize
    /\ shutdown \in BOOLEAN
    /\ pc \in [Threads -> {"idle", "asleep", "woken"}]
    /\ timed \in [Consumers -> BOOLEAN]
    /\ pushes \in [Producers -> 0 .. PushLimit]
    /\ lost \subseteq Item
    /\ popped \in Seq(Item)

\* No lost wakeup in push: while a producer sleeps, every free slot has a
\* producer on its way to it, although each pop notifies only one and others
\* may overtake the one notified.  After the shutdown no producer sleeps.
ProducersWoken ==
    Asleep(Producers) # {} =>
        /\ ~shutdown
        /\ Len(queue) + Cardinality(Awake(Producers)) >= MaxSize

\* The same for pop: while a consumer sleeps, every item has a consumer on
\* its way to it.
ConsumersWoken ==
    Asleep(Consumers) # {} =>
        /\ ~shutdown
        /\ Len(queue) <= Cardinality(Awake(Consumers))

\* Nobody sleeps in a queue that is shut down and never woken: a thread in
\* push or pop when shutdown() is called returns, so stop() can join it.
ShutdownReleases ==
    \A t \in Threads : shutdown /\ pc[t] # "idle" ~> pc[t] = "idle"

\* An item that is in the queue is popped, even if no timeout ever expires.
ItemsArePopped == queue # <<>> ~> queue = <<>> \/ shutdown

Fifo == INSTANCE BoundedFifo WITH
    Items <- Item, Cap <- MaxSize,
    fifo <- queue, closed <- shutdown, out <- popped

\* The queue implements BoundedFifo, whatever the threads do.
ImplementsFifo == Fifo!Spec
=============================================================================
