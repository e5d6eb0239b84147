----------------------------- MODULE LegacyEngine -----------------------------
(***************************************************************************)
(* The threads of the first engine (src/src/dpi_engine.cpp, load_balancer, *)
(* fast_path): reader, load balancers, fast paths and output thread, and   *)
(* stop(), which clears the engine's own running_ first.  The output       *)
(* thread runs on that flag, not on one of its own.                        *)
(*                                                                         *)
(* Threads are numbered in the order stop() joins them.  A packet is its   *)
(* index in the capture.  Each fast path decides on its packets with a     *)
(* connection table of its own, as FlowTracker describes, and with rules   *)
(* that the API may change meanwhile, also between the four locks of one   *)
(* check.  Sleeps and timed pops may end at any moment; no connection      *)
(* grows older than the cleanup's five minutes.                            *)
(***************************************************************************)
EXTENDS Integers, Sequences, FiniteSetsExt, SequencesExt, Sums

CONSTANTS
    NumLBs,     \* Config::num_load_balancers
    FpsPerLb,   \* Config::fps_per_lb
    QueueCap,   \* 10000: the size of every ThreadSafeQueue
    Hash,       \* FiveTupleHash
    Captures,   \* captures: sequences of packets
    StartRules, \* the rules that may be in force before processFile
    MaxChanges, \* bound: calls of the rule API during the run
    \* the constants of FlowTracker
    Tuples, TcpTuples, SrcIP, SrcPort, DstPort, Names, EmptyName,
    AppTypes, UNKNOWN, HTTP, HTTPS, DNS, NameApp, Covers, AllRules,
    MaxConnections

Packet == [tuple : Tuples, flags : SUBSET {"SYN", "ACK", "FIN", "RST"},
           payload : [kind : {"none", "other", "tls", "http", "dns"},
                      name : Names]]

ASSUME LegacyAssumption ==
    /\ NumLBs \in Nat \ {0}
    /\ FpsPerLb \in Nat \ {0}
    /\ QueueCap \in Nat \ {0}
    /\ IsFiniteSet(Tuples)
    /\ Hash \in [Tuples -> Nat]
    /\ Captures \subseteq Seq(Packet)
    /\ EmptyName \in Names
    /\ {UNKNOWN, HTTP, HTTPS, DNS} \subseteq AppTypes
    /\ NameApp \in [Names -> AppTypes]
    /\ StartRules \subseteq SUBSET AllRules
    /\ MaxConnections \in Nat \ {0}
    /\ MaxChanges \in Nat

NumFPs == NumLBs * FpsPerLb
LBs == 1 .. NumLBs
FPs == NumLBs + 1 .. NumLBs + NumFPs
Output == NumLBs + NumFPs + 1
Threads == 1 .. Output

VARIABLES
    capture,      \* the packets of the input file
    queue, shut,  \* the queue each thread pops, and its shutdown flag
    running,      \* running_ of each thread; the engine's, for the output
    pc, hand,     \* where each thread is, and the packet it holds
    mainPc, cursor, \* where processFile is, and the thread it is stopping
    total,        \* total_packets
    received, dispatched,        \* of each load balancer
    perFp,                       \* per_fp_counts_ of each load balancer
    processed, fpForwarded, fpDropped, \* of each fast path
    forwarded, dropped,          \* stats_
    conns,        \* connections_ of each fast path
    lock,         \* the lock that its shouldBlock takes next, or "none"
    rules, changes, \* the rules in force, and how often they changed
    cut,          \* history: the packets that were dropped
    written,      \* the packets in the output file
    leftEarly,    \* history: the output thread left before a fast path
    faulted       \* the process was killed by a bad memory access

threadVars == <<queue, shut, running, pc, hand>>
lbCounts == <<received, dispatched, perFp>>
fpCounts == <<processed, fpForwarded, fpDropped>>
countVars == <<total, lbCounts, fpCounts, forwarded, dropped, cut>>
tableVars == <<conns, lock>>
ruleVars == <<rules, changes>>
outputVars == <<written, leftEarly, faulted>>
vars == <<capture, threadVars, mainPc, cursor, countVars, tableVars, ruleVars,
          outputVars>>

Ids == 1 .. Len(capture)
Flow(p) == capture[p].tuple
Nothing == 0

\* The connection table of a fast path and what processPacket makes of it.
Tracker(fp) == INSTANCE FlowTracker WITH
    conns <- conns[fp], clock <- 0, Packets <- {},
    StaleAge <- 0, MaxClock <- 0, PacketLimit <- 0,
    seen <- 0, classifiedCount <- 0, blockedCount <- 0, extractions <- 0,
    forwarded <- 0, dropped <- 0, job <- {}, lock <- "none", reset <- FALSE,
    steady <- {}, cut <- {}, last <- <<>>, ended <- {}

\* getLBForPacket and selectFP reduce the same hash.
NextLB(f) == 1 + (total % NumLBs)  \* mutant: the packets take turns
LBForPacket(f) == 1 + (Hash[f] % NumLBs)
SelectFP(lb, f) == NumLBs + (lb - 1) * FpsPerLb + (Hash[f] % FpsPerLb) + 1

-----------------------------------------------------------------------------
(* The queues: ThreadSafeQueue as TSQueue models it. *)

CanPush(t) == Len(queue[t]) < QueueCap \/ shut[t]
Pushed(t, p) == IF shut[t] THEN queue ELSE [queue EXCEPT ![t] = Append(@, p)]

\* Thread t goes from one place to another; the rest is for its action.
Goes(t, from, to) ==
    /\ ~faulted
    /\ pc[t] = from
    /\ pc' = [pc EXCEPT ![t] = to]

TakeAndForget(t, next) ==  \* mutant: the packet is popped but not kept
    /\ queue[t] # <<>>
    /\ Goes(t, "pop", next)
    /\ queue' = [queue EXCEPT ![t] = Tail(@)]
    /\ UNCHANGED hand
Take(t, next) ==
    /\ queue[t] # <<>>
    /\ Goes(t, "pop", next)
    /\ queue' = [queue EXCEPT ![t] = Tail(@)]
    /\ hand' = [hand EXCEPT ![t] = Head(queue[t])]

Push(t, to) ==
    /\ CanPush(to)
    /\ Goes(t, "push", "loop")
    /\ queue' = Pushed(to, hand[t])
    /\ hand' = [hand EXCEPT ![t] = Nothing]

\* popWithTimeout without a packet; a fast path then runs cleanupStale.
PopForever(t) == pc[t] = "pop" /\ queue[t] = <<>> /\ UNCHANGED vars  \* mutant
PopNothing(t) ==
    /\ queue[t] = <<>>
    /\ Goes(t, "pop", "loop")
    /\ conns' = IF t \in FPs
                THEN [conns EXCEPT ![t] = Tracker(t)!Without(Tracker(t)!Gone)]
                ELSE conns
    /\ UNCHANGED <<capture, queue, shut, running, hand, mainPc, cursor,
                   countVars, lock, ruleVars, outputVars>>

\* while (running_); the output thread also empties its queue first.
StaysWhileRunning(t) == running[t]  \* mutant: it leaves its queue behind
Stays(t) == running[t] \/ (t = Output /\ queue[t] # <<>>)
LoopTest(t) ==
    /\ Goes(t, "loop", IF Stays(t) THEN "pop" ELSE "exit")
    /\ leftEarly' = \/ leftEarly
                    \/ /\ t = Output /\ ~Stays(t)
                       /\ \E fp \in FPs : pc[fp] # "exit"
    /\ UNCHANGED <<capture, queue, shut, running, hand, mainPc, cursor,
                   countVars, tableVars, ruleVars, written, faulted>>

-----------------------------------------------------------------------------
(* Load balancers, fast paths, output thread. *)

LBTake(lb) ==
    /\ Take(lb, "push")
    /\ received' = [received EXCEPT ![lb] = @ + 1]
    /\ UNCHANGED <<capture, shut, running, mainPc, cursor, total, dispatched,
                   perFp, fpCounts, forwarded, dropped, cut, tableVars,
                   ruleVars, outputVars>>

\* per_fp_counts_[fp_index]++: outside the vector it hits unmapped memory, or
\* memory nobody misses.
Counted(lb, fp) ==
    /\ perFp' = [perFp EXCEPT ![lb] =
           [i \in DOMAIN @ |-> @[i] + (IF i = fp THEN 1 ELSE 0)]]
    /\ faulted' \in IF fp \in DOMAIN perFp[lb] THEN {FALSE} ELSE BOOLEAN

LBPush(lb) ==
    /\ hand[lb] # Nothing
    /\ LET fp == SelectFP(lb, Flow(hand[lb]))
       IN Push(lb, fp) /\ Counted(lb, fp)
    /\ dispatched' = [dispatched EXCEPT ![lb] = @ + 1]
    /\ UNCHANGED <<capture, shut, running, mainPc, cursor, total, received,
                   fpCounts, forwarded, dropped, cut, tableVars, ruleVars,
                   written, leftEarly>>

FPTake(fp) ==
    /\ Take(fp, "inspect")
    /\ processed' = [processed EXCEPT ![fp] = @ + 1]
    /\ UNCHANGED <<capture, shut, running, mainPc, cursor, total, lbCounts,
                   fpForwarded, fpDropped, forwarded, dropped, cut, tableVars,
                   ruleVars, outputVars>>

\* handleOutput of a packet to drop, and run() after it.
FPDropFallsThrough(fp) ==  \* mutant: handleOutput does not return
    /\ Goes(fp, "inspect", "push")
    /\ dropped' = dropped + 1
    /\ forwarded' = forwarded + 1
    /\ fpDropped' = [fpDropped EXCEPT ![fp] = @ + 1]
    /\ cut' = cut \cup {hand[fp]}
    /\ UNCHANGED hand
FPDrop(fp) ==
    /\ Goes(fp, "inspect", "loop")
    /\ hand' = [hand EXCEPT ![fp] = Nothing]
    /\ dropped' = dropped + 1
    /\ fpDropped' = [fpDropped EXCEPT ![fp] = @ + 1]
    /\ cut' = cut \cup {hand[fp]}
    /\ UNCHANGED forwarded

\* handleOutput of a packet to forward, up to the push.
FPForward(fp) ==
    /\ Goes(fp, "inspect", "push")
    /\ forwarded' = forwarded + 1
    /\ UNCHANGED <<hand, dropped, fpDropped, cut>>

\* processPacket goes on, without a verdict as yet.
FPUndecided(fp) ==
    /\ Goes(fp, "inspect", "inspect")
    /\ UNCHANGED <<hand, dropped, fpDropped, forwarded, cut>>

\* The connection is looked up, updated and inspected.  A blocked one drops
\* the packet at once.
FPLook(fp) ==
    LET p == capture[hand[fp]] IN
    /\ lock[fp] = "none"
    /\ \E table \in Tracker(fp)!Looked(p.tuple) :
          LET c == Tracker(fp)!Touched(table[p.tuple], p) IN
          /\ conns' = [conns EXCEPT ![fp] = [table EXCEPT
                           ![p.tuple] = Tracker(fp)!Inspected(c, p)]]
          /\ \/ c.state = "BLOCKED" /\ FPDrop(fp) /\ UNCHANGED lock
             \/ /\ c.state # "BLOCKED"
                /\ FPUndecided(fp)
                /\ lock' = [lock EXCEPT ![fp] = "ip"]

\* checkRules: the rules of one kind, under their lock.
FPAsk(fp) ==
    LET f == Flow(hand[fp])
        hit == Tracker(fp)!Hit(lock[fp], f, conns[fp][f])
        next == Tracker(fp)!After(lock[fp])
    IN
    /\ lock[fp] # "none"
    /\ \/ /\ hit
          /\ FPDrop(fp)
          /\ conns' = [conns EXCEPT ![fp][f].state = "BLOCKED"]
          /\ lock' = [lock EXCEPT ![fp] = "none"]
       \/ /\ ~hit
          /\ IF next = "none" THEN FPForward(fp) ELSE FPUndecided(fp)
          /\ lock' = [lock EXCEPT ![fp] = next]
          /\ UNCHANGED conns

\* processPacket.
FPInspect(fp) ==
    /\ pc[fp] = "inspect"
    /\ FPLook(fp) \/ FPAsk(fp)
    /\ UNCHANGED <<capture, queue, shut, running, mainPc, cursor, total,
                   lbCounts, processed, fpForwarded, ruleVars, outputVars>>

FPPush(fp) ==
    /\ Push(fp, Output)
    /\ fpForwarded' = [fpForwarded EXCEPT ![fp] = @ + 1]
    /\ UNCHANGED <<capture, shut, running, mainPc, cursor, total, lbCounts,
                   processed, fpDropped, forwarded, dropped, cut, tableVars,
                   ruleVars, outputVars>>

OutputTake ==
    /\ queue[Output] # <<>>
    /\ Goes(Output, "pop", "loop")
    /\ queue' = [queue EXCEPT ![Output] = Tail(@)]
    /\ written' = Append(written, Head(queue[Output]))
    /\ UNCHANGED <<capture, shut, running, hand, mainPc, cursor, countVars,
                   tableVars, ruleVars, leftEarly, faulted>>

-----------------------------------------------------------------------------
(* The reader, and processFile after it. *)

Read ==
    LET p == total + 1
        lb == LBForPacket(Flow(p))
    IN
    /\ ~faulted
    /\ mainPc = "read"
    /\ total < Len(capture)
    /\ CanPush(lb)
    /\ queue' = Pushed(lb, p)
    /\ total' = p
    /\ UNCHANGED <<capture, shut, running, pc, hand, mainPc, cursor, lbCounts,
                   fpCounts, forwarded, dropped, cut, tableVars, ruleVars,
                   outputVars>>

MainGoes(from, to) ==
    /\ ~faulted
    /\ mainPc = from
    /\ mainPc' = to
    /\ UNCHANGED <<capture, queue, pc, hand, countVars, tableVars, ruleVars,
                   outputVars>>

\* waitForCompletion joins the reader and sleeps; stop() clears running_.
WaitForCompletion ==
    /\ total = Len(capture)
    /\ MainGoes("read", "sleep")
    /\ UNCHANGED <<cursor, running, shut>>
StopEngine ==
    /\ MainGoes("sleep", "flag")
    /\ running' = [running EXCEPT ![Output] = FALSE]
    /\ UNCHANGED <<cursor, shut>>

\* stop() of each load balancer and fast path, then of the output queue.
ClearFlag ==
    /\ MainGoes("flag", "shut")
    /\ running' = [running EXCEPT ![cursor] = FALSE]
    /\ UNCHANGED <<cursor, shut>>
ShutQueue ==
    /\ MainGoes("shut", "join")
    /\ shut' = [shut EXCEPT ![cursor] = TRUE]
    /\ UNCHANGED <<cursor, running>>
JoinNobody ==  \* mutant: the thread is left to itself
    /\ MainGoes("join", IF cursor = Output THEN "done" ELSE "flag")
    /\ cursor' = IF cursor = Output THEN cursor ELSE cursor + 1
    /\ UNCHANGED <<running, shut>>
Join ==
    /\ pc[cursor] = "exit"
    /\ MainGoes("join", IF cursor = Output THEN "done" ELSE "flag")
    /\ cursor' = IF cursor = Output THEN cursor ELSE cursor + 1
    /\ UNCHANGED <<running, shut>>

\* The rule API of DPIEngine, called by another thread meanwhile.
ChangeRules ==
    /\ ~faulted
    /\ changes < MaxChanges
    /\ changes' = changes + 1
    /\ \E r \in AllRules : rules' \in {rules \cup {r}, rules \ {r}}
    /\ UNCHANGED <<capture, threadVars, mainPc, cursor, countVars, tableVars,
                   outputVars>>

-----------------------------------------------------------------------------
\* The constructor of LoadBalancer sizes per_fp_counts_ from a parameter that
\* an earlier initializer, that of fp_queues_, has moved from: it is empty.
CountsOf(lb) == {}

Init ==
    /\ capture \in Captures
    /\ queue = [t \in Threads |-> <<>>]
    /\ shut = [t \in Threads |-> FALSE]
    /\ running = [t \in Threads |-> TRUE]
    /\ pc = [t \in Threads |-> "loop"]
    /\ hand = [t \in Threads |-> Nothing]
    /\ mainPc = "read"
    /\ cursor = 1
    /\ total = 0
    /\ received = [lb \in LBs |-> 0]
    /\ dispatched = [lb \in LBs |-> 0]
    /\ perFp = [lb \in LBs |-> [fp \in CountsOf(lb) |-> 0]]
    /\ processed = [fp \in FPs |-> 0]
    /\ fpForwarded = [fp \in FPs |-> 0]
    /\ fpDropped = [fp \in FPs |-> 0]
    /\ forwarded = 0
    /\ dropped = 0
    /\ conns = [fp \in FPs |-> <<>>]
    /\ lock = [fp \in FPs |-> "none"]
    /\ rules \in StartRules
    /\ changes = 0
    /\ cut = {}
    /\ written = <<>>
    /\ leftEarly = FALSE
    /\ faulted = FALSE

LBStep(lb) == LoopTest(lb) \/ PopNothing(lb) \/ LBTake(lb) \/ LBPush(lb)
FPStep(fp) ==
    \/ LoopTest(fp) \/ PopNothing(fp) \/ FPTake(fp)
    \/ FPInspect(fp) \/ FPPush(fp)
OutputStep == LoopTest(Output) \/ PopNothing(Output) \/ OutputTake
MainStep ==
    \/ Read \/ WaitForCompletion \/ StopEngine
    \/ ClearFlag \/ ShutQueue \/ Join
Finished == mainPc = "done" /\ UNCHANGED vars

Next ==
    \/ \E lb \in LBs : LBStep(lb)
    \/ \E fp \in FPs : FPStep(fp)
    \/ OutputStep
    \/ MainStep
    \/ ChangeRules
    \/ Finished

\* The operating system schedules every thread, and every timed wait ends.
Fairness ==
    /\ \A lb \in LBs : WF_vars(LBStep(lb))
    /\ \A fp \in FPs : WF_vars(FPStep(fp))
    /\ WF_vars(OutputStep)
    /\ WF_vars(MainStep)

Spec == Init /\ [][Next]_vars
FairSpec == Spec /\ Fairness

-----------------------------------------------------------------------------
(* Properties. *)

\* Every variable has the type the C++ members have, and a thread that is
\* about to use a packet has one.
TypeOK ==
    /\ capture \in Captures
    /\ queue \in [Threads -> Seq(Ids)]
    /\ shut \in [Threads -> BOOLEAN]
    /\ running \in [Threads -> BOOLEAN]
    /\ pc \in [Threads -> {"loop", "pop", "push", "inspect", "exit"}]
    /\ hand \in [Threads -> Ids \cup {Nothing}]
    /\ \A t \in Threads : pc[t] \in {"push", "inspect"} => hand[t] \in Ids
    /\ mainPc \in {"read", "sleep", "flag", "shut", "join", "done"}
    /\ cursor \in Threads
    /\ total \in 0 .. Len(capture)
    /\ received \in [LBs -> Nat]
    /\ dispatched \in [LBs -> Nat]
    /\ perFp \in [LBs -> [{} -> Nat]]
    /\ processed \in [FPs -> Nat]
    /\ fpForwarded \in [FPs -> Nat]
    /\ fpDropped \in [FPs -> Nat]
    /\ forwarded \in Nat
    /\ dropped \in Nat
    /\ DOMAIN conns = FPs
    /\ \A fp \in FPs :
           /\ DOMAIN conns[fp] \subseteq Tuples
           /\ Cardinality(DOMAIN conns[fp]) <= MaxConnections
           /\ conns[fp] \in [DOMAIN conns[fp] -> Tracker(fp)!Connection]
    /\ lock \in [FPs -> {"ip", "port", "app", "domain", "none"}]
    /\ rules \subseteq AllRules
    /\ changes \in 0 .. MaxChanges
    /\ cut \subseteq Ids
    /\ written \in Seq(Ids)
    /\ leftEarly \in BOOLEAN
    /\ faulted \in BOOLEAN

\* No push reaches a queue that is shut down, so none is discarded, and a
\* load balancer never outlives a fast path ("Stop LB threads first (they
\* feed FPs)", dpi_engine.cpp:91).
StageOrder ==
    /\ \A lb \in LBs, fp \in FPs :
           pc[lb] # "exit" => running[fp] /\ ~shut[fp] /\ pc[fp] # "exit"
    /\ \A fp \in FPs : pc[fp] # "exit" => ~shut[Output]

\* No packet is lost between the stages and the counters of the report agree:
\* what is forwarded and not in the file is on its way to the output thread.
Accounting ==
    LET InQueues(T) == Sum([t \in T |-> Len(queue[t])])
        Holding(T, place) == Cardinality({t \in T : pc[t] = place})
    IN
    /\ total = Sum(received) + InQueues(LBs)
    /\ Sum(received) = Sum(dispatched) + Holding(LBs, "push")
    /\ Sum(dispatched) = Sum(processed) + InQueues(FPs)
    /\ Sum(processed) = forwarded + dropped + Holding(FPs, "inspect")
    /\ forwarded = Len(written) + Len(queue[Output]) + Holding(FPs, "push")

\* The packets of a flow are written in the order of the capture
\* ("Consistent hashing ensures same flow always goes to same FP",
\* load_balancer.h:27).
FlowOrder ==
    \A i, j \in DOMAIN written :
        i < j /\ Flow(written[i]) = Flow(written[j]) => written[i] < written[j]

\* The counters of the final report (dpi_engine.cpp:404-462).  What the fast
\* paths say they forwarded and dropped is what the engine counted.  What it
\* says was forwarded is in the file or was left in the output queue, and it
\* is in the file to the last packet unless the output thread left before a
\* fast path did (dpi_engine.cpp:287).  A connection is in one table only, so
\* that "Active Connections", the sum over the tables, counts none twice.
ReportAgrees ==
    /\ \A a, b \in FPs : a # b => DOMAIN conns[a] \cap DOMAIN conns[b] = {}
    /\ mainPc = "done" =>
           /\ Sum(fpDropped) = dropped
           /\ Sum(fpForwarded) = forwarded
           /\ forwarded = Len(written) + Len(queue[Output])
           /\ ~leftEarly => forwarded = Len(written)

\* "Flow is BLOCKED -> DROP" (README.md:853-862), end to end: after a packet
\* of a flow was dropped, a later one is in the output only if the flow was
\* closed in between, or by that packet, whatever the API did to the rules
\* and however the packets were spread over the threads.  (A full table also
\* forgets a block when it evicts: LeakNeedsReset of FlowTracker.)
CutUntilClosed ==
    LET same(p, q) == Flow(p) = Flow(q)
        flag(p, f) == f \in capture[p].flags
        closes(k) ==
            /\ Flow(k) \in TcpTuples
            /\ \/ flag(k, "RST")
               \/ flag(k, "ACK") /\ \E j \in 1 .. k : same(j, k) /\ flag(j, "FIN")
    IN
    Cardinality(Tuples) <= MaxConnections =>
      \A p \in cut : \A i \in DOMAIN written :
        LET q == written[i] IN
        same(p, q) /\ p < q => \E k \in p + 1 .. q : same(k, p) /\ closes(k)

\* If the process is not killed, processFile returns when the output queue has
\* room for whatever the fast paths may still push once the output thread has
\* left.  (Otherwise the output thread may leave as soon as running_ is cleared
\* and its queue is empty for a moment; a fast path that then fills the queue
\* waits for ever in push, and stop() waits for the fast path.)
StopsIfOutputFits ==
    Len(capture) <= QueueCap => <>(mainPc = "done" \/ faulted)

\* load_balancer.h:61, "Packets sent to each FP": the per-FP counts of a load
\* balancer add up to the packets it dispatched.
PerFpCounted ==
    \A lb \in LBs : Sum(perFp[lb]) = dispatched[lb]
=============================================================================
