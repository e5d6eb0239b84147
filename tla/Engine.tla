------------------------------- MODULE Engine -------------------------------
(***************************************************************************)
(* The packet pipeline of the multi-threaded engine (src/src/dpi_mt.cpp):  *)
(*                                                                         *)
(*   reader (main) --> load balancers --> fast paths --> output writer     *)
(*                                                                         *)
(* Each load balancer and each fast path owns the TSQueue it pops; the     *)
(* output queue is owned by the writer.  process() reads the capture,      *)
(* sleeps, then stops the threads one after the other: running_ = false,   *)
(* queue.shutdown(), join().  Threads are numbered in that order: first    *)
(* the load balancers, then the fast paths, last the writer.               *)
(*                                                                         *)
(* A packet is its index in the capture: its fields never change once the  *)
(* reader has filled them.  Elapsed time is abstracted: the 500 ms sleep   *)
(* and the timed pops may end at any moment.                               *)
(***************************************************************************)
EXTENDS Integers, Sequences, FiniteSetsExt, SequencesExt, Sums

CONSTANTS
    NumLBs,       \* Config::num_lbs
    FpsPerLb,     \* Config::fps_per_lb
    QueueCap,     \* max_size_ of every TSQueue
    Flows,        \* the five-tuples that occur
    Hash,         \* FiveTupleHash, a function of the five-tuple
    SrcIP, SrcPort, DstPort,  \* fields of the five-tuple
    Names,        \* the SNI / Host strings that occur
    EmptyName,    \* the empty string, FlowEntry::sni of a new flow
    NoHost,       \* std::nullopt of the extractors
    AppTypes, UNKNOWN, HTTP, HTTPS, DNS,  \* AppType
    NameApp,      \* sniToAppType, a function of the name
    BlockedIPs, BlockedApps,
    BlockedNames, \* names that contain a blocked domain as a substring
    Limit,        \* quota in bytes of each application that has one
    StartUsages,  \* the usage loadState may have restored
    Captures      \* captures: sequences of [flow, size, host]

ASSUME ShapeAssumption ==
    /\ NumLBs \in Nat \ {0}
    /\ FpsPerLb \in Nat \ {0}
    /\ QueueCap \in Nat \ {0}

ASSUME FlowAssumption ==
    /\ IsFiniteSet(Flows)
    /\ Hash \in [Flows -> Nat]
    /\ DstPort \in [Flows -> Nat]
    /\ SrcPort \in [Flows -> Nat]

ASSUME NameAssumption ==
    /\ EmptyName \in Names
    /\ NoHost \notin Names
    /\ IsFiniteSet(AppTypes)
    /\ {UNKNOWN, HTTP, HTTPS, DNS} \subseteq AppTypes
    /\ NameApp \in [Names -> AppTypes]

QuotaApps == DOMAIN Limit
Packet == [flow : Flows, size : Nat, host : Names \cup {NoHost}]

ASSUME QuotaAssumption ==
    /\ QuotaApps \subseteq AppTypes
    /\ Limit \in [QuotaApps -> Nat]
    /\ StartUsages \subseteq [QuotaApps -> Nat]

ASSUME CaptureAssumption == Captures \subseteq Seq(Packet)

-----------------------------------------------------------------------------
(* The threads, numbered in the order process() stops them. *)

NumFPs == NumLBs * FpsPerLb
LBs == 1 .. NumLBs
FPs == NumLBs + 1 .. NumLBs + NumFPs
Writer == NumLBs + NumFPs + 1
Threads == 1 .. Writer

VARIABLES
    capture,     \* the packets of the input file that carry TCP or UDP
    queue,       \* the input queue each thread owns
    shut,        \* shutdown_ of that queue
    running,     \* running_ of each thread; output_running of the writer
    pc, hand,    \* where each thread is, and the packet it holds
    mainPc, cursor, \* where process() is, and the thread it is stopping
    total,       \* total_packets, and pkt_id: packets read so far
    flows,       \* flows_ of each fast path
    usage,       \* QuotaManager::usage_
    dispatched,  \* dispatched_ of each load balancer
    processed,   \* processed_ of each fast path
    forwarded, dropped, appCounts, detected, \* Stats
    written,     \* the packets in the output file, in order
    start, passed \* history: usage at the start, quota bytes let through

threadVars == <<queue, shut, running, pc, hand>>
mainVars == <<mainPc, cursor>>
statVars == <<forwarded, dropped, appCounts, detected>>
quotaVars == <<usage, start, passed>>
inspectVars == <<flows, quotaVars, statVars>>
vars == <<capture, threadVars, mainVars, total, inspectVars, dispatched,
          processed, written>>

\* The reader's choice of load balancer, and a load balancer's choice among
\* the FpsPerLb fast paths it was given.  Both reduce the same hash.
SelectLB(f) == 1 + (Hash[f] % NumLBs)
RoundRobinFP(lb, f) ==  \* mutant: the packets are spread, not the flows
    NumLBs + (lb - 1) * FpsPerLb + (dispatched[lb] % FpsPerLb) + 1
SelectFP(lb, f) == NumLBs + (lb - 1) * FpsPerLb + (Hash[f] % FpsPerLb) + 1

Flow(p) == capture[p].flow
Nothing == 0

FlowEntry == [app : AppTypes, sni : Names, blocked : BOOLEAN,
              classified : BOOLEAN]
NewFlow == [app |-> UNKNOWN, sni |-> EmptyName, blocked |-> FALSE,
            classified |-> FALSE]

-----------------------------------------------------------------------------
(* TSQueue::push as the other threads see it: it waits for room or for the *)
(* shutdown, and a queue that is shut down loses the item.                 *)

\* mutant: room is only noticed while the consumer is waiting
CanPushAwaited(t) == (pc[t] = "pop" /\ queue[t] = <<>>) \/ shut[t]
CanPush(t) == Len(queue[t]) < QueueCap \/ shut[t]
Pushed(t, p) ==
    IF shut[t] THEN queue
    ELSE [queue EXCEPT ![t] = Append(@, p)]

\* mutant: the item is popped but not kept
TakeAndForget(t, next) ==
    /\ pc[t] = "pop"
    /\ queue[t] # <<>>
    /\ queue' = [queue EXCEPT ![t] = Tail(@)]
    /\ pc' = [pc EXCEPT ![t] = next]
    /\ UNCHANGED hand

\* TSQueue::pop with an item: whatever the flags, the front leaves.
Take(t, next) ==
    /\ pc[t] = "pop"
    /\ queue[t] # <<>>
    /\ hand' = [hand EXCEPT ![t] = Head(queue[t])]
    /\ queue' = [queue EXCEPT ![t] = Tail(@)]
    /\ pc' = [pc EXCEPT ![t] = next]

\* mutant: a pop without a timeout that the shutdown does not wake
PopForever(t) == pc[t] = "pop" /\ queue[t] = <<>> /\ UNCHANGED vars

\* pop returns nothing: timed out, or shut down and empty.
PopNothing(t) ==
    /\ pc[t] = "pop"
    /\ queue[t] = <<>>
    /\ pc' = [pc EXCEPT ![t] = "loop"]
    /\ UNCHANGED <<capture, queue, shut, running, hand, mainVars, total,
                   inspectVars, dispatched, processed, written>>

MayLeaveAtOnce(t) == ~running[t]  \* mutant: nor does the writer stay
\* while (running_); the writer also stays for what its queue still holds.
MayLeave(t) == ~running[t] /\ (t = Writer => queue[t] = <<>>)
LoopTest(t) ==
    /\ pc[t] = "loop"
    /\ pc' = [pc EXCEPT ![t] = IF MayLeave(t) THEN "exit" ELSE "pop"]
    /\ UNCHANGED <<capture, queue, shut, running, hand, mainVars, total,
                   inspectVars, dispatched, processed, written>>

-----------------------------------------------------------------------------
(* Load balancers. *)

LBTake(lb) ==
    /\ Take(lb, "push")
    /\ UNCHANGED <<capture, shut, running, mainVars, total, inspectVars,
                   dispatched, processed, written>>

LBPush(lb) ==
    LET fp == SelectFP(lb, Flow(hand[lb])) IN
    /\ pc[lb] = "push"
    /\ CanPush(fp)
    /\ queue' = Pushed(fp, hand[lb])
    /\ hand' = [hand EXCEPT ![lb] = Nothing]
    /\ dispatched' = [dispatched EXCEPT ![lb] = @ + 1]
    /\ pc' = [pc EXCEPT ![lb] = "loop"]
    /\ UNCHANGED <<capture, shut, running, mainVars, total, inspectVars,
                   processed, written>>

-----------------------------------------------------------------------------
(* Fast paths. *)

FPTake(fp) ==
    /\ Take(fp, "inspect")
    /\ processed' = [processed EXCEPT ![fp] = @ + 1]
    /\ UNCHANGED <<capture, shut, running, mainVars, total, inspectVars,
                   dispatched, written>>

\* mutant: the guess by port ends the search for a name
ClassifyByPort(f, host, e) ==
    IF host # NoHost /\ DstPort[f] \in {80, 443}
    THEN [e EXCEPT !.sni = host, !.app = NameApp[host], !.classified = TRUE]
    ELSE [e EXCEPT !.classified = TRUE,
                   !.app = IF 53 \in {SrcPort[f], DstPort[f]} THEN DNS
                           ELSE IF DstPort[f] = 443 THEN HTTPS
                           ELSE IF DstPort[f] = 80 THEN HTTP ELSE @]
\* classifyFlow: a name in the payload, else DNS by port, else a guess from
\* the destination port that leaves the flow unclassified.
Classify(f, host, e) ==
    IF host # NoHost /\ DstPort[f] \in {80, 443}
    THEN [e EXCEPT !.sni = host, !.app = NameApp[host], !.classified = TRUE]
    ELSE IF 53 \in {SrcPort[f], DstPort[f]}
    THEN [e EXCEPT !.app = DNS, !.classified = TRUE]
    ELSE [e EXCEPT !.app = IF DstPort[f] = 443 THEN HTTPS
                           ELSE IF DstPort[f] = 80 THEN HTTP ELSE @]

\* Rules::isBlocked
IsBlocked(f, e) ==
    \/ SrcIP[f] \in BlockedIPs
    \/ e.app \in BlockedApps
    \/ e.sni \in BlockedNames

Identify(p, e) ==
    IF e.classified THEN e ELSE Classify(Flow(p), capture[p].host, e)

\* QuotaManager::recordAndCheck: usage grows by the packet, then the new
\* usage is compared; an application without a quota is not recorded.
Recorded(app, bytes) ==
    IF app \in QuotaApps THEN [usage EXCEPT ![app] = @ + bytes] ELSE usage
OverQuotaBefore(app, bytes) ==  \* mutant: the old usage is compared
    app \in QuotaApps /\ usage[app] > Limit[app]
OverQuota(app, bytes) ==
    app \in QuotaApps /\ usage[app] + bytes > Limit[app]

RecordClassified(e) ==  \* mutant: unclassified flows are not counted
    /\ appCounts' = IF e.classified THEN [appCounts EXCEPT ![e.app] = @ + 1]
                    ELSE appCounts
    /\ detected' = detected \cup ({e.sni} \ {EmptyName})
\* Stats::recordApp
RecordApp(e) ==
    /\ appCounts' = [appCounts EXCEPT ![e.app] = @ + 1]
    /\ detected' = detected \cup ({e.sni} \ {EmptyName})

ChargedAnyway(f, e) == e.classified  \* mutant: cut flows are charged too
Charged(f, e) == ~e.blocked /\ ~IsBlocked(f, e) /\ e.classified

\* The handler from the flow lookup to the verdict.  The flow table is
\* private to the thread and the rules do not change while it runs; the only
\* shared state is the usage (one critical section) and the counters.
Verdict(fp, p, e) ==
    LET bytes == capture[p].size
        charge == Charged(Flow(p), e)
        cut == \/ e.blocked
               \/ IsBlocked(Flow(p), e)
               \/ charge /\ OverQuota(e.app, bytes)
    IN
    /\ flows' = [flows EXCEPT ![fp][Flow(p)] = [e EXCEPT !.blocked = cut]]
    /\ usage' = IF charge THEN Recorded(e.app, bytes) ELSE usage
    /\ RecordApp(e)
    /\ \/ /\ cut
          /\ dropped' = dropped + 1
          /\ hand' = [hand EXCEPT ![fp] = Nothing]
          /\ pc' = [pc EXCEPT ![fp] = "loop"]
          /\ UNCHANGED <<forwarded, passed>>
       \/ /\ ~cut
          /\ forwarded' = forwarded + 1
          /\ passed' = IF charge /\ e.app \in QuotaApps
                       THEN [passed EXCEPT ![e.app] = @ + bytes] ELSE passed
          /\ pc' = [pc EXCEPT ![fp] = "push"]
          /\ UNCHANGED <<dropped, hand>>

FPInspect(fp) ==
    /\ pc[fp] = "inspect"
    /\ Verdict(fp, hand[fp], Identify(hand[fp], flows[fp][Flow(hand[fp])]))
    /\ UNCHANGED <<capture, queue, shut, running, mainVars, total, start,
                   dispatched, processed, written>>

FPPush(fp) ==
    /\ pc[fp] = "push"
    /\ CanPush(Writer)
    /\ queue' = Pushed(Writer, hand[fp])
    /\ hand' = [hand EXCEPT ![fp] = Nothing]
    /\ pc' = [pc EXCEPT ![fp] = "loop"]
    /\ UNCHANGED <<capture, shut, running, mainVars, total, inspectVars,
                   dispatched, processed, written>>

-----------------------------------------------------------------------------
(* The output writer: the popped packet goes to the file at once. *)

WriterTake ==
    /\ pc[Writer] = "pop"
    /\ queue[Writer] # <<>>
    /\ written' = Append(written, Head(queue[Writer]))
    /\ queue' = [queue EXCEPT ![Writer] = Tail(@)]
    /\ pc' = [pc EXCEPT ![Writer] = "loop"]
    /\ UNCHANGED <<capture, shut, running, hand, mainVars, total,
                   inspectVars, dispatched, processed>>

-----------------------------------------------------------------------------
(* process(): the reader loop, the sleep, then stop() of each thread. *)

Read ==
    LET p == total + 1
        lb == SelectLB(Flow(p))
    IN
    /\ mainPc = "read"
    /\ total < Len(capture)
    /\ CanPush(lb)
    /\ queue' = Pushed(lb, p)
    /\ total' = p
    /\ UNCHANGED <<capture, shut, running, pc, hand, mainVars, inspectVars,
                   dispatched, processed, written>>

MainGoes(from, to) ==
    /\ mainPc = from
    /\ mainPc' = to
    /\ UNCHANGED <<capture, queue, pc, hand, total, inspectVars, dispatched,
                   processed, written>>

EndOfFile ==
    /\ total = Len(capture)
    /\ MainGoes("read", "sleep")
    /\ UNCHANGED <<cursor, running, shut>>

Sleep ==
    /\ MainGoes("sleep", "flag")
    /\ UNCHANGED <<cursor, running, shut>>

ClearFlag ==
    /\ MainGoes("flag", "shut")
    /\ running' = [running EXCEPT ![cursor] = FALSE]
    /\ UNCHANGED <<cursor, shut>>

Shutdown ==
    /\ MainGoes("shut", "join")
    /\ shut' = [shut EXCEPT ![cursor] = TRUE]
    /\ UNCHANGED <<cursor, running>>

JoinNobody ==  \* mutant: the thread is left to itself
    /\ MainGoes("join", IF cursor = Writer THEN "done" ELSE "flag")
    /\ cursor' = IF cursor = Writer THEN cursor ELSE cursor + 1
    /\ UNCHANGED <<running, shut>>

Join ==
    /\ pc[cursor] = "exit"
    /\ MainGoes("join", IF cursor = Writer THEN "done" ELSE "flag")
    /\ cursor' = IF cursor = Writer THEN cursor ELSE cursor + 1
    /\ UNCHANGED <<running, shut>>

-----------------------------------------------------------------------------
Init ==
    /\ capture \in Captures
    /\ queue = [t \in Threads |-> <<>>]
    /\ shut = [t \in Threads |-> FALSE]
    /\ running = [t \in Threads |-> TRUE]
    /\ pc = [t \in Threads |-> "loop"]
    /\ hand = [t \in Threads |-> Nothing]
    /\ mainPc = "read"
    /\ cursor = 1
    /\ total = 0
    /\ flows = [fp \in FPs |-> [f \in Flows |-> NewFlow]]
    /\ usage \in StartUsages
    /\ start = usage
    /\ passed = [a \in QuotaApps |-> 0]
    /\ dispatched = [lb \in LBs |-> 0]
    /\ processed = [fp \in FPs |-> 0]
    /\ forwarded = 0
    /\ dropped = 0
    /\ appCounts = [a \in AppTypes |-> 0]
    /\ detected = {}
    /\ written = <<>>

LBStep(lb) == LoopTest(lb) \/ PopNothing(lb) \/ LBTake(lb) \/ LBPush(lb)
FPStep(fp) ==
    LoopTest(fp) \/ PopNothing(fp) \/ FPTake(fp) \/ FPInspect(fp) \/ FPPush(fp)
WriterStep == LoopTest(Writer) \/ PopNothing(Writer) \/ WriterTake
MainStep == Read \/ EndOfFile \/ Sleep \/ ClearFlag \/ Shutdown \/ Join
Finished == mainPc = "done" /\ UNCHANGED vars

Next ==
    \/ \E lb \in LBs : LBStep(lb)
    \/ \E fp \in FPs : FPStep(fp)
    \/ WriterStep
    \/ MainStep
    \/ Finished

\* The operating system schedules every thread, and every timed pop ends.
\* How long the sleep takes is left open, so that a property can say what a
\* sleep that is long enough achieves.
Fairness ==
    /\ \A lb \in LBs : WF_vars(LBStep(lb))
    /\ \A fp \in FPs : WF_vars(FPStep(fp))
    /\ WF_vars(WriterStep)
    /\ WF_vars(mainPc # "sleep" /\ MainStep)

Spec == Init /\ [][Next]_vars
FairSpec == Spec /\ Fairness
-----------------------------------------------------------------------------
(* Properties. *)

Places == {"loop", "pop", "push", "inspect", "exit"}
Ids == 1 .. Len(capture)

\* Every variable has the type the C++ members have.
TypeOK ==
    /\ capture \in Captures
    /\ queue \in [Threads -> Seq(Ids)]
    /\ shut \in [Threads -> BOOLEAN]
    /\ running \in [Threads -> BOOLEAN]
    /\ pc \in [Threads -> Places]
    /\ hand \in [Threads -> Ids \cup {Nothing}]
    /\ \A t \in Threads : pc[t] \in {"push", "inspect"} => hand[t] \in Ids
    /\ mainPc \in {"read", "sleep", "flag", "shut", "join", "done"}
    /\ cursor \in Threads
    /\ total \in 0 .. Len(capture)
    /\ flows \in [FPs -> [Flows -> FlowEntry]]
    /\ usage \in [QuotaApps -> Nat]
    /\ start \in StartUsages
    /\ passed \in [QuotaApps -> Nat]
    /\ dispatched \in [LBs -> Nat]
    /\ processed \in [FPs -> Nat]
    /\ forwarded \in Nat
    /\ dropped \in Nat
    /\ appCounts \in [AppTypes -> Nat]
    /\ detected \subseteq Names
    /\ written \in Seq(Ids)

\* process() stops the threads upstream first (dpi_mt.cpp:520-526), so a
\* thread that can still push finds its consumer alive: no packet is pushed
\* to a queue that is shut down, and none waits for a consumer that left.
ShutdownOrder ==
    /\ \A lb \in LBs, fp \in FPs :
           pc[lb] # "exit" => running[fp] /\ ~shut[fp] /\ pc[fp] # "exit"
    /\ \A fp \in FPs :
           pc[fp] # "exit" =>
               running[Writer] /\ ~shut[Writer] /\ pc[Writer] # "exit"
    /\ mainPc = "read" => \A lb \in LBs : running[lb] /\ ~shut[lb]

\* Every packet the reader counted is in exactly one of: a queue, a thread's
\* hands, the drop count, the output file; and the counters of the report
\* agree with one another (dpi_mt.cpp:557-630).
Accounting ==
    LET InQueues(T) == Sum([t \in T |-> Len(queue[t])])
        Holding(place) == Cardinality({t \in Threads : pc[t] = place})
    IN
    /\ total = dropped + Len(written) + InQueues(Threads)
                 + Holding("push") + Holding("inspect")
    /\ forwarded = Len(written) + Len(queue[Writer])
                     + Cardinality({fp \in FPs : pc[fp] = "push"})
    /\ Sum(processed) = forwarded + dropped + Holding("inspect")
    /\ Sum(dispatched) = Sum(processed) + InQueues(FPs)
    /\ Sum(appCounts) = forwarded + dropped

\* README.md:990: "Forwarded" is the number of packets written to the output
\* file.  True of the report, which is printed after the writer was joined.
ForwardedIsWritten == mainPc = "done" => forwarded = Len(written)

\* The bytes of an application with a quota that its identified flows got
\* through in this run, added to the usage at the start, never exceed the
\* quota, whichever fast paths carried them and in whatever order.
QuotaRespected ==
    \A a \in QuotaApps :
        passed[a] > 0 => start[a] + passed[a] <= Limit[a]

\* The usage that is saved exceeds the quota (or what was already used) by
\* at most one packet per flow that was cut: a cut flow is charged no more.
UsageOvershoot ==
    LET size(p) == capture[p].size
        biggest == Max({0} \cup {size(p) : p \in Ids})
        entry(f) == flows[SelectFP(SelectLB(f), f)][f]
        cutFlows(a) == {f \in Flows :
            entry(f).app = a /\ entry(f).classified /\ entry(f).blocked}
    IN
    \A a \in QuotaApps :
        usage[a] <= Max({Limit[a], start[a]})
                      + biggest * Cardinality(cutFlows(a))

\* README.md:853-862: once a flow has shown a blocked name, neither that
\* packet nor a later one of the flow is in the output, although the packets
\* went through three queues and as many threads.
BlockedFlowSilent ==
    LET named(p) == capture[p].host # NoHost
        first(p) == \A r \in 1 .. p - 1 : Flow(r) = Flow(p) => ~named(r)
        blockedName(n) == n \in BlockedNames \/ NameApp[n] \in BlockedApps
    IN
    \A p \in Ids :
        (/\ named(p) /\ first(p) /\ blockedName(capture[p].host)
         /\ DstPort[Flow(p)] \in {80, 443} /\ SrcPort[Flow(p)] # 53)
        => \A i \in DOMAIN written :
               Flow(written[i]) = Flow(p) => written[i] < p

\* The sleep is meant to let the queues drain (dpi_mt.cpp:517): a run that
\* has finished has left no packet behind.  It is only a fixed delay.
Drained == mainPc = "done" => \A t \in Threads : queue[t] = <<>>

\* Once its sleep has ended process() returns, whatever the threads do: nobody
\* waits for ever on a full queue, an empty queue or a join.
Termination == []<>(mainPc # "sleep") => <>(mainPc = "done")

\* The sleep does what it is there for if it is long enough: the threads that
\* are left alone bring every packet to the file or to the drop count, however
\* small the queues are (dpi_mt.cpp:517, "Wait for queues to drain").
SleepDrains ==
    <>[](mainPc = "sleep") =>
        <>(mainPc = "sleep" /\ total = dropped + Len(written))

\* The engine implements FlowChannel: a flow's packets take one path, and
\* what that path holds, oldest first, is the flow's channel.
Held(t, place) == IF pc[t] = place THEN <<hand[t]>> ELSE <<>>
OfFlow(s, f) ==
    LET upTo[n \in 0 .. Len(s)] ==
            IF n = 0 THEN <<>>
            ELSE IF Flow(s[n]) = f THEN Append(upTo[n - 1], s[n])
            ELSE upTo[n - 1]
    IN upTo[Len(s)]
FlowPending(f) ==
    LET lb == SelectLB(f)
        fp == SelectFP(lb, f)
    IN OfFlow(Held(fp, "inspect") \o queue[fp]
              \o Held(lb, "push") \o queue[lb], f)
FlowTransit(f) ==
    OfFlow(queue[Writer] \o Held(SelectFP(SelectLB(f), f), "push"), f)

Channel == INSTANCE FlowChannel WITH
    accepted <- total,
    pending <- [f \in Flows |-> FlowPending(f)],
    cut <- [f \in Flows |-> flows[SelectFP(SelectLB(f), f)][f].blocked],
    transit <- [f \in Flows |-> FlowTransit(f)],
    delivered <- [f \in Flows |-> OfFlow(written, f)],
    closed <- mainPc = "done"

\* Each flow sees an ordered, lossless, at-most-once channel that stays cut
\* once it is cut.
ImplementsFlowChannel == Channel!Spec
=============================================================================
