---------------------------- MODULE Engine_proof ----------------------------
(***************************************************************************)
(* Theorems about Engine: the stop order, the quotas, the accounting, the  *)
(* order of the packets of a flow, what becomes of a flow that is blocked, *)
(* and what the usage comes to.                                            *)
(***************************************************************************)
EXTENDS Engine, FiniteSetTheorems, SequenceTheorems, WellFoundedInduction, TLAPS

-----------------------------------------------------------------------------
(* The thread numbers. *)

\* The thread numbers.
LEMMA Shape ==
    /\ NumFPs \in Nat
    /\ LBs \subseteq Threads
    /\ FPs \subseteq Threads
    /\ Writer \in Threads
    /\ 1 \in Threads
    /\ \A lb \in LBs, fp \in FPs : lb < fp /\ fp < Writer /\ lb < Writer
<1>1. NumLBs \in Nat \ {0} /\ FpsPerLb \in Nat \ {0}
  BY ShapeAssumption
<1>2. NumFPs \in Nat
  BY <1>1 DEF NumFPs
<1>. QED
  BY <1>1, <1>2 DEF LBs, FPs, Writer, Threads

\* Multiplication is monotonic: the arithmetic the block routing needs.
LEMMA Blocks ==
    ASSUME NEW n \in Nat, NEW k \in Nat, NEW i \in 1 .. n, NEW r \in 0 .. k - 1
    PROVE  (i - 1) * k + r + 1 \in 1 .. n * k
<1>1. /\ (i - 1) * k \in Nat
      /\ n * k \in Nat
      /\ (n - i) * k \in Nat
  OBVIOUS
<1>2. n * k = (i - 1) * k + k + (n - i) * k
  OBVIOUS
<1>. QED
  BY <1>1, <1>2

\* The hash always selects an existing thread: the reader a load balancer,
\* and a load balancer one of the fast paths.
LEMMA Routing ==
    ASSUME NEW f \in Flows
    PROVE  /\ SelectLB(f) \in LBs
           /\ \A lb \in LBs : SelectFP(lb, f) \in FPs
<1>. USE ShapeAssumption, FlowAssumption
<1>1. SelectLB(f) \in LBs
  BY DEF SelectLB, LBs
<1>2. ASSUME NEW lb \in LBs PROVE SelectFP(lb, f) \in FPs
  <2>1. Hash[f] % FpsPerLb \in 0 .. FpsPerLb - 1
    OBVIOUS
  <2>2. (lb - 1) * FpsPerLb + (Hash[f] % FpsPerLb) + 1 \in 1 .. NumFPs
    BY <2>1, Blocks DEF LBs, NumFPs
  <2>3. (lb - 1) * FpsPerLb \in Nat
    BY DEF LBs
  <2>. QED
    BY <2>1, <2>2, <2>3, Shape DEF SelectFP, FPs
<1>. QED
  BY <1>1, <1>2

\* With as many fast paths below each load balancer as there are load balancers
\* (two of each by default, dpi_mt.cpp:365-366), the second remainder of the
\* hash (dpi_mt.cpp:351) is the first one again (dpi_mt.cpp:510): all the flows
\* of a load balancer go to the same one of its fast paths, and the others
\* never get a packet, whatever the flows.
THEOREM OneFastPathEach ==
    ASSUME NumLBs = FpsPerLb
    PROVE  \A f, g \in Flows :
               SelectLB(f) = SelectLB(g) =>
                   SelectFP(SelectLB(f), f) = SelectFP(SelectLB(g), g)
<1>1. SUFFICES ASSUME NEW f \in Flows, NEW g \in Flows,
                      SelectLB(f) = SelectLB(g)
               PROVE  SelectFP(SelectLB(f), f) = SelectFP(SelectLB(g), g)
  OBVIOUS
<1>2. Hash[f] % NumLBs = Hash[g] % NumLBs
  <2>1. Hash[f] % NumLBs \in Int /\ Hash[g] % NumLBs \in Int
    BY ShapeAssumption, FlowAssumption
  <2>. QED
    BY <1>1, <2>1 DEF SelectLB
<1>. QED
  BY <1>1, <1>2 DEF SelectFP

-----------------------------------------------------------------------------
(* Type correctness. *)

\* Looking a flow up and identifying it yields a flow entry.
LEMMA IdentifyType ==
    ASSUME NEW p, capture[p] \in Packet, NEW e \in FlowEntry
    PROVE  Flow(p) \in Flows /\ Identify(p, e) \in FlowEntry
<1>. USE NameAssumption
<1>1. Flow(p) \in Flows /\ capture[p].host \in Names \cup {NoHost}
  BY DEF Flow, Packet
<1>2. ASSUME NEW f, NEW h \in Names \cup {NoHost}
      PROVE  Classify(f, h, e) \in FlowEntry
  <2>1. ASSUME NEW a \in AppTypes
        PROVE  /\ [e EXCEPT !.app = a] \in FlowEntry
               /\ [e EXCEPT !.app = a, !.classified = TRUE] \in FlowEntry
    BY <2>1 DEF FlowEntry
  <2>2. CASE h # NoHost /\ DstPort[f] \in {80, 443}
    <3>1. h \in Names /\ NameApp[h] \in AppTypes
      BY <2>2
    <3>2. Classify(f, h, e) = [e EXCEPT !.sni = h, !.app = NameApp[h],
                                        !.classified = TRUE]
      BY <2>2 DEF Classify
    <3>. QED
      BY <3>1, <3>2 DEF FlowEntry
  <2>3. CASE /\ ~(h # NoHost /\ DstPort[f] \in {80, 443})
             /\ 53 \in {SrcPort[f], DstPort[f]}
    <3>1. Classify(f, h, e) = [e EXCEPT !.app = DNS, !.classified = TRUE]
      BY <2>3 DEF Classify
    <3>. QED
      BY <3>1, <2>1
  <2>4. CASE /\ ~(h # NoHost /\ DstPort[f] \in {80, 443})
             /\ 53 \notin {SrcPort[f], DstPort[f]}
    <3>. DEFINE guess == IF DstPort[f] = 443 THEN HTTPS
                         ELSE IF DstPort[f] = 80 THEN HTTP ELSE e.app
    <3>1. Classify(f, h, e) = [e EXCEPT !.app = guess]
      BY <2>4 DEF Classify
    <3>2. guess \in AppTypes
      BY DEF FlowEntry
    <3>. HIDE DEF guess
    <3>. QED
      BY <3>1, <3>2, <2>1
  <2>. QED
    BY <2>2, <2>3, <2>4
<1>. QED
  BY <1>1, <1>2 DEF Identify

\* The types hold at the start.
LEMMA TypeInit == Init => TypeOK
<1>. SUFFICES ASSUME Init PROVE TypeOK
  OBVIOUS
<1>. USE Shape, NameAssumption, QuotaAssumption DEF Init
<1>1. /\ queue \in [Threads -> Seq(Ids)]
      /\ hand \in [Threads -> Ids \cup {Nothing}]
      /\ pc \in [Threads -> Places]
      /\ \A t \in Threads : pc[t] = "loop"
  BY DEF Places, Nothing
<1>2. total \in 0 .. Len(capture)
  BY CaptureAssumption
<1>3. flows \in [FPs -> [Flows -> FlowEntry]]
  BY DEF NewFlow, FlowEntry
<1>4. /\ usage \in [QuotaApps -> Nat]
      /\ start \in StartUsages
      /\ passed \in [QuotaApps -> Nat]
  OBVIOUS
<1>. QED
  BY <1>1, <1>2, <1>3, <1>4 DEF TypeOK

\* What a thread holds between its pop and its push is a packet.
LEMMA PacketType ==
    ASSUME TypeOK, NEW p \in Ids
    PROVE  capture[p] \in Packet /\ Flow(p) \in Flows
<1>1. capture \in Seq(Packet)
  BY CaptureAssumption DEF TypeOK
<1>2. capture[p] \in Packet
  BY <1>1 DEF Ids
<1>. QED
  BY <1>2 DEF Packet, Flow

\* A pop leaves a queue of packets and puts a packet in the thread's hands.
LEMMA TakeType ==
    ASSUME TypeOK, NEW t \in Threads, NEW next \in {"push", "inspect"},
           Take(t, next)
    PROVE  /\ queue' \in [Threads -> Seq(Ids)]
           /\ hand' \in [Threads -> Ids \cup {Nothing}]
           /\ pc' \in [Threads -> Places]
           /\ \A u \in Threads :
                  pc'[u] \in {"push", "inspect"} => hand'[u] \in Ids
<1>1. Head(queue[t]) \in Ids /\ Tail(queue[t]) \in Seq(Ids)
  BY DEF Take, TypeOK
<1>. QED
  BY <1>1 DEF Take, TypeOK, Places

\* A load balancer keeps them.
LEMMA TypeLBStep ==
    ASSUME TypeOK, NEW lb \in LBs, LBStep(lb)
    PROVE  TypeOK'
<1>. USE Shape DEF TypeOK, Places, Ids, vars, threadVars, mainVars,
             inspectVars, quotaVars, statVars
<1>1. CASE LoopTest(lb)
  BY <1>1 DEF LoopTest
<1>2. CASE PopNothing(lb)
  BY <1>2 DEF PopNothing
<1>3. CASE LBTake(lb)
  BY <1>3, TakeType DEF LBTake
<1>4. CASE LBPush(lb)
  <2>. DEFINE fp == SelectFP(lb, Flow(hand[lb]))
  <2>1. hand[lb] \in Ids /\ fp \in Threads
    BY <1>4, PacketType, Routing DEF LBPush
  <2>2. queue' \in [Threads -> Seq(Ids)]
    BY <1>4, <2>1 DEF LBPush, Pushed
  <2>3. dispatched' \in [LBs -> Nat]
    BY <1>4 DEF LBPush
  <2>4. /\ hand' \in [Threads -> Ids \cup {Nothing}]
        /\ pc' \in [Threads -> Places]
        /\ \A t \in Threads : pc'[t] \in {"push", "inspect"} => hand'[t] \in Ids
    BY <1>4 DEF LBPush
  <2>. QED
    BY <1>4, <2>2, <2>3, <2>4 DEF LBPush
<1>. QED
  BY <1>1, <1>2, <1>3, <1>4 DEF LBStep

\* The verdict keeps the types of the flow table, the quota and the counters.
LEMMA TypeInspect ==
    ASSUME TypeOK, NEW fp \in FPs, FPInspect(fp)
    PROVE  TypeOK'
<1>. DEFINE p == hand[fp]
            e == Identify(p, flows[fp][Flow(p)])
            bytes == capture[p].size
<1>1. p \in Ids /\ Flow(p) \in Flows /\ bytes \in Nat /\ e \in FlowEntry
  <2>1. p \in Ids
    BY Shape DEF FPInspect, TypeOK
  <2>2. capture[p] \in Packet /\ Flow(p) \in Flows
    BY <2>1, PacketType
  <2>3. flows[fp][Flow(p)] \in FlowEntry
    BY <2>2 DEF TypeOK
  <2>. QED
    BY <2>1, <2>2, <2>3, IdentifyType DEF Packet
<1>2. Verdict(fp, p, e)
  BY DEF FPInspect
<1>3. flows' \in [FPs -> [Flows -> FlowEntry]]
  <2>. DEFINE cut == \/ e.blocked
                     \/ IsBlocked(Flow(p), e)
                     \/ Charged(Flow(p), e) /\ OverQuota(e.app, bytes)
              seen == [e EXCEPT !.blocked = cut]
  <2>1. cut \in BOOLEAN
    BY <1>1 DEF IsBlocked, OverQuota, Charged, FlowEntry
  <2>2. seen \in FlowEntry
    BY <1>1, <2>1 DEF FlowEntry
  <2>3. flows' = [flows EXCEPT ![fp][Flow(p)] = seen]
    BY <1>2 DEF Verdict
  <2>. HIDE DEF seen
  <2>. QED
    BY <1>1, <2>2, <2>3 DEF TypeOK
<1>. HIDE DEF e
<1>4. usage' \in [QuotaApps -> Nat]
  BY <1>1, <1>2 DEF Verdict, Recorded, TypeOK
<1>5. appCounts' \in [AppTypes -> Nat] /\ detected' \subseteq Names
  BY <1>1, <1>2 DEF Verdict, RecordApp, FlowEntry, TypeOK
<1>6. /\ forwarded' \in Nat
      /\ dropped' \in Nat
      /\ passed' \in [QuotaApps -> Nat]
  <2>1. \/ forwarded' = forwarded /\ dropped' = dropped + 1
        \/ forwarded' = forwarded + 1 /\ dropped' = dropped
    BY <1>2 DEF Verdict
  <2>2. \/ passed' = passed
        \/ passed' = [passed EXCEPT ![e.app] = @ + bytes]
    BY <1>2 DEF Verdict
  <2>3. passed \in [QuotaApps -> Nat] /\ forwarded \in Nat /\ dropped \in Nat
    BY DEF TypeOK
  <2>4. passed' \in [QuotaApps -> Nat]
    BY <1>1, <2>2, <2>3
  <2>. QED
    BY <2>1, <2>3, <2>4
<1>7. \/ /\ hand' = [hand EXCEPT ![fp] = Nothing]
         /\ pc' = [pc EXCEPT ![fp] = "loop"]
      \/ hand' = hand /\ pc' = [pc EXCEPT ![fp] = "push"]
  BY <1>2 DEF Verdict
<1>8. /\ hand' \in [Threads -> Ids \cup {Nothing}]
      /\ pc' \in [Threads -> Places]
      /\ \A t \in Threads : pc'[t] \in {"push", "inspect"} => hand'[t] \in Ids
  BY <1>1, <1>7, Shape DEF TypeOK, Places
<1>. QED
  BY <1>3, <1>4, <1>5, <1>6, <1>8 DEF FPInspect, TypeOK, Ids, mainVars

\* A fast path keeps them.
LEMMA TypeFPStep ==
    ASSUME TypeOK, NEW fp \in FPs, FPStep(fp)
    PROVE  TypeOK'
<1>1. CASE FPInspect(fp)
  BY <1>1, TypeInspect
<1>. USE Shape DEF TypeOK, Places, Ids, vars, threadVars, mainVars,
             inspectVars, quotaVars, statVars
<1>2. CASE LoopTest(fp)
  BY <1>2 DEF LoopTest
<1>3. CASE PopNothing(fp)
  BY <1>3 DEF PopNothing
<1>4. CASE FPTake(fp)
  <2>1. /\ queue' \in [Threads -> Seq(Ids)]
        /\ hand' \in [Threads -> Ids \cup {Nothing}]
        /\ pc' \in [Threads -> Places]
        /\ \A t \in Threads :
               pc'[t] \in {"push", "inspect"} => hand'[t] \in Ids
    BY <1>4, TakeType DEF FPTake
  <2>2. processed' \in [FPs -> Nat]
    BY <1>4 DEF FPTake
  <2>. QED
    BY <1>4, <2>1, <2>2 DEF FPTake
<1>5. CASE FPPush(fp)
  <2>1. hand[fp] \in Ids
    BY <1>5 DEF FPPush
  <2>2. queue' \in [Threads -> Seq(Ids)]
    BY <1>5, <2>1 DEF FPPush, Pushed
  <2>. QED
    BY <1>5, <2>2 DEF FPPush
<1>. QED
  BY <1>1, <1>2, <1>3, <1>4, <1>5 DEF FPStep

\* The writer and process() keep them.
LEMMA TypeOtherSteps ==
    ASSUME TypeOK, WriterStep \/ MainStep \/ Finished \/ UNCHANGED vars
    PROVE  TypeOK'
<1>. USE Shape DEF TypeOK, Places, Ids, vars, threadVars, mainVars,
             inspectVars, quotaVars, statVars
<1>1. CASE LoopTest(Writer)
  BY <1>1 DEF LoopTest
<1>2. CASE PopNothing(Writer)
  BY <1>2 DEF PopNothing
<1>3. CASE WriterTake
  BY <1>3 DEF WriterTake
<1>4. CASE Read
  <2>. DEFINE p == total + 1
              lb == SelectLB(Flow(p))
  <2>1. p \in Ids
    BY <1>4, CaptureAssumption DEF Read
  <2>2. lb \in Threads
    BY <2>1, PacketType, Routing
  <2>3. queue' \in [Threads -> Seq(Ids)]
    BY <1>4, <2>1, <2>2 DEF Read, Pushed
  <2>. QED
    BY <1>4, <2>1, <2>3 DEF Read
<1>5. CASE EndOfFile \/ Sleep
  BY <1>5 DEF EndOfFile, Sleep, MainGoes
<1>6. CASE ClearFlag \/ Shutdown
  BY <1>6 DEF ClearFlag, Shutdown, MainGoes
<1>7. CASE Join
  <2>1. cursor' \in Threads
    BY <1>7 DEF Join, Writer, Threads
  <2>. QED
    BY <1>7, <2>1 DEF Join, MainGoes
<1>8. CASE Finished \/ UNCHANGED vars
  BY <1>8 DEF Finished
<1>. QED
  BY <1>1, <1>2, <1>3, <1>4, <1>5, <1>6, <1>7, <1>8 DEF WriterStep, MainStep

\* TypeOK is inductive.
LEMMA TypeNext == TypeOK /\ [Next]_vars => TypeOK'
  BY TypeLBStep, TypeFPStep, TypeOtherSteps DEF Next

\* Every reachable state of the pipeline is well typed: in particular each
\* packet goes to a thread that exists and what a thread works on between a
\* pop and a push is a packet of the capture.
THEOREM TypeCorrect == Spec => []TypeOK
<1>. QED
  BY TypeInit, TypeNext, PTL DEF Spec

-----------------------------------------------------------------------------
(* The order of the shutdown.  ShutdownOrder alone is not inductive: it has *)
(* to be known how far process() has got.  Threads before the cursor have   *)
(* left, those after it have not been touched.                              *)

\* How far the shutdown has come.
StopInv ==
    /\ \A t \in Threads : t < cursor => pc[t] = "exit"
    /\ \A t \in Threads : cursor < t => running[t] /\ ~shut[t]
    /\ mainPc \in {"read", "sleep", "flag"} => running[cursor]
    /\ mainPc \in {"read", "sleep", "flag", "shut"} => ~shut[cursor]
    /\ mainPc = "read" => cursor = 1
    /\ mainPc = "sleep" => cursor = 1
    /\ \A t \in Threads : pc[t] = "exit" => ~running[t]

\* It is stronger than what is promised.
LEMMA StopImpliesOrder == TypeOK /\ StopInv => ShutdownOrder
<1>. SUFFICES ASSUME TypeOK, StopInv PROVE ShutdownOrder
  OBVIOUS
<1>0. cursor \in Threads /\ \A t \in Threads : t \in Int
  BY DEF TypeOK, Threads
<1>1. ASSUME NEW lb \in LBs, NEW fp \in FPs, pc[lb] # "exit"
      PROVE  running[fp] /\ ~shut[fp] /\ pc[fp] # "exit"
  <2>1. cursor < fp
    BY <1>0, <1>1, Shape DEF StopInv
  <2>. QED
    BY <2>1, Shape DEF StopInv
<1>2. ASSUME NEW fp \in FPs, pc[fp] # "exit"
      PROVE  running[Writer] /\ ~shut[Writer] /\ pc[Writer] # "exit"
  <2>0. fp < Writer
    BY Shape, ShapeAssumption DEF FPs, Writer
  <2>1. cursor < Writer
    BY <1>0, <1>2, <2>0, Shape DEF StopInv
  <2>. QED
    BY <2>1, Shape DEF StopInv
<1>3. ASSUME NEW lb \in LBs, mainPc = "read"
      PROVE  running[lb] /\ ~shut[lb]
  <2>1. lb = cursor \/ cursor < lb
    BY <1>3 DEF StopInv, LBs
  <2>. QED
    BY <1>3, <2>1, Shape DEF StopInv
<1>. QED
  BY <1>1, <1>2, <1>3 DEF ShutdownOrder

\* At the start nobody was stopped.
LEMMA StopInit == Init => StopInv
  BY Shape DEF Init, StopInv, Threads

\* A thread leaves only through its loop test, which reads its own flag.
LEMMA StopThread ==
    ASSUME TypeOK, StopInv, NEW t \in Threads,
           UNCHANGED <<running, shut, mainVars>>,
           \/ LoopTest(t)
           \/ /\ pc[t] # "exit"
              /\ \E next \in Places \ {"exit"} :
                     pc' = [pc EXCEPT ![t] = next]
    PROVE  StopInv'
<1>1. \A u \in Threads : pc[u] = "exit" => pc'[u] = "exit"
  BY DEF LoopTest, TypeOK
<1>2. \A u \in Threads : pc'[u] = "exit" => pc[u] = "exit" \/ ~running[u]
  BY DEF LoopTest, MayLeave, TypeOK
<1>. QED
  BY <1>1, <1>2 DEF StopInv, mainVars

\* process() keeps it.
LEMMA StopMain ==
    ASSUME TypeOK, StopInv, MainStep
    PROVE  StopInv'
<1>. USE DEF TypeOK, StopInv, mainVars
<1>0. \A t \in Threads : t \in Int
  BY DEF Threads
<1>1. CASE Read
  BY <1>1 DEF Read
<1>2. CASE EndOfFile \/ Sleep
  BY <1>2 DEF EndOfFile, Sleep, MainGoes
<1>3. CASE ClearFlag
  BY <1>0, <1>3 DEF ClearFlag, MainGoes
<1>4. CASE Shutdown
  BY <1>0, <1>4 DEF Shutdown, MainGoes
<1>5. CASE Join
  <2>1. CASE cursor = Writer
    BY <1>5, <2>1 DEF Join, MainGoes
  <2>2. CASE cursor # Writer
    <3>1. /\ cursor' = cursor + 1
          /\ cursor' \in Threads
          /\ mainPc' = "flag"
          /\ pc[cursor] = "exit"
      BY <1>5, <2>2, Shape DEF Join, MainGoes, Threads, Writer
    <3>2. \A t \in Threads : t < cursor' => t < cursor \/ t = cursor
      BY <1>0, <3>1
    <3>3. \A t \in Threads : cursor' < t => cursor < t
      BY <1>0, <3>1
    <3>4. cursor < cursor'
      BY <1>0, <3>1
    <3>. QED
      BY <1>5, <3>1, <3>2, <3>3, <3>4 DEF Join, MainGoes
  <2>. QED
    BY <2>1, <2>2
<1>. QED
  BY <1>1, <1>2, <1>3, <1>4, <1>5 DEF MainStep

\* StopInv is inductive.
LEMMA StopNext == TypeOK /\ StopInv /\ [Next]_vars => StopInv'
<1>. SUFFICES ASSUME TypeOK, StopInv, [Next]_vars PROVE StopInv'
  OBVIOUS
<1>. USE DEF Places, mainVars
<1>1. ASSUME NEW lb \in LBs, LBStep(lb) PROVE StopInv'
  <2>1. lb \in Threads
    BY Shape
  <2>2. UNCHANGED <<running, shut, mainVars>>
    BY <1>1 DEF LBStep, LoopTest, PopNothing, LBTake, Take, LBPush
  <2>3. \/ LoopTest(lb)
        \/ pc[lb] # "exit" /\ \E next \in Places \ {"exit"} :
                                  pc' = [pc EXCEPT ![lb] = next]
    BY <1>1 DEF LBStep, PopNothing, LBTake, Take, LBPush
  <2>. QED
    BY <2>1, <2>2, <2>3, StopThread
<1>2. ASSUME NEW fp \in FPs, FPStep(fp) PROVE StopInv'
  <2>1. fp \in Threads
    BY Shape
  <2>2. UNCHANGED <<running, shut, mainVars>>
    BY <1>2 DEF FPStep, LoopTest, PopNothing, FPTake, Take, FPInspect, FPPush
  <2>3. \/ LoopTest(fp)
        \/ pc[fp] # "exit" /\ \E next \in Places \ {"exit"} :
                                  pc' = [pc EXCEPT ![fp] = next]
    BY <1>2 DEF FPStep, PopNothing, FPTake, Take, FPInspect, Verdict, FPPush
  <2>. QED
    BY <2>1, <2>2, <2>3, StopThread
<1>3. CASE WriterStep
  <2>2. UNCHANGED <<running, shut, mainVars>>
    BY <1>3 DEF WriterStep, LoopTest, PopNothing, WriterTake
  <2>3. \/ LoopTest(Writer)
        \/ pc[Writer] # "exit" /\ \E next \in Places \ {"exit"} :
                                  pc' = [pc EXCEPT ![Writer] = next]
    BY <1>3 DEF WriterStep, PopNothing, WriterTake
  <2>. QED
    BY <2>2, <2>3, StopThread, Shape
<1>4. CASE MainStep
  BY <1>4, StopMain
<1>5. CASE Finished \/ UNCHANGED vars
  BY <1>5 DEF Finished, vars, threadVars, StopInv
<1>. QED
  BY <1>1, <1>2, <1>3, <1>4, <1>5 DEF Next

\* For every number of threads, stopping them in pipeline order keeps each
\* thread's consumer alive for as long as the thread may push: no packet is
\* lost in a push to a queue that is shut down.
THEOREM ConsumersOutliveProducers == Spec => []ShutdownOrder
<1>1. TypeOK /\ StopInv => ShutdownOrder
  BY StopImpliesOrder
<1>2. Spec => []StopInv
  BY StopInit, StopNext, TypeCorrect, PTL DEF Spec
<1>. QED
  BY <1>1, <1>2, TypeCorrect, PTL

-----------------------------------------------------------------------------
(* The quota.  What got through was charged before it was compared, by      *)
(* whichever fast path: the usage covers it, and it was within the quota    *)
(* when the last packet that got through was charged.                       *)

\* QuotaRespected with what the usage covers.
QuotaInv ==
    \A a \in QuotaApps :
        /\ start[a] + passed[a] <= usage[a]
        /\ passed[a] > 0 => start[a] + passed[a] <= Limit[a]

\* Nothing has passed at the start.
LEMMA QuotaInit == Init => QuotaInv
  BY QuotaAssumption DEF Init, QuotaInv

\* The verdict of one fast path, as far as the quota goes.
LEMMA QuotaVerdict ==
    ASSUME TypeOK, QuotaInv, NEW fp \in FPs, FPInspect(fp)
    PROVE  QuotaInv'
<1>. DEFINE p == hand[fp]
            e == Identify(p, flows[fp][Flow(p)])
            bytes == capture[p].size
            charge == Charged(Flow(p), e)
<1>1. Verdict(fp, p, e) /\ start' = start
  BY DEF FPInspect
<1>2. bytes \in Nat
  <2>1. p \in Ids
    BY Shape DEF FPInspect, TypeOK
  <2>. QED
    BY <2>1, PacketType DEF Packet
<1>3. /\ usage \in [QuotaApps -> Nat]
      /\ passed \in [QuotaApps -> Nat]
      /\ start \in [QuotaApps -> Nat]
      /\ Limit \in [QuotaApps -> Nat]
  BY QuotaAssumption DEF TypeOK
<1>4. usage' = IF charge THEN Recorded(e.app, bytes) ELSE usage
  BY <1>1 DEF Verdict
<1>5. passed' = passed \/ /\ charge
                          /\ e.app \in QuotaApps
                          /\ ~OverQuota(e.app, bytes)
                          /\ passed' = [passed EXCEPT ![e.app] = @ + bytes]
  BY <1>1 DEF Verdict
<1>. HIDE DEF charge, e, bytes
<1>6. CASE passed' = passed
  <2>1. \A a \in QuotaApps : usage'[a] >= usage[a]
    BY <1>2, <1>3, <1>4 DEF Recorded
  <2>2. usage' \in [QuotaApps -> Nat]
    BY <1>2, <1>3, <1>4 DEF Recorded
  <2>. QED
    BY <1>1, <1>3, <1>6, <2>1, <2>2 DEF QuotaInv
<1>7. CASE /\ charge
           /\ e.app \in QuotaApps
           /\ ~OverQuota(e.app, bytes)
           /\ passed' = [passed EXCEPT ![e.app] = @ + bytes]
  <2>1. usage' = [usage EXCEPT ![e.app] = @ + bytes]
    BY <1>4, <1>7 DEF Recorded
  <2>2. usage[e.app] + bytes <= Limit[e.app]
    BY <1>2, <1>3, <1>7 DEF OverQuota
  <2>. QED
    BY <1>1, <1>2, <1>3, <1>7, <2>1, <2>2 DEF QuotaInv
<1>. QED
  BY <1>5, <1>6, <1>7

\* QuotaInv is inductive: a verdict charges and compares in one step.
LEMMA QuotaNext == TypeOK /\ QuotaInv /\ [Next]_vars => QuotaInv'
<1>. SUFFICES ASSUME TypeOK, QuotaInv, [Next]_vars PROVE QuotaInv'
  OBVIOUS
<1>1. CASE \E fp \in FPs : FPInspect(fp)
  BY <1>1, QuotaVerdict
<1>2. CASE ~\E fp \in FPs : FPInspect(fp)
  <2>. USE DEF vars, threadVars, mainVars, inspectVars, quotaVars, statVars
  <2>1. ASSUME NEW lb \in LBs, LBStep(lb) PROVE UNCHANGED quotaVars
    BY <2>1 DEF LBStep, LoopTest, PopNothing, LBTake, LBPush
  <2>2. ASSUME NEW fp \in FPs, FPStep(fp) PROVE UNCHANGED quotaVars
    BY <1>2, <2>2 DEF FPStep, LoopTest, PopNothing, FPTake, FPPush
  <2>3. ASSUME WriterStep PROVE UNCHANGED quotaVars
    BY <2>3 DEF WriterStep, LoopTest, PopNothing, WriterTake
  <2>4. ASSUME MainStep PROVE UNCHANGED quotaVars
    BY <2>4 DEF MainStep, Read, EndOfFile, Sleep, ClearFlag, Shutdown, Join,
                MainGoes
  <2>5. ASSUME Finished \/ UNCHANGED vars PROVE UNCHANGED quotaVars
    BY <2>5 DEF Finished
  <2>6. UNCHANGED quotaVars
    BY <2>1, <2>2, <2>3, <2>4, <2>5 DEF Next
  <2>. QED
    BY <2>6 DEF QuotaInv
<1>. QED
  BY <1>1, <1>2

\* Whatever the fast paths do at once, the packets of identified flows that
\* are let through never take an application past its quota.
THEOREM QuotaNeverExceeded == Spec => []QuotaRespected
<1>1. TypeOK /\ QuotaInv => QuotaRespected
  BY DEF QuotaInv, QuotaRespected
<1>2. Spec => []QuotaInv
  BY QuotaInit, QuotaNext, TypeCorrect, PTL DEF Spec
<1>. QED
  BY <1>1, <1>2, TypeCorrect, PTL

-----------------------------------------------------------------------------
(* The steps of the pipeline. *)

\* The fast path of a flow.
Home(f) == SelectFP(SelectLB(f), f)

\* The threads are told apart by their numbers.
LEMMA Apart ==
    /\ \A lb \in LBs, fp \in FPs : lb # fp
    /\ \A lb \in LBs : lb \in Threads /\ lb # Writer
    /\ \A fp \in FPs : fp \in Threads /\ fp # Writer
    /\ Writer \in Threads
<1>1. NumLBs \in Nat \ {0} /\ NumFPs \in Nat
  BY Shape, ShapeAssumption
<1>. QED
  BY <1>1, Shape DEF LBs, FPs, Writer

\* Every flow has its load balancer and its fast path.
LEMMA Routes ==
    ASSUME TypeOK, NEW p \in Ids
    PROVE  SelectLB(Flow(p)) \in LBs /\ Home(Flow(p)) \in FPs
  BY PacketType, Routing DEF Home

\* Every other step leaves the packets where they are.
Idle ==
    /\ UNCHANGED <<capture, queue, hand, written, total, inspectVars,
                   dispatched, processed>>
    /\ \/ UNCHANGED pc
       \/ \E t \in Threads, a, b \in {"loop", "pop", "exit"} :
              pc[t] = a /\ pc' = [pc EXCEPT ![t] = b]

\* The steps of the system, sorted by what they do to the packets.
LEMMA StepsSorted ==
    ASSUME TypeOK, [Next]_vars
    PROVE  \/ Read
           \/ \E lb \in LBs : LBTake(lb) \/ LBPush(lb)
           \/ \E fp \in FPs : FPTake(fp) \/ FPInspect(fp) \/ FPPush(fp)
           \/ WriterTake
           \/ Idle
<1>. USE DEF vars, threadVars, mainVars
<1>1. ASSUME NEW t \in Threads, LoopTest(t) \/ PopNothing(t) PROVE Idle
  <2>1. UNCHANGED <<capture, queue, hand, written, total, inspectVars,
                    dispatched, processed>>
    BY <1>1 DEF LoopTest, PopNothing
  <2>2. \E a, b \in {"loop", "pop", "exit"} : pc[t] = a /\ pc' = [pc EXCEPT ![t] = b]
    BY <1>1 DEF LoopTest, PopNothing
  <2>. QED
    BY <2>1, <2>2 DEF Idle
<1>2. ASSUME EndOfFile \/ Sleep \/ ClearFlag \/ Shutdown \/ Join \/ Finished
             \/ UNCHANGED vars
      PROVE  Idle
  BY <1>2 DEF EndOfFile, Sleep, ClearFlag, Shutdown, Join, MainGoes, Finished, Idle
<1>3. ASSUME NEW lb \in LBs, LBStep(lb) PROVE LBTake(lb) \/ LBPush(lb) \/ Idle
  BY <1>1, <1>3, Shape DEF LBStep
<1>4. ASSUME NEW fp \in FPs, FPStep(fp)
      PROVE  FPTake(fp) \/ FPInspect(fp) \/ FPPush(fp) \/ Idle
  BY <1>1, <1>4, Shape DEF FPStep
<1>5. WriterStep => WriterTake \/ Idle
  BY <1>1, Shape DEF WriterStep
<1>6. MainStep => Read \/ Idle
  BY <1>2 DEF MainStep
<1>. QED
  BY <1>2, <1>3, <1>4, <1>5, <1>6 DEF Next

-----------------------------------------------------------------------------
(* Every packet is accounted for: the counters of the report and the        *)
(* packets in queues, in hands and in the file (Accounting).                *)

\* Sums of finitely many natural numbers.
Cells(f) == UNION {{x} \X (1 .. f[x]) : x \in DOMAIN f}

\* The cells of a sum are finitely many, f[x] of them for each x.
LEMMA SumFinite ==
    ASSUME NEW S, IsFiniteSet(S), NEW f \in [S -> Nat]
    PROVE  /\ IsFiniteSet(Cells(f)) /\ Sum(f) = Cardinality(Cells(f))
           /\ Sum(f) \in Nat
           /\ \A x, i : <<x, i>> \in Cells(f) <=> x \in S /\ i \in 1 .. f[x]
<1>. DEFINE cell == [x \in S |-> {x} \X (1 .. f[x])]
            All == {cell[x] : x \in S}
<1>1. DOMAIN f = S
  OBVIOUS
<1>2. IsFiniteSet(All)
  <2>1. cell \in Surjection(S, All)
    BY DEF Surjection
  <2>. QED
    BY <2>1, FS_Surjection
<1>3. ASSUME NEW x \in S PROVE IsFiniteSet(cell[x])
  <2>1. f[x] \in Int /\ IsFiniteSet(1 .. f[x])
    BY FS_Interval
  <2>2. IsFiniteSet({x})
    BY FS_Singleton
  <2>. QED
    BY <2>1, <2>2, FS_Product
<1>4. IsFiniteSet(UNION All)
  BY <1>2, <1>3, FS_UNION
<1>5. Cells(f) = UNION All
  BY <1>1 DEF Cells
<1>6. Sum(f) = Cardinality(Cells(f))
  BY DEF Sum, Cells
<1>7. \A x, i : <<x, i>> \in Cells(f) <=> x \in S /\ i \in 1 .. f[x]
  BY <1>1 DEF Cells
<1>. QED
  BY <1>4, <1>5, <1>6, <1>7, FS_CardinalityType

\* One more at x is one more in the sum.
LEMMA SumUp ==
    ASSUME NEW S, IsFiniteSet(S), NEW f \in [S -> Nat], NEW x \in S
    PROVE  Sum([f EXCEPT ![x] = @ + 1]) = Sum(f) + 1
<1>. DEFINE g == [f EXCEPT ![x] = @ + 1]
            c == <<x, f[x] + 1>>
<1>1. g \in [S -> Nat] /\ f[x] \in Nat /\ g[x] = f[x] + 1
      /\ \A y \in S \ {x} : g[y] = f[y]
  OBVIOUS
<1>. HIDE DEF g
<1>0. /\ \A y, i : <<y, i>> \in Cells(f) <=> y \in S /\ i \in 1 .. f[y]
      /\ IsFiniteSet(Cells(f)) /\ Sum(f) = Cardinality(Cells(f))
  BY SumFinite
<1>00. /\ \A y, i : <<y, i>> \in Cells(g) <=> y \in S /\ i \in 1 .. g[y]
       /\ Sum(g) = Cardinality(Cells(g))
  BY <1>1, SumFinite
<1>2. \A y, i : <<y, i>> \in Cells(g) <=> <<y, i>> \in Cells(f) \/ (y = x /\ i = f[x] + 1)
  <2>1. \A i : i \in 1 .. g[x] <=> i \in 1 .. f[x] \/ i = f[x] + 1
    BY <1>1
  <2>. QED
    BY <1>0, <1>00, <1>1, <2>1
<1>3. \A z : z \in Cells(f) \/ z \in Cells(g) => \E y, i : z = <<y, i>>
  BY DEF Cells
<1>4. Cells(g) = Cells(f) \cup {c}
  BY <1>2, <1>3
<1>5. c \notin Cells(f)
  BY <1>0, <1>1
<1>6. Cardinality(Cells(g)) = Cardinality(Cells(f)) + 1
  <2>. DEFINE A == Cells(f)
  <2>1. IsFiniteSet(A) /\ c \notin A
    BY <1>0, <1>5
  <2>. HIDE DEF A, c
  <2>2. Cardinality(A \cup {c}) = Cardinality(A) + 1
    BY <2>1, FS_AddElement
  <2>. QED
    BY <1>4, <2>2 DEF A
<1>. QED
  BY <1>0, <1>00, <1>6 DEF g

\* One less at x is one less in the sum.
LEMMA SumDown ==
    ASSUME NEW S, IsFiniteSet(S), NEW f \in [S -> Nat], NEW x \in S, f[x] > 0
    PROVE  Sum([f EXCEPT ![x] = @ - 1]) = Sum(f) - 1
<1>. DEFINE g == [f EXCEPT ![x] = @ - 1]
<1>1. g \in [S -> Nat] /\ f = [g EXCEPT ![x] = @ + 1]
  <2>1. f[x] \in Nat /\ f[x] - 1 \in Nat /\ f[x] - 1 + 1 = f[x]
    OBVIOUS
  <2>2. /\ g \in [S -> Nat] /\ g[x] = f[x] - 1
        /\ \A y \in S \ {x} : g[y] = f[y]
    BY <2>1
  <2>. HIDE DEF g
  <2>3. \A y \in S : f[y] = [g EXCEPT ![x] = @ + 1][y]
    BY <2>1, <2>2
  <2>. QED
    BY <2>2, <2>3
<1>. HIDE DEF g
<1>2. Sum(f) = Sum(g) + 1
  BY <1>1, SumUp
<1>3. Sum(g) \in Nat
  BY <1>1, SumFinite
<1>. QED
  BY <1>2, <1>3 DEF g

\* A sum of zeros is zero.
LEMMA SumZero ==
    ASSUME NEW S, IsFiniteSet(S)
    PROVE  Sum([x \in S |-> 0]) = 0
<1>. DEFINE f == [x \in S |-> 0]
<1>1. f \in [S -> Nat] /\ \A x \in S : f[x] = 0
  OBVIOUS
<1>. HIDE DEF f
<1>2. Cells(f) = {}
  <2>1. \A z \in Cells(f) : \E x, i : z = <<x, i>>
    BY DEF Cells
  <2>. QED
    BY <1>1, <2>1, SumFinite
<1>. QED
  BY <1>1, <1>2, SumFinite, FS_EmptySet DEF f

\* What the packets in queues and in hands come to.
InQueues(T) == Sum([t \in T |-> Len(queue[t])])
\* The threads at a place.
Holders(T, place) == {t \in T : pc[t] = place}
\* How many they are.
Holding(T, place) == Cardinality(Holders(T, place))

\* There are finitely many threads and application types.
LEMMA FiniteThreads ==
    /\ IsFiniteSet(Threads) /\ IsFiniteSet(LBs) /\ IsFiniteSet(FPs)
    /\ IsFiniteSet(AppTypes)
    /\ FPs \subseteq Threads /\ LBs \subseteq Threads
  BY Shape, ShapeAssumption, NameAssumption, FS_Interval
  DEF Threads, LBs, FPs, Writer

\* One packet more, or one less, in a queue.
LEMMA QueueChange ==
    ASSUME TypeOK, NEW t \in Threads, NEW T \in SUBSET Threads,
           NEW x \in Ids
    PROVE  /\ InQueues(T) \in Nat
           /\ queue' = [queue EXCEPT ![t] = Append(queue[t], x)]
              => /\ InQueues(T)' = InQueues(T) + (IF t \in T THEN 1 ELSE 0)
                 /\ Len(queue'[t]) = Len(queue[t]) + 1
           /\ queue[t] # <<>> /\ queue' = [queue EXCEPT ![t] = Tail(queue[t])]
              => /\ InQueues(T)' = InQueues(T) - (IF t \in T THEN 1 ELSE 0)
                 /\ Len(queue'[t]) = Len(queue[t]) - 1
<1>. DEFINE f == [u \in T |-> Len(queue[u])]
            g == [u \in T |-> Len(queue'[u])]
<1>1. queue \in [Threads -> Seq(Ids)]
  BY DEF TypeOK
<1>2. f \in [T -> Nat] /\ IsFiniteSet(T)
  <2>1. IsFiniteSet(T)
    BY FiniteThreads, FS_Subset
  <2>. QED
    BY <1>1, <2>1
<1>3. InQueues(T) = Sum(f) /\ InQueues(T)' = Sum(g)
  BY DEF InQueues, Sum
<1>4. Sum(f) \in Nat
  BY <1>2, SumFinite
<1>5. ASSUME queue' = [queue EXCEPT ![t] = Append(queue[t], x)]
      PROVE  /\ Sum(g) = Sum(f) + (IF t \in T THEN 1 ELSE 0)
             /\ Len(queue'[t]) = Len(queue[t]) + 1
  <2>1. Len(queue'[t]) = Len(queue[t]) + 1 /\ \A u \in T \ {t} : queue'[u] = queue[u]
    BY <1>1, <1>5
  <2>2. CASE t \in T
    <3>1. g = [f EXCEPT ![t] = @ + 1]
      BY <2>1, <2>2
    <3>. HIDE DEF f, g
    <3>. QED
      BY <1>2, <2>1, <2>2, <3>1, SumUp
  <2>3. CASE t \notin T
    <3>1. g = f
      BY <2>1, <2>3
    <3>. QED
      BY <1>4, <2>1, <2>3, <3>1
  <2>. QED
    BY <2>2, <2>3
<1>6. ASSUME queue[t] # <<>>, queue' = [queue EXCEPT ![t] = Tail(queue[t])]
      PROVE  /\ Sum(g) = Sum(f) - (IF t \in T THEN 1 ELSE 0)
             /\ Len(queue'[t]) = Len(queue[t]) - 1
  <2>1. /\ Len(queue'[t]) = Len(queue[t]) - 1 /\ Len(queue[t]) > 0
        /\ \A u \in T \ {t} : queue'[u] = queue[u]
    BY <1>1, <1>6
  <2>2. CASE t \in T
    <3>1. g = [f EXCEPT ![t] = @ - 1] /\ f[t] > 0
      BY <2>1, <2>2
    <3>. HIDE DEF f, g
    <3>. QED
      BY <1>2, <2>1, <2>2, <3>1, SumDown
  <2>3. CASE t \notin T
    <3>1. g = f
      BY <2>1, <2>3
    <3>. QED
      BY <1>4, <2>1, <2>3, <3>1
  <2>. QED
    BY <2>2, <2>3
<1>. HIDE DEF f, g
<1>. QED
  BY <1>3, <1>4, <1>5, <1>6

\* One thread goes from one place to another.
LEMMA PlaceChange ==
    ASSUME TypeOK, NEW t \in Threads, NEW T \in SUBSET Threads, NEW place,
           \A u \in Threads \ {t} : pc'[u] = pc[u]
    PROVE  /\ Holding(T, place) \in Nat
           /\ Holding(T, place)' =
                  Holding(T, place)
                  + (IF t \in T /\ pc'[t] = place THEN 1 ELSE 0)
                  - (IF t \in T /\ pc[t] = place THEN 1 ELSE 0)
<1>. DEFINE A == Holders(T, place)
            B == {u \in T : pc'[u] = place}
<1>1. IsFiniteSet(T) /\ IsFiniteSet(A) /\ Cardinality(A) \in Nat
  <2>1. IsFiniteSet(T)
    BY FiniteThreads, FS_Subset
  <2>2. A \subseteq T
    BY DEF Holders
  <2>. QED
    BY <2>1, <2>2, FS_Subset, FS_CardinalityType
<1>2. Holding(T, place) = Cardinality(A) /\ Holding(T, place)' = Cardinality(B)
  BY DEF Holding, Holders
<1>3. t \in A <=> t \in T /\ pc[t] = place
  BY DEF Holders
<1>4. \A u \in T \ {t} : u \in B <=> u \in A
  BY DEF Holders, TypeOK
<1>5. t \in B <=> t \in T /\ pc'[t] = place
  OBVIOUS
<1>6. A \subseteq T /\ B \subseteq T
  BY DEF Holders
<1>. HIDE DEF A, B
<1>7. CASE t \in B /\ t \notin A
  <2>1. B = A \cup {t}
    BY <1>4, <1>6, <1>7
  <2>2. Cardinality(B) = Cardinality(A) + 1
    BY <1>1, <1>7, <2>1, FS_AddElement
  <2>. QED
    BY <1>1, <1>2, <1>3, <1>5, <1>7, <2>2
<1>8. CASE t \in A /\ t \notin B
  <2>1. B = A \ {t}
    BY <1>4, <1>6, <1>8
  <2>2. Cardinality(B) = Cardinality(A) - 1
    BY <1>1, <1>8, <2>1, FS_RemoveElement
  <2>. QED
    BY <1>1, <1>2, <1>3, <1>5, <1>8, <2>2
<1>9. CASE t \in A <=> t \in B
  <2>1. B = A
    BY <1>4, <1>6, <1>9
  <2>. QED
    BY <1>1, <1>2, <1>3, <1>5, <1>9, <2>1
<1>. QED
  BY <1>7, <1>8, <1>9

\* The amounts: packets in all queues and in those of the fast paths, in the
\* hands of all threads that push, of the fast paths that push, of those that
\* judge, in the queue of the writer and in the file; and what was counted.
Waiting == InQueues(Threads)
Inbound == InQueues(FPs)
Carried == Holding(Threads, "push")
Outgoing == Holding(FPs, "push")
Judging == Holding(Threads, "inspect")
AtWriter == Len(queue[Writer])
InFile == Len(written)
Processed == Sum(processed)
Dispatched == Sum(dispatched)
Counted == Sum(appCounts)

\* Accounting in these amounts; it is inductive.
CountInv ==
    /\ total = dropped + InFile + Waiting + Carried + Judging
    /\ forwarded = InFile + AtWriter + Outgoing
    /\ Processed = forwarded + dropped + Judging
    /\ Dispatched = Processed + Inbound
    /\ Counted = forwarded + dropped

\* The equations between the amounts are Accounting.
LEMMA CountIsAccounting == CountInv <=> Accounting
  BY DEF CountInv, Accounting, InQueues, Holding, Holders, Waiting, Inbound,
         Carried, Outgoing, Judging, AtWriter, InFile, Processed, Dispatched,
         Counted

\* Every amount is a natural number.
LEMMA Amounts ==
    ASSUME TypeOK
    PROVE  /\ total \in Nat /\ dropped \in Nat /\ forwarded \in Nat
           /\ InFile \in Nat /\ AtWriter \in Nat
           /\ Waiting \in Nat /\ Inbound \in Nat
           /\ Carried \in Nat
           /\ Judging \in Nat
           /\ Outgoing \in Nat
           /\ Processed \in Nat /\ Dispatched \in Nat
           /\ Counted \in Nat
<1>1. /\ \A t \in Threads : Len(queue[t]) \in Nat
      /\ InFile \in Nat /\ total \in Nat /\ dropped \in Nat
      /\ forwarded \in Nat
  BY DEF TypeOK, InFile
<1>2. Waiting \in Nat /\ Inbound \in Nat
  <2>1. /\ [t \in Threads |-> Len(queue[t])] \in [Threads -> Nat]
        /\ [t \in FPs |-> Len(queue[t])] \in [FPs -> Nat]
    BY <1>1, FiniteThreads
  <2>. QED
    BY <2>1, FiniteThreads, SumFinite DEF InQueues, Waiting, Inbound
<1>3. ASSUME NEW place
      PROVE  Holding(Threads, place) \in Nat /\ Holding(FPs, place) \in Nat
  <2>1. Holders(Threads, place) \subseteq Threads /\ Holders(FPs, place) \subseteq FPs
    BY DEF Holders
  <2>. QED
    BY <2>1, FiniteThreads, FS_Subset, FS_CardinalityType DEF Holding
<1>4. /\ Processed \in Nat /\ Dispatched \in Nat
      /\ Counted \in Nat
  BY FiniteThreads, SumFinite DEF TypeOK, Processed, Dispatched, Counted
<1>5. AtWriter \in Nat
  BY <1>1, Shape DEF AtWriter
<1>6. Carried \in Nat /\ Judging \in Nat /\ Outgoing \in Nat
  BY <1>3 DEF Carried, Judging, Outgoing
<1>. QED
  BY <1>1, <1>2, <1>4, <1>5, <1>6

\* The amounts that depend on nothing that a step changes stay.
LEMMA AmountsStay ==
    /\ UNCHANGED queue => /\ Waiting' = Waiting
                          /\ Inbound' = Inbound
                          /\ AtWriter' = AtWriter
    /\ UNCHANGED pc =>
           /\ Carried' = Carried
           /\ Judging' = Judging
           /\ Outgoing' = Outgoing
    /\ UNCHANGED processed => Processed' = Processed
    /\ UNCHANGED dispatched => Dispatched' = Dispatched
    /\ UNCHANGED appCounts => Counted' = Counted
  BY DEF InQueues, Holding, Holders, Sum, Waiting, Inbound, Carried, Outgoing,
         Judging, AtWriter, Processed, Dispatched, Counted

\* The reader counts a packet and queues it.
LEMMA CountRead ==
    ASSUME TypeOK, ShutdownOrder, CountInv, Read
    PROVE  CountInv'
<1>. DEFINE x == total + 1
            lb == SelectLB(Flow(x))
<1>1. x \in Ids
  BY CaptureAssumption DEF Read, TypeOK, Ids
<1>2. lb \in LBs /\ lb \in Threads /\ lb # Writer /\ lb \notin FPs
  BY <1>1, Routes, Apart
<1>3. ~shut[lb]
  BY <1>2 DEF Read, ShutdownOrder
<1>4. /\ queue' = [queue EXCEPT ![lb] = Append(queue[lb], x)] /\ total' = x
      /\ UNCHANGED <<pc, processed, dispatched, appCounts, written, dropped,
                     forwarded>>
  BY <1>3 DEF Read, Pushed, inspectVars, statVars
<1>5. /\ Waiting' = Waiting + 1
      /\ Inbound' = Inbound
      /\ AtWriter' = AtWriter
  <2>1. queue'[Writer] = queue[Writer]
    BY <1>2, <1>4, Shape DEF TypeOK
  <2>2. FPs \in SUBSET Threads /\ Threads \in SUBSET Threads
    BY FiniteThreads
  <2>3. Inbound \in Nat
    BY Amounts
  <2>. HIDE DEF lb, x
  <2>4. Waiting' = Waiting + 1
    BY <1>1, <1>2, <1>4, <2>2, QueueChange DEF Waiting
  <2>5. Inbound' = Inbound + 0
    BY <1>1, <1>2, <1>4, <2>2, QueueChange DEF Inbound
  <2>. QED
    BY <2>1, <2>3, <2>4, <2>5 DEF AtWriter
<1>6. /\ Carried' = Carried
      /\ Judging' = Judging
      /\ Outgoing' = Outgoing
      /\ Processed' = Processed /\ Dispatched' = Dispatched
      /\ Counted' = Counted
  BY <1>4, AmountsStay
<1>7. /\ total' = total + 1 /\ dropped' = dropped /\ forwarded' = forwarded
      /\ InFile' = InFile
  BY <1>4 DEF InFile
<1>. QED
  BY <1>5, <1>6, <1>7, Amounts DEF CountInv

\* The amounts in hands after a thread went from one place to another.
LEMMA HandsChange ==
    ASSUME TypeOK, NEW t \in Threads,
           \A u \in Threads \ {t} : pc'[u] = pc[u]
    PROVE  /\ Carried' =
                  Carried + (IF pc'[t] = "push" THEN 1 ELSE 0)
                                           - (IF pc[t] = "push" THEN 1 ELSE 0)
           /\ Judging' =
                  Judging
                      + (IF pc'[t] = "inspect" THEN 1 ELSE 0)
                      - (IF pc[t] = "inspect" THEN 1 ELSE 0)
           /\ t \in FPs => Outgoing' =
                  Outgoing + (IF pc'[t] = "push" THEN 1 ELSE 0)
                                       - (IF pc[t] = "push" THEN 1 ELSE 0)
           /\ t \notin FPs => Outgoing' = Outgoing
<1>1. Threads \in SUBSET Threads /\ FPs \in SUBSET Threads
  BY FiniteThreads
<1>2. Carried' =
          Carried + (IF t \in Threads /\ pc'[t] = "push" THEN 1 ELSE 0)
              - (IF t \in Threads /\ pc[t] = "push" THEN 1 ELSE 0)
  BY <1>1, PlaceChange DEF Carried
<1>3. Judging' =
          Judging
              + (IF t \in Threads /\ pc'[t] = "inspect" THEN 1 ELSE 0)
              - (IF t \in Threads /\ pc[t] = "inspect" THEN 1 ELSE 0)
  BY <1>1, PlaceChange DEF Judging
<1>4. Outgoing' =
          Outgoing + (IF t \in FPs /\ pc'[t] = "push" THEN 1 ELSE 0)
              - (IF t \in FPs /\ pc[t] = "push" THEN 1 ELSE 0)
  BY <1>1, PlaceChange DEF Outgoing
<1>5. Outgoing \in Nat
  BY Amounts
<1>. QED
  BY <1>2, <1>3, <1>4, <1>5

\* The amounts in queues after a push to t.
LEMMA PushChange ==
    ASSUME TypeOK, NEW t \in Threads, NEW x \in Ids,
           queue' = [queue EXCEPT ![t] = Append(queue[t], x)]
    PROVE  /\ Waiting' = Waiting + 1
           /\ t \in FPs => Inbound' = Inbound + 1
           /\ t \notin FPs => Inbound' = Inbound
           /\ t = Writer => AtWriter' = AtWriter + 1
           /\ t # Writer => AtWriter' = AtWriter
<1>1. Threads \in SUBSET Threads /\ FPs \in SUBSET Threads /\ Writer \in Threads
  BY FiniteThreads, Shape
<1>2. Waiting' = Waiting + (IF t \in Threads THEN 1 ELSE 0)
  BY <1>1, QueueChange DEF Waiting
<1>3. Inbound' = Inbound + (IF t \in FPs THEN 1 ELSE 0)
  BY <1>1, QueueChange DEF Inbound
<1>4. Inbound \in Nat
  BY Amounts
<1>5. t = Writer => AtWriter' = AtWriter + 1
  BY <1>1, QueueChange DEF AtWriter
<1>6. t # Writer => queue'[Writer] = queue[Writer]
  BY <1>1 DEF TypeOK
<1>. QED
  BY <1>2, <1>3, <1>4, <1>5, <1>6 DEF AtWriter

\* The amounts in queues after t popped.
LEMMA PopChange ==
    ASSUME TypeOK, NEW t \in Threads, queue[t] # <<>>,
           queue' = [queue EXCEPT ![t] = Tail(queue[t])]
    PROVE  /\ Waiting' = Waiting - 1
           /\ t \in FPs => Inbound' = Inbound - 1
           /\ t \notin FPs => Inbound' = Inbound
           /\ t = Writer => AtWriter' = AtWriter - 1
           /\ t # Writer => AtWriter' = AtWriter
<1>1. Threads \in SUBSET Threads /\ FPs \in SUBSET Threads /\ Writer \in Threads
  BY FiniteThreads, Shape
<1>0. Head(queue[t]) \in Ids
  BY DEF TypeOK
<1>2. Waiting' = Waiting - (IF t \in Threads THEN 1 ELSE 0)
  BY <1>0, <1>1, QueueChange DEF Waiting
<1>3. Inbound' = Inbound - (IF t \in FPs THEN 1 ELSE 0)
  BY <1>0, <1>1, QueueChange DEF Inbound
<1>4. Inbound \in Nat
  BY Amounts
<1>5. t = Writer => AtWriter' = AtWriter - 1
  BY <1>0, <1>1, QueueChange DEF AtWriter
<1>6. t # Writer => queue'[Writer] = queue[Writer]
  BY <1>1 DEF TypeOK
<1>. QED
  BY <1>2, <1>3, <1>4, <1>5, <1>6 DEF AtWriter

\* A load balancer takes a packet from its queue, or hands it on.
LEMMA CountLB ==
    ASSUME TypeOK, ShutdownOrder, CountInv, NEW lb \in LBs,
           LBTake(lb) \/ LBPush(lb)
    PROVE  CountInv'
<1>1. lb \in Threads /\ lb # Writer /\ lb \notin FPs
  BY Apart
<1>2. /\ UNCHANGED <<processed, appCounts>>
      /\ total' = total /\ dropped' = dropped /\ forwarded' = forwarded
      /\ InFile' = InFile
  BY DEF LBTake, LBPush, inspectVars, statVars, InFile
<1>3. Processed' = Processed /\ Counted' = Counted
  BY <1>2, AmountsStay
<1>4. CASE LBTake(lb)
  <2>1. /\ pc[lb] = "pop" /\ pc' = [pc EXCEPT ![lb] = "push"]
        /\ queue[lb] # <<>> /\ queue' = [queue EXCEPT ![lb] = Tail(queue[lb])]
        /\ dispatched' = dispatched
    BY <1>4 DEF LBTake, Take
  <2>2. /\ Waiting' = Waiting - 1
        /\ Inbound' = Inbound
        /\ AtWriter' = AtWriter
    BY <1>1, <2>1, PopChange
  <2>3. /\ pc[lb] = "pop" /\ pc'[lb] = "push"
        /\ \A u \in Threads \ {lb} : pc'[u] = pc[u]
    BY <1>1, <2>1 DEF TypeOK
  <2>4. /\ Carried' = Carried + 1 - 0
        /\ Judging' = Judging + 0 - 0
        /\ Outgoing' = Outgoing
    BY <1>1, <2>3, HandsChange
  <2>5. Dispatched' = Dispatched
    BY <2>1, AmountsStay
  <2>. QED
    BY <1>2, <1>3, <2>2, <2>4, <2>5, Amounts DEF CountInv
<1>5. CASE LBPush(lb)
  <2>. DEFINE x == hand[lb]
              fp == SelectFP(lb, Flow(x))
  <2>1. x \in Ids /\ fp \in FPs /\ fp \in Threads /\ fp # Writer
    <3>1. x \in Ids
      BY <1>1, <1>5 DEF LBPush, TypeOK
    <3>. QED
      BY <3>1, PacketType, Routing, Apart
  <2>2. ~shut[fp] /\ pc[lb] = "push"
    BY <1>5, <2>1 DEF LBPush, ShutdownOrder
  <2>3. /\ queue' = [queue EXCEPT ![fp] = Append(queue[fp], x)]
        /\ pc' = [pc EXCEPT ![lb] = "loop"]
        /\ dispatched' = [dispatched EXCEPT ![lb] = @ + 1]
    BY <1>5, <2>2 DEF LBPush, Pushed
  <2>. HIDE DEF x, fp
  <2>4. /\ Waiting' = Waiting + 1
        /\ Inbound' = Inbound + 1
        /\ AtWriter' = AtWriter
    BY <2>1, <2>3, PushChange
  <2>5. /\ pc[lb] = "push" /\ pc'[lb] = "loop"
        /\ \A u \in Threads \ {lb} : pc'[u] = pc[u]
    BY <1>1, <2>2, <2>3 DEF TypeOK
  <2>6. /\ Carried' = Carried + 0 - 1
        /\ Judging' = Judging + 0 - 0
        /\ Outgoing' = Outgoing
    BY <1>1, <2>5, HandsChange
  <2>7. Dispatched' = Dispatched + 1
    <3>1. Sum([dispatched EXCEPT ![lb] = @ + 1]) = Dispatched + 1
      BY FiniteThreads, SumUp DEF TypeOK, Dispatched
    <3>2. Dispatched' = Sum(dispatched')
      BY DEF Sum, Dispatched
    <3>. QED
      BY <2>3, <3>1, <3>2
  <2>. QED
    BY <1>2, <1>3, <2>4, <2>6, <2>7, Amounts DEF CountInv
<1>. QED
  BY <1>4, <1>5

\* A fast path takes a packet from its queue, or hands it on.
LEMMA CountFP ==
    ASSUME TypeOK, ShutdownOrder, CountInv, NEW fp \in FPs,
           FPTake(fp) \/ FPPush(fp)
    PROVE  CountInv'
<1>1. fp \in Threads /\ fp # Writer /\ Writer \in Threads /\ Writer \notin FPs
  BY Apart
<1>2. /\ UNCHANGED <<dispatched, appCounts>>
      /\ total' = total /\ dropped' = dropped /\ forwarded' = forwarded
      /\ InFile' = InFile
  BY DEF FPTake, FPPush, inspectVars, statVars, InFile
<1>3. Dispatched' = Dispatched /\ Counted' = Counted
  BY <1>2, AmountsStay
<1>4. CASE FPTake(fp)
  <2>1. /\ pc[fp] = "pop" /\ pc' = [pc EXCEPT ![fp] = "inspect"]
        /\ queue[fp] # <<>> /\ queue' = [queue EXCEPT ![fp] = Tail(queue[fp])]
        /\ processed' = [processed EXCEPT ![fp] = @ + 1]
    BY <1>4 DEF FPTake, Take
  <2>2. /\ Waiting' = Waiting - 1
        /\ Inbound' = Inbound - 1
        /\ AtWriter' = AtWriter
    BY <1>1, <2>1, PopChange
  <2>3. /\ pc[fp] = "pop" /\ pc'[fp] = "inspect"
        /\ \A u \in Threads \ {fp} : pc'[u] = pc[u]
    BY <1>1, <2>1 DEF TypeOK
  <2>4. /\ Carried' = Carried + 0 - 0
        /\ Judging' = Judging + 1 - 0
        /\ Outgoing' = Outgoing + 0 - 0
    BY <1>1, <2>3, HandsChange
  <2>5. Processed' = Processed + 1
    <3>1. Sum([processed EXCEPT ![fp] = @ + 1]) = Processed + 1
      BY FiniteThreads, SumUp DEF TypeOK, Processed
    <3>2. Processed' = Sum(processed')
      BY DEF Sum, Processed
    <3>. QED
      BY <2>1, <3>1, <3>2
  <2>. QED
    BY <1>2, <1>3, <2>2, <2>4, <2>5, Amounts DEF CountInv
<1>5. CASE FPPush(fp)
  <2>. DEFINE x == hand[fp]
  <2>1. x \in Ids
    BY <1>1, <1>5 DEF FPPush, TypeOK
  <2>2. ~shut[Writer] /\ pc[fp] = "push"
    BY <1>5 DEF FPPush, ShutdownOrder
  <2>3. /\ queue' = [queue EXCEPT ![Writer] = Append(queue[Writer], x)]
        /\ pc' = [pc EXCEPT ![fp] = "loop"]
        /\ processed' = processed
    BY <1>5, <2>2 DEF FPPush, Pushed
  <2>. HIDE DEF x
  <2>4. /\ Waiting' = Waiting + 1
        /\ Inbound' = Inbound
        /\ AtWriter' = AtWriter + 1
    BY <1>1, <2>1, <2>3, PushChange
  <2>5. /\ pc[fp] = "push" /\ pc'[fp] = "loop"
        /\ \A u \in Threads \ {fp} : pc'[u] = pc[u]
    BY <1>1, <2>2, <2>3 DEF TypeOK
  <2>6. /\ Carried' = Carried + 0 - 1
        /\ Judging' = Judging + 0 - 0
        /\ Outgoing' = Outgoing + 0 - 1
    BY <1>1, <2>5, HandsChange
  <2>7. Processed' = Processed
    BY <2>3, AmountsStay
  <2>. QED
    BY <1>2, <1>3, <2>4, <2>6, <2>7, Amounts DEF CountInv
<1>. QED
  BY <1>4, <1>5

\* A verdict counts the packet once, as forwarded or as dropped.
LEMMA CountInspect ==
    ASSUME TypeOK, CountInv, NEW fp \in FPs, FPInspect(fp)
    PROVE  CountInv'
<1>. DEFINE p == hand[fp]
            e == Identify(p, flows[fp][Flow(p)])
<1>1. fp \in Threads /\ fp # Writer
  BY Apart
<1>2. e.app \in AppTypes
  <2>1. p \in Ids /\ Flow(p) \in Flows /\ capture[p] \in Packet
    BY <1>1, PacketType DEF FPInspect, TypeOK
  <2>2. e \in FlowEntry
    BY <2>1, IdentifyType DEF TypeOK
  <2>. QED
    BY <2>2 DEF FlowEntry
<1>3. Verdict(fp, p, e) /\ pc[fp] = "inspect"
  BY DEF FPInspect
<1>. HIDE DEF e, p
<1>4. /\ UNCHANGED <<queue, processed, dispatched>> /\ total' = total
      /\ InFile' = InFile /\ AtWriter' = AtWriter
  BY DEF FPInspect, InFile, AtWriter
<1>5. /\ Waiting' = Waiting /\ Inbound' = Inbound
      /\ Processed' = Processed /\ Dispatched' = Dispatched
  BY <1>4, AmountsStay
<1>6. Counted' = Counted + 1
  <2>1. Sum([appCounts EXCEPT ![e.app] = @ + 1]) = Counted + 1
    BY <1>2, FiniteThreads, SumUp DEF TypeOK, Counted
  <2>2. Counted' = Sum(appCounts')
    BY DEF Sum, Counted
  <2>3. appCounts' = [appCounts EXCEPT ![e.app] = @ + 1]
    BY <1>3 DEF Verdict, RecordApp
  <2>. QED
    BY <2>1, <2>2, <2>3
<1>7. \/ /\ dropped' = dropped + 1 /\ forwarded' = forwarded
         /\ pc' = [pc EXCEPT ![fp] = "loop"]
      \/ /\ dropped' = dropped /\ forwarded' = forwarded + 1
         /\ pc' = [pc EXCEPT ![fp] = "push"]
  BY <1>3 DEF Verdict
<1>8. CASE /\ dropped' = dropped + 1 /\ forwarded' = forwarded
           /\ pc' = [pc EXCEPT ![fp] = "loop"]
  <2>1. /\ pc[fp] = "inspect" /\ pc'[fp] = "loop"
        /\ \A u \in Threads \ {fp} : pc'[u] = pc[u]
    BY <1>1, <1>3, <1>8 DEF TypeOK
  <2>2. /\ Carried' = Carried + 0 - 0
        /\ Judging' = Judging + 0 - 1
        /\ Outgoing' = Outgoing + 0 - 0
    BY <1>1, <2>1, HandsChange
  <2>. QED
    BY <1>4, <1>5, <1>6, <1>8, <2>2, Amounts DEF CountInv
<1>9. CASE /\ dropped' = dropped /\ forwarded' = forwarded + 1
           /\ pc' = [pc EXCEPT ![fp] = "push"]
  <2>1. /\ pc[fp] = "inspect" /\ pc'[fp] = "push"
        /\ \A u \in Threads \ {fp} : pc'[u] = pc[u]
    BY <1>1, <1>3, <1>9 DEF TypeOK
  <2>2. /\ Carried' = Carried + 1 - 0
        /\ Judging' = Judging + 0 - 1
        /\ Outgoing' = Outgoing + 1 - 0
    BY <1>1, <2>1, HandsChange
  <2>. QED
    BY <1>4, <1>5, <1>6, <1>9, <2>2, Amounts DEF CountInv
<1>. QED
  BY <1>7, <1>8, <1>9

\* The writer moves a packet from its queue to the file.
LEMMA CountWriter ==
    ASSUME TypeOK, CountInv, WriterTake
    PROVE  CountInv'
<1>1. Writer \in Threads /\ Writer \notin FPs
  BY Apart
<1>2. /\ UNCHANGED <<processed, dispatched, appCounts>>
      /\ total' = total /\ dropped' = dropped /\ forwarded' = forwarded
      /\ pc[Writer] = "pop" /\ pc' = [pc EXCEPT ![Writer] = "loop"]
      /\ queue[Writer] # <<>>
      /\ queue' = [queue EXCEPT ![Writer] = Tail(queue[Writer])]
  BY DEF WriterTake, inspectVars, statVars
<1>3. /\ Processed' = Processed /\ Dispatched' = Dispatched
      /\ Counted' = Counted
  BY <1>2, AmountsStay
<1>4. InFile' = InFile + 1
  BY DEF WriterTake, TypeOK, InFile
<1>5. /\ Waiting' = Waiting - 1
      /\ Inbound' = Inbound
      /\ AtWriter' = AtWriter - 1
  BY <1>1, <1>2, PopChange
<1>6. /\ pc[Writer] = "pop" /\ pc'[Writer] = "loop"
      /\ \A u \in Threads \ {Writer} : pc'[u] = pc[u]
  BY <1>1, <1>2 DEF TypeOK
<1>7. /\ Carried' = Carried + 0 - 0
      /\ Judging' = Judging + 0 - 0
      /\ Outgoing' = Outgoing
  BY <1>1, <1>6, HandsChange
<1>8. /\ dropped' + InFile' + Waiting' + Carried' + Judging'
             = dropped + InFile + Waiting + Carried + Judging
      /\ InFile' + AtWriter' + Outgoing' = InFile + AtWriter + Outgoing
  <2>2. Carried' = Carried /\ Judging' = Judging
    BY <1>7, Amounts
  <2>3. dropped' = dropped /\ Outgoing' = Outgoing
    BY <1>2, <1>7
  <2>4. /\ dropped \in Nat /\ InFile \in Nat /\ Waiting \in Nat
        /\ AtWriter \in Nat /\ Carried \in Nat /\ Judging \in Nat
        /\ Outgoing \in Nat
    BY Amounts
  <2>5. /\ InFile' = InFile + 1 /\ Waiting' = Waiting - 1
        /\ AtWriter' = AtWriter - 1
    BY <1>4, <1>5
  <2>6. InFile' + AtWriter' + Outgoing' = InFile + AtWriter + Outgoing
    BY <2>3, <2>4, <2>5
  <2>7. dropped' + InFile' + Waiting' + Carried' + Judging'
            = dropped + InFile + Waiting + Carried + Judging
    BY <2>2, <2>3, <2>4, <2>5
  <2>. QED
    BY <2>6, <2>7
<1>9. Judging' = Judging /\ Inbound' = Inbound
  BY <1>1, <1>5, <1>7, Amounts
<1>10. CountInv!1' /\ CountInv!2'
  BY <1>2, <1>8 DEF CountInv
<1>11. CountInv!3' /\ CountInv!4' /\ CountInv!5'
  BY <1>2, <1>3, <1>9 DEF CountInv
<1>. QED
  BY <1>10, <1>11 DEF CountInv

\* The other steps move no packet.
LEMMA CountIdle ==
    ASSUME TypeOK, CountInv, Idle
    PROVE  CountInv'
<1>1. /\ UNCHANGED <<queue, processed, dispatched, appCounts>>
      /\ total' = total /\ dropped' = dropped /\ forwarded' = forwarded
      /\ InFile' = InFile /\ AtWriter' = AtWriter
  BY DEF Idle, inspectVars, statVars, InFile, AtWriter
<1>2. /\ Processed' = Processed /\ Dispatched' = Dispatched
      /\ Counted' = Counted
      /\ Waiting' = Waiting /\ Inbound' = Inbound
  BY <1>1, AmountsStay
<1>3. /\ Carried' = Carried
      /\ Judging' = Judging
      /\ Outgoing' = Outgoing
  <2>1. CASE UNCHANGED pc
    BY <2>1, AmountsStay
  <2>2. ASSUME NEW t \in Threads, NEW a \in {"loop", "pop", "exit"},
               NEW b \in {"loop", "pop", "exit"},
               pc[t] = a, pc' = [pc EXCEPT ![t] = b]
        PROVE  /\ Carried' = Carried
               /\ Judging' = Judging
               /\ Outgoing' = Outgoing
    <3>1. /\ pc[t] \notin {"push", "inspect"} /\ pc'[t] \notin {"push", "inspect"}
          /\ \A u \in Threads \ {t} : pc'[u] = pc[u]
      BY <2>2 DEF TypeOK
    <3>2. /\ Carried' = Carried + 0 - 0
          /\ Judging' = Judging + 0 - 0
      BY <3>1, HandsChange
    <3>3. \/ Outgoing' = Outgoing + 0 - 0
          \/ Outgoing' = Outgoing
      BY <3>1, HandsChange
    <3>. QED
      BY <3>2, <3>3, Amounts
  <2>. QED
    BY <2>1, <2>2 DEF Idle
<1>. QED
  BY <1>1, <1>2, <1>3, Amounts DEF CountInv

\* Every step keeps the equations.
LEMMA CountNext ==
    ASSUME TypeOK, ShutdownOrder, CountInv, [Next]_vars
    PROVE  CountInv'
  BY StepsSorted, CountRead, CountLB, CountFP, CountInspect, CountWriter, CountIdle

\* At the start every amount is zero.
LEMMA CountInit == Init => CountInv
<1>. SUFFICES ASSUME Init PROVE CountInv
  OBVIOUS
<1>1. /\ total = 0 /\ dropped = 0 /\ forwarded = 0 /\ InFile = 0
      /\ AtWriter = 0
  BY FiniteThreads, Shape DEF Init, InFile, AtWriter
<1>2. Processed = 0 /\ Dispatched = 0 /\ Counted = 0
  BY FiniteThreads, SumZero DEF Init, Processed, Dispatched, Counted
<1>3. Waiting = 0 /\ Inbound = 0
  <2>1. ASSUME NEW T \in SUBSET Threads, IsFiniteSet(T)
        PROVE  InQueues(T) = 0
    <3>1. [t \in T |-> Len(queue[t])] = [t \in T |-> 0]
      BY DEF Init
    <3>. QED
      BY <2>1, <3>1, SumZero DEF InQueues
  <2>. QED
    BY <2>1, FiniteThreads DEF Waiting, Inbound
<1>4. Carried = 0 /\ Judging = 0 /\ Outgoing = 0
  <2>1. ASSUME NEW T \in SUBSET Threads, NEW place \in {"push", "inspect"}
        PROVE  Holding(T, place) = 0
    <3>1. Holders(T, place) = {}
      BY DEF Init, Holders
    <3>. QED
      BY <3>1, FS_EmptySet DEF Holding
  <2>. QED
    BY <2>1, FiniteThreads DEF Carried, Judging, Outgoing
<1>. QED
  BY <1>1, <1>2, <1>3, <1>4 DEF CountInv

\* The counters of the report agree with one another and with the packets on
\* their way in every state, however many threads carry them.
THEOREM PacketsAccounted == Spec => []Accounting
<1>1. Init => TypeOK /\ StopInv /\ CountInv
  BY TypeInit, StopInit, CountInit
<1>2. TypeOK /\ StopInv /\ CountInv /\ [Next]_vars
      => (TypeOK /\ StopInv /\ CountInv)'
  BY TypeNext, StopNext, StopImpliesOrder, CountNext
<1>3. CountInv => Accounting
  BY CountIsAccounting
<1>. QED
  BY <1>1, <1>2, <1>3, PTL DEF Spec

-----------------------------------------------------------------------------
(* When process() is done everything that was forwarded is in the file.    *)

\* The writer leaves an empty queue behind, and process() is done when it has
\* joined the writer, the last thread.
DoneInv ==
    /\ mainPc = "done" => cursor = Writer /\ pc[Writer] = "exit"
    /\ pc[Writer] = "exit" => queue[Writer] = <<>>

\* Nothing is queued for the writer after it left.
LEMMA DoneNext ==
    ASSUME TypeOK, ShutdownOrder, DoneInv, [Next]_vars
    PROVE  DoneInv'
<1>1. Writer \in Threads /\ cursor \in Threads /\ Writer \notin FPs
  BY Apart DEF TypeOK
<1>2. ASSUME pc'[Writer] = pc[Writer],
             queue'[Writer] = queue[Writer] \/ pc[Writer] # "exit",
             UNCHANGED <<mainPc, cursor>>
      PROVE  DoneInv'
  BY <1>2 DEF DoneInv
<1>3. ASSUME NEW t \in Threads, LoopTest(t) PROVE DoneInv'
  <2>1. /\ UNCHANGED <<queue, mainPc, cursor>> /\ pc[t] = "loop"
        /\ \A u \in Threads \ {t} : pc'[u] = pc[u]
        /\ pc'[t] = "exit" => MayLeave(t)
    BY <1>3 DEF LoopTest, mainVars, TypeOK
  <2>. QED
    BY <1>1, <2>1 DEF DoneInv, MayLeave
<1>4. ASSUME NEW t \in Threads, PopNothing(t) PROVE DoneInv'
  <2>1. /\ UNCHANGED <<queue, mainPc, cursor>> /\ pc[t] = "pop"
        /\ \A u \in Threads \ {t} : pc'[u] = pc[u]
        /\ pc'[t] = "loop"
    BY <1>4 DEF PopNothing, mainVars, TypeOK
  <2>. QED
    BY <1>1, <2>1 DEF DoneInv
<1>5. ASSUME NEW lb \in LBs, LBTake(lb) \/ LBPush(lb) PROVE DoneInv'
  <2>1. lb \in Threads /\ lb # Writer
    BY Apart
  <2>2. UNCHANGED <<mainPc, cursor>> /\ pc'[Writer] = pc[Writer]
    BY <1>1, <1>5, <2>1 DEF LBTake, LBPush, Take, mainVars, TypeOK
  <2>3. queue'[Writer] = queue[Writer]
    <3>1. CASE LBTake(lb)
      BY <1>1, <2>1, <3>1 DEF LBTake, Take, TypeOK
    <3>2. CASE LBPush(lb)
      <4>. DEFINE fp == SelectFP(lb, Flow(hand[lb]))
      <4>1. hand[lb] \in Ids
        BY <2>1, <3>2 DEF LBPush, TypeOK
      <4>2. fp \in FPs /\ fp # Writer
        BY <4>1, PacketType, Routing, Apart
      <4>. HIDE DEF fp
      <4>3. queue' = Pushed(fp, hand[lb])
        BY <3>2 DEF LBPush, fp
      <4>. QED
        BY <1>1, <4>2, <4>3 DEF Pushed, TypeOK
    <3>. QED
      BY <1>5, <3>1, <3>2
  <2>. QED
    BY <1>2, <2>2, <2>3
<1>6. ASSUME NEW fp \in FPs, FPTake(fp) \/ FPInspect(fp) \/ FPPush(fp)
      PROVE  DoneInv'
  <2>1. fp \in Threads /\ fp # Writer
    BY Apart
  <2>2. UNCHANGED <<mainPc, cursor>> /\ pc'[Writer] = pc[Writer]
        /\ pc[fp] # "exit"
    <3>1. UNCHANGED <<mainPc, cursor>> /\ pc[fp] # "exit"
      BY <1>6 DEF FPTake, FPInspect, FPPush, Take, mainVars
    <3>2. \E place : pc' = [pc EXCEPT ![fp] = place]
      BY <1>6 DEF FPTake, FPInspect, Verdict, FPPush, Take
    <3>. QED
      BY <1>1, <2>1, <3>1, <3>2 DEF TypeOK
  <2>3. pc[Writer] # "exit"
    BY <2>2 DEF ShutdownOrder
  <2>. QED
    BY <1>2, <2>2, <2>3
<1>7. ASSUME WriterTake PROVE DoneInv'
  BY <1>1, <1>7 DEF WriterTake, DoneInv, mainVars, TypeOK
<1>8. ASSUME Read PROVE DoneInv'
  <2>. DEFINE lb == SelectLB(Flow(total + 1))
  <2>1. total + 1 \in Ids
    BY <1>8, CaptureAssumption DEF Read, TypeOK, Ids
  <2>2. lb \in LBs /\ lb # Writer
    BY <2>1, Routes, Apart
  <2>. HIDE DEF lb
  <2>3. queue' = Pushed(lb, total + 1) /\ UNCHANGED <<pc, mainPc, cursor>>
    BY <1>8 DEF Read, mainVars, lb
  <2>4. queue'[Writer] = queue[Writer]
    BY <1>1, <2>2, <2>3 DEF Pushed, TypeOK
  <2>. QED
    BY <1>2, <2>3, <2>4
<1>9. ASSUME EndOfFile \/ Sleep \/ ClearFlag \/ Shutdown PROVE DoneInv'
  BY <1>9 DEF EndOfFile, Sleep, ClearFlag, Shutdown, MainGoes, DoneInv
<1>10. ASSUME Join PROVE DoneInv'
  BY <1>10 DEF Join, MainGoes, DoneInv
<1>11. ASSUME UNCHANGED vars PROVE DoneInv'
  BY <1>11 DEF vars, threadVars, mainVars, DoneInv
<1>12. /\ \A lb \in LBs : lb \in Threads
       /\ \A fp \in FPs : fp \in Threads
  BY Apart
<1>. QED
  BY <1>1, <1>3, <1>4, <1>5, <1>6, <1>7, <1>8, <1>9, <1>10, <1>11, <1>12
  DEF Next, LBStep, FPStep, WriterStep, MainStep, Finished

\* README.md:990 for every number of threads, queue size and capture: when the
\* report is printed, "Forwarded" is the number of packets in the output file.
THEOREM ReportMatchesFile == Spec => []ForwardedIsWritten
<1>. DEFINE Inv == TypeOK /\ StopInv /\ CountInv /\ DoneInv
<1>1. Init => Inv
  <2>1. Init => DoneInv
    BY Shape DEF Init, DoneInv
  <2>. QED
    BY <2>1, TypeInit, StopInit, CountInit
<1>2. Inv /\ [Next]_vars => Inv'
  BY TypeNext, StopNext, StopImpliesOrder, CountNext, DoneNext
<1>3. Inv => ForwardedIsWritten
  <2>. SUFFICES ASSUME Inv, mainPc = "done" PROVE forwarded = Len(written)
    BY DEF ForwardedIsWritten
  <2>1. AtWriter = 0
    BY DEF DoneInv, AtWriter
  <2>2. Outgoing = 0
    <3>1. \A fp \in FPs : pc[fp] = "exit"
      <4>1. \A fp \in FPs : fp \in Threads /\ fp < Writer
        <5>1. 1 \in LBs
          BY ShapeAssumption DEF LBs
        <5>. QED
          BY <5>1, Shape
      <4>. QED
        BY <4>1 DEF StopInv, DoneInv
    <3>2. Holders(FPs, "push") = {}
      BY <3>1 DEF Holders
    <3>. QED
      BY <3>2, FS_EmptySet DEF Outgoing, Holding
  <2>. QED
    BY <2>1, <2>2, Amounts DEF CountInv, InFile
<1>. QED
  BY <1>1, <1>2, <1>3, PTL DEF Spec

-----------------------------------------------------------------------------
(* Where the packets are, and in which order those of a flow come. *)

\* The stations a packet passes, in the order it passes them, each at the
\* threads of its flow: the queue and the hands of the load balancer, the
\* queue and the hands of the fast path before and after the verdict, the
\* queue of the writer, the output file.
Stops == 1 .. 7
\* The packet is at that station.
At(p, k) ==
    LET lb == SelectLB(Flow(p))
        fp == Home(Flow(p))
    IN
    \/ k = 1 /\ p \in Range(queue[lb])
    \/ k = 2 /\ pc[lb] = "push" /\ hand[lb] = p
    \/ k = 3 /\ p \in Range(queue[fp])
    \/ k = 4 /\ pc[fp] = "inspect" /\ hand[fp] = p
    \/ k = 5 /\ pc[fp] = "push" /\ hand[fp] = p
    \/ k = 6 /\ p \in Range(queue[Writer])
    \/ k = 7 /\ p \in Range(written)
\* The packets at each station.
Station == [k \in Stops |-> {p \in Ids : At(p, k)}]

\* The packets of a flow stand in a sequence in the order of the capture.
Sorted(s) ==
    \A i, j \in DOMAIN s :
        i < j /\ Flow(s[i]) = Flow(s[j]) => s[i] < s[j]

\* Nothing is at a thread that is not its flow's.
RoutedInv ==
    /\ \A lb \in LBs :
           /\ \A p \in Range(queue[lb]) : SelectLB(Flow(p)) = lb
           /\ pc[lb] = "push" => SelectLB(Flow(hand[lb])) = lb
           /\ pc[lb] # "inspect"
    /\ \A fp \in FPs :
           /\ \A p \in Range(queue[fp]) : Home(Flow(p)) = fp
           /\ pc[fp] \in {"inspect", "push"} => Home(Flow(hand[fp])) = fp
    /\ pc[Writer] \notin {"inspect", "push"}

\* Every queue and the file have the packets of a flow in order.
SortedInv == Sorted(written) /\ \A t \in Threads : Sorted(queue[t])

\* Of two packets of a flow, the one that has come further is the earlier one,
\* and only packets that were read are anywhere.
LineInv ==
    /\ \A a, b \in Stops : \A p \in Station[a], q \in Station[b] :
           a < b /\ Flow(p) = Flow(q) => q < p
    /\ \A a \in Stops : \A p \in Station[a] : p <= total

\* The inductive invariant about places and order.
OrderInv == RoutedInv /\ SortedInv /\ LineInv

-----------------------------------------------------------------------------
(* Sequences of packets. *)

\* Everybody owns a queue of packets.
LEMMA QueueType ==
    ASSUME TypeOK
    PROVE  /\ \A t \in Threads : queue[t] \in Seq(Ids)
           /\ written \in Seq(Ids)
           /\ Ids \subseteq Nat
           /\ \A p \in Ids : Flow(p) \in Flows
  BY PacketType DEF TypeOK, Ids

\* What is in a sequence that got one packet more.
LEMMA Appended ==
    ASSUME NEW s \in Seq(Ids), NEW x \in Ids,
           Sorted(s), \A p \in Range(s) : Flow(p) = Flow(x) => p < x
    PROVE  /\ Range(Append(s, x)) = Range(s) \cup {x}
           /\ Sorted(Append(s, x))
<1>. DEFINE t == Append(s, x)
<1>1. /\ t \in Seq(Ids) /\ Len(t) = Len(s) + 1 /\ Len(s) \in Nat
      /\ DOMAIN t = 1 .. Len(s) + 1 /\ DOMAIN s = 1 .. Len(s)
      /\ \A i \in 1 .. Len(s) : t[i] = s[i]
      /\ t[Len(s) + 1] = x
  OBVIOUS
<1>. HIDE DEF t
<1>2. Range(t) = Range(s) \cup {x}
  <2>1. ASSUME NEW p \in Range(t) PROVE p \in Range(s) \cup {x}
    <3>1. PICK i \in 1 .. Len(s) + 1 : p = t[i]
      BY <1>1 DEF Range
    <3>2. CASE i = Len(s) + 1
      BY <1>1, <3>1, <3>2
    <3>3. CASE i \in 1 .. Len(s)
      BY <1>1, <3>1, <3>3 DEF Range
    <3>. QED
      BY <1>1, <3>2, <3>3
  <2>2. ASSUME NEW p \in Range(s) PROVE p \in Range(t)
    BY <1>1 DEF Range
  <2>3. x \in Range(t)
    BY <1>1 DEF Range
  <2>. QED
    BY <2>1, <2>2, <2>3
<1>3. Sorted(t)
  <2>. SUFFICES ASSUME NEW i \in DOMAIN t, NEW j \in DOMAIN t, i < j,
                       Flow(t[i]) = Flow(t[j])
                PROVE  t[i] < t[j]
    BY DEF Sorted
  <2>1. i \in DOMAIN s /\ t[i] = s[i] /\ s[i] \in Range(s)
    BY <1>1 DEF Range
  <2>2. CASE j = Len(s) + 1
    BY <1>1, <2>1, <2>2
  <2>3. CASE j # Len(s) + 1
    BY <1>1, <2>1, <2>3 DEF Sorted
  <2>. QED
    BY <2>2, <2>3
<1>. QED
  BY <1>2, <1>3 DEF t

\* What is in a sequence whose first packet was taken.
LEMMA Taken ==
    ASSUME TypeOK, NEW s \in Seq(Ids), s # <<>>, Sorted(s)
    PROVE  /\ Head(s) \in Ids /\ Head(s) \in Range(s)
           /\ Range(Tail(s)) = Range(s) \ {Head(s)}
           /\ Sorted(Tail(s))
           /\ \A p \in Range(Tail(s)) : Flow(p) = Flow(Head(s)) => Head(s) < p
<1>. DEFINE t == Tail(s)
<1>1. /\ t \in Seq(Ids) /\ Len(s) \in Nat \ {0} /\ Len(t) = Len(s) - 1
      /\ DOMAIN t = 1 .. Len(s) - 1 /\ DOMAIN s = 1 .. Len(s)
      /\ \A i \in 1 .. Len(s) - 1 : t[i] = s[i + 1]
      /\ \A i \in 1 .. Len(s) : s[i] \in Ids
      /\ Head(s) = s[1] /\ s[1] \in Ids
  OBVIOUS
<1>0. Ids \subseteq Nat
  BY DEF Ids
<1>. HIDE DEF t
<1>2. \A i \in 2 .. Len(s) : Flow(s[i]) = Flow(s[1]) => s[1] < s[i]
  BY <1>1 DEF Sorted
<1>3. \A p \in Range(t) : \E i \in 2 .. Len(s) : p = s[i]
  BY <1>1 DEF Range
<1>4. \A i \in 2 .. Len(s) : s[i] \in Range(t)
  <2>. SUFFICES ASSUME NEW i \in 2 .. Len(s) PROVE s[i] \in Range(t)
    OBVIOUS
  <2>1. i - 1 \in DOMAIN t /\ t[i - 1] = s[i]
    BY <1>1
  <2>. QED
    BY <2>1 DEF Range
<1>5. \A p \in Range(t) : Flow(p) = Flow(s[1]) => s[1] < p
  BY <1>2, <1>3
<1>6. s[1] \notin Range(t)
  <2>1. s[1] \in Nat
    BY <1>0, <1>1
  <2>2. ~(s[1] < s[1])
    BY <2>1
  <2>. QED
    BY <1>5, <2>2
<1>7. Range(t) = Range(s) \ {s[1]}
  <2>1. \A p \in Range(t) : p \in Range(s)
    BY <1>1, <1>3 DEF Range
  <2>2. ASSUME NEW p \in Range(s), p # s[1] PROVE p \in Range(t)
    BY <1>1, <1>4, <2>2 DEF Range
  <2>. QED
    BY <1>6, <2>1, <2>2
<1>8. Sorted(t)
  <2>. SUFFICES ASSUME NEW i \in DOMAIN t, NEW j \in DOMAIN t, i < j,
                       Flow(t[i]) = Flow(t[j])
                PROVE  t[i] < t[j]
    BY DEF Sorted
  <2>1. /\ i + 1 \in DOMAIN s /\ j + 1 \in DOMAIN s /\ i + 1 < j + 1
        /\ t[i] = s[i + 1] /\ t[j] = s[j + 1]
    BY <1>1
  <2>. QED
    BY <2>1 DEF Sorted
<1>9. s[1] \in Range(s)
  BY <1>1 DEF Range
<1>. QED
  BY <1>1, <1>5, <1>7, <1>8, <1>9 DEF t

-----------------------------------------------------------------------------
(* The order of a flow's packets does not depend on the threads: it is kept *)
(* by whatever moves the first packet of its flow at a station to the next  *)
(* station.                                                                 *)

\* Packet x, the first of its flow at station k, goes to the next one.
Moves(k, x) ==
    /\ x \in Station[k]
    /\ \A p \in Station[k] : Flow(p) = Flow(x) => x <= p
    /\ Station' = [Station EXCEPT ![k] = @ \ {x}, ![k + 1] = @ \cup {x}]

\* Packet x is read.
Enters(x) ==
    /\ x = total + 1 /\ x \in Ids
    /\ Station' = [Station EXCEPT ![1] = @ \cup {x}]

\* Packet x leaves station k and is nowhere any more.
Leaves(k, x) ==
    /\ x \in Station[k]
    /\ \A p \in Station[k] : Flow(p) = Flow(x) => x <= p
    /\ Station' = [Station EXCEPT ![k] = @ \ {x}]

\* The line is kept by whatever step moves one packet a station further, lets
\* one in behind all others or takes one out.
LEMMA LineKept ==
    ASSUME TypeOK, LineInv, capture' = capture,
           \/ UNCHANGED total /\ UNCHANGED Station
           \/ UNCHANGED total /\ \E k \in 1 .. 6, x \in Ids : Moves(k, x)
           \/ UNCHANGED total /\ \E k \in Stops, x \in Ids : Leaves(k, x)
           \/ total' = total + 1 /\ Enters(total + 1)
    PROVE  LineInv'
<1>0. /\ Station \in [Stops -> SUBSET Ids]
      /\ total \in Nat /\ Ids \subseteq Nat
      /\ \A k \in 1 .. 6 : k \in Stops /\ k + 1 \in Stops
      /\ \A p : Flow(p)' = Flow(p)
  BY DEF Station, Stops, Ids, TypeOK, Flow
<1>. DEFINE T == Station'
            inLine == \A a, b \in Stops : \A p \in T[a], q \in T[b] :
                          a < b /\ Flow(p) = Flow(q) => q < p
            read == \A a \in Stops : \A p \in T[a] : p <= total'
<1>1. SUFFICES inLine /\ read
  BY <1>0 DEF LineInv
<1>2. CASE UNCHANGED total /\ UNCHANGED Station
  BY <1>2 DEF LineInv
<1>3. CASE UNCHANGED total /\ \E k \in 1 .. 6, x \in Ids : Moves(k, x)
  <2>1. PICK k \in 1 .. 6, x \in Ids : Moves(k, x)
    BY <1>3
  <2>2. /\ \A j \in Stops \ {k + 1} : T[j] \subseteq Station[j]
        /\ T[k] = Station[k] \ {x}
        /\ T[k + 1] = Station[k + 1] \cup {x}
        /\ x \in Station[k]
        /\ k \in Stops /\ k + 1 \in Stops /\ k \in Int
    BY <1>0, <2>1 DEF Moves
  <2>3. \A p \in T[k] : Flow(p) = Flow(x) => x < p
    <3>. SUFFICES ASSUME NEW p \in T[k], Flow(p) = Flow(x) PROVE x < p
      OBVIOUS
    <3>1. p \in Station[k] /\ p # x /\ x <= p
      BY <2>1, <2>2 DEF Moves
    <3>2. p \in Nat /\ x \in Nat
      BY <1>0, <2>2, <3>1
    <3>. QED
      BY <3>1, <3>2
  <2>. HIDE DEF T
  <2>4. ASSUME NEW a \in Stops, NEW b \in Stops, NEW p \in T[a], NEW q \in T[b],
               a < b, Flow(p) = Flow(q)
        PROVE  q < p
    <3>1. CASE p \in Station[a] /\ q \in Station[b]
      BY <2>4, <3>1 DEF LineInv
    <3>2. CASE p \notin Station[a]
      <4>1. a = k + 1 /\ p = x
        BY <2>2, <3>2
      <4>2. k < b /\ b # k + 1
        BY <2>2, <2>4, <4>1 DEF Stops
      <4>3. q \in Station[b]
        BY <2>2, <4>2
      <4>. QED
        BY <2>2, <2>4, <4>1, <4>2, <4>3 DEF LineInv
    <3>3. CASE p \in Station[a] /\ q \notin Station[b]
      <4>1. b = k + 1 /\ q = x
        BY <2>2, <3>3
      <4>2. a = k \/ a < k
        BY <2>2, <2>4, <4>1 DEF Stops
      <4>3. CASE a = k
        BY <2>3, <2>4, <4>1, <4>3
      <4>4. CASE a < k
        BY <2>2, <2>4, <3>3, <4>1, <4>4 DEF LineInv
      <4>. QED
        BY <4>2, <4>3, <4>4
    <3>. QED
      BY <3>1, <3>2, <3>3
  <2>5. read
    BY <1>3, <2>2 DEF LineInv
  <2>. QED
    BY <2>4, <2>5
<1>4. CASE UNCHANGED total /\ \E k \in Stops, x \in Ids : Leaves(k, x)
  <2>1. \A j \in Stops : T[j] \subseteq Station[j]
    BY <1>0, <1>4 DEF Leaves
  <2>. QED
    BY <1>4, <2>1 DEF LineInv
<1>5. CASE total' = total + 1 /\ Enters(total + 1)
  <2>. DEFINE x == total + 1
  <2>1. /\ \A j \in Stops \ {1} : T[j] = Station[j]
        /\ T[1] = Station[1] \cup {x}
        /\ 1 \in Stops /\ \A j \in Stops : ~(j < 1)
    BY <1>0, <1>5 DEF Enters, Stops
  <2>2. \A a \in Stops : \A p \in Station[a] : p \in Nat /\ p <= total
    BY <1>0 DEF LineInv
  <2>3. \A a \in Stops : \A p \in Station[a] : p < x
    BY <1>0, <2>2
  <2>4. ASSUME NEW a \in Stops, NEW b \in Stops, NEW p \in T[a], NEW q \in T[b],
               a < b, Flow(p) = Flow(q)
        PROVE  q < p
    <3>1. b # 1
      BY <2>1, <2>4
    <3>2. q \in Station[b]
      BY <2>1, <3>1
    <3>3. CASE p \in Station[a]
      BY <2>4, <3>2, <3>3 DEF LineInv
    <3>4. CASE p \notin Station[a]
      <4>1. p = x
        BY <2>1, <3>4
      <4>. QED
        BY <2>3, <3>2, <4>1
    <3>. QED
      BY <3>3, <3>4
  <2>5. read
    <3>1. \A a \in Stops : \A p \in T[a] : p \in Station[a] \/ p = x
      BY <2>1
    <3>. SUFFICES ASSUME NEW a \in Stops, NEW p \in T[a] PROVE p <= total'
      OBVIOUS
    <3>2. CASE p = x
      BY <1>0, <1>5, <3>2
    <3>3. CASE p \in Station[a]
      BY <1>0, <1>5, <2>2, <3>3
    <3>. QED
      BY <3>1, <3>2, <3>3
  <2>. QED
    BY <2>4, <2>5
<1>. QED
  BY <1>2, <1>3, <1>4, <1>5

-----------------------------------------------------------------------------
(* What each step of the pipeline does to the stations. *)

\* Where a packet is, one station at a time, before and after a step.
LEMMA Standing ==
    ASSUME NEW p
    PROVE  LET lb == SelectLB(Flow(p))
               fp == Home(Flow(p))
           IN
           /\ At(p, 1) <=> p \in Range(queue[lb])
           /\ At(p, 2) <=> pc[lb] = "push" /\ hand[lb] = p
           /\ At(p, 3) <=> p \in Range(queue[fp])
           /\ At(p, 4) <=> pc[fp] = "inspect" /\ hand[fp] = p
           /\ At(p, 5) <=> pc[fp] = "push" /\ hand[fp] = p
           /\ At(p, 6) <=> p \in Range(queue[Writer])
           /\ At(p, 7) <=> p \in Range(written)
  BY DEF At

\* The stations in the next state.
LEMMA StandingNext ==
    ASSUME capture' = capture, NEW p
    PROVE  LET lb == SelectLB(Flow(p))
               fp == Home(Flow(p))
           IN
           /\ At(p, 1)' <=> p \in Range(queue'[lb])
           /\ At(p, 2)' <=> pc'[lb] = "push" /\ hand'[lb] = p
           /\ At(p, 3)' <=> p \in Range(queue'[fp])
           /\ At(p, 4)' <=> pc'[fp] = "inspect" /\ hand'[fp] = p
           /\ At(p, 5)' <=> pc'[fp] = "push" /\ hand'[fp] = p
           /\ At(p, 6)' <=> p \in Range(queue'[Writer])
           /\ At(p, 7)' <=> p \in Range(written')
<1>1. SelectLB(Flow(p))' = SelectLB(Flow(p)) /\ Home(Flow(p))' = Home(Flow(p))
  BY DEF Flow, SelectLB, SelectFP, Home
<1>. QED
  BY <1>1 DEF At, Range

\* A station by station account of a step is an account of the stations.
LEMMA StationsMove ==
    ASSUME capture' = capture, NEW k \in 1 .. 6, NEW x \in Ids,
           \A p \in Ids, j \in Stops :
               At(p, j)' <=> \/ At(p, j) /\ ~(j = k /\ p = x)
                             \/ j = k + 1 /\ p = x
    PROVE  Station' = [Station EXCEPT ![k] = @ \ {x}, ![k + 1] = @ \cup {x}]
<1>1. Ids' = Ids /\ k \in Stops /\ k + 1 \in Stops /\ k # k + 1
  BY DEF Ids, Stops
<1>2. Station' = [j \in Stops |-> {p \in Ids : At(p, j)'}]
  BY <1>1 DEF Station
<1>. DEFINE S == Station
            T == [S EXCEPT ![k] = @ \ {x}, ![k + 1] = @ \cup {x}]
<1>3. /\ DOMAIN S = Stops
      /\ \A j \in Stops : S[j] = {p \in Ids : At(p, j)}
  BY DEF Station
<1>0. /\ T[k] = S[k] \ {x} /\ T[k + 1] = S[k + 1] \cup {x}
      /\ \A j \in Stops \ {k, k + 1} : T[j] = S[j]
  BY <1>1, <1>3
<1>5. T = [j \in Stops |-> T[j]]
  BY <1>3
<1>. HIDE DEF S, T
<1>4. ASSUME NEW j \in Stops PROVE {p \in Ids : At(p, j)'} = T[j]
  <2>. DEFINE here == {p \in Ids : At(p, j)}
              there == {p \in Ids : At(p, j)'}
  <2>1. there = IF j = k + 1 THEN here \cup {x}
                ELSE IF j = k THEN here \ {x} ELSE here
    BY <1>1
  <2>2. S[j] = here
    BY <1>3
  <2>. HIDE DEF here, there
  <2>3. there = T[j]
    BY <1>0, <1>1, <2>1, <2>2
  <2>. QED
    BY <2>3 DEF there
<1>6. [j \in Stops |-> {p \in Ids : At(p, j)'}] = [j \in Stops |-> T[j]]
  BY <1>4
<1>7. Station' = T
  BY <1>2, <1>5, <1>6
<1>. QED
  BY <1>7 DEF S, T

\* In terms of single packets: one that enters joins the first station.
LEMMA StationsEnter ==
    ASSUME capture' = capture, NEW x \in Ids,
           \A p \in Ids, j \in Stops : At(p, j)' <=> At(p, j) \/ (j = 1 /\ p = x)
    PROVE  Station' = [Station EXCEPT ![1] = @ \cup {x}]
<1>1. Ids' = Ids /\ 1 \in Stops
  BY DEF Ids, Stops
<1>2. Station' = [j \in Stops |-> {p \in Ids : At(p, j)'}]
  BY <1>1 DEF Station
<1>3. ASSUME NEW j \in Stops
      PROVE  {p \in Ids : At(p, j)'} =
             IF j = 1 THEN {p \in Ids : At(p, j)} \cup {x}
             ELSE {p \in Ids : At(p, j)}
  OBVIOUS
<1>. QED
  BY <1>1, <1>2, <1>3 DEF Station

\* One that is dropped leaves its station.
LEMMA StationsLeave ==
    ASSUME capture' = capture, NEW k \in Stops, NEW x \in Ids,
           \A p \in Ids, j \in Stops : At(p, j)' <=> At(p, j) /\ ~(j = k /\ p = x)
    PROVE  Station' = [Station EXCEPT ![k] = @ \ {x}]
<1>1. Ids' = Ids
  BY DEF Ids
<1>2. Station' = [j \in Stops |-> {p \in Ids : At(p, j)'}]
  BY <1>1 DEF Station
<1>3. ASSUME NEW j \in Stops
      PROVE  {p \in Ids : At(p, j)'} =
             IF j = k THEN {p \in Ids : At(p, j)} \ {x}
             ELSE {p \in Ids : At(p, j)}
  OBVIOUS
<1>. QED
  BY <1>2, <1>3 DEF Station

\* The other conjuncts after a step, in terms of what it leaves.
LEMMA SortedStep ==
    ASSUME capture' = capture,
           Sorted(written'), \A t \in Threads : Sorted(queue'[t])
    PROVE  SortedInv'
  BY DEF SortedInv, Sorted, Flow

\* What the next state has to show to keep packets at their own threads.
LEMMA RoutedStep ==
    ASSUME capture' = capture,
           \A lb \in LBs :
               /\ \A p \in Range(queue'[lb]) : SelectLB(Flow(p)) = lb
               /\ pc'[lb] = "push" => SelectLB(Flow(hand'[lb])) = lb
               /\ pc'[lb] # "inspect",
           \A fp \in FPs :
               /\ \A p \in Range(queue'[fp]) : Home(Flow(p)) = fp
               /\ pc'[fp] \in {"inspect", "push"} => Home(Flow(hand'[fp])) = fp,
           pc'[Writer] \notin {"inspect", "push"}
    PROVE  RoutedInv'
<1>1. \A p : Flow(p)' = Flow(p)
  BY DEF Flow
<1>. QED
  BY <1>1 DEF RoutedInv, Range, SelectLB, SelectFP, Home, Flow

\* A load balancer pops: its packet goes from its queue to its hands.
LEMMA LBTakeMoves ==
    ASSUME TypeOK, OrderInv, NEW lb \in LBs, LBTake(lb)
    PROVE  /\ Head(queue[lb]) \in Ids /\ Moves(1, Head(queue[lb]))
           /\ RoutedInv' /\ SortedInv'
<1>. DEFINE x == Head(queue[lb])
<1>0. /\ pc[lb] = "pop" /\ queue[lb] # <<>>
      /\ hand' = [hand EXCEPT ![lb] = x]
      /\ queue' = [queue EXCEPT ![lb] = Tail(queue[lb])]
      /\ pc' = [pc EXCEPT ![lb] = "push"]
      /\ capture' = capture /\ written' = written
  BY DEF LBTake, Take
<1>1. /\ queue \in [Threads -> Seq(Ids)] /\ hand \in [Threads -> Ids \cup {Nothing}]
      /\ pc \in [Threads -> Places] /\ lb \in Threads
  BY Apart DEF TypeOK
<1>2. /\ x \in Ids /\ x \in Range(queue[lb])
      /\ Range(Tail(queue[lb])) = Range(queue[lb]) \ {x}
      /\ Sorted(Tail(queue[lb]))
      /\ \A p \in Range(Tail(queue[lb])) : Flow(p) = Flow(x) => x < p
  BY <1>0, <1>1, Taken DEF OrderInv, SortedInv
<1>3. SelectLB(Flow(x)) = lb
  BY <1>2 DEF OrderInv, RoutedInv
<1>. HIDE DEF x
<1>4. /\ \A t \in Threads \ {lb} : /\ queue'[t] = queue[t] /\ hand'[t] = hand[t]
                                   /\ pc'[t] = pc[t]
      /\ queue'[lb] = Tail(queue[lb]) /\ hand'[lb] = x /\ pc'[lb] = "push"
  BY <1>0, <1>1
<1>5. \A p \in Ids, j \in Stops :
          At(p, j)' <=> \/ At(p, j) /\ ~(j = 1 /\ p = x)
                        \/ j = 1 + 1 /\ p = x
  <2>. SUFFICES ASSUME NEW p \in Ids, NEW j \in Stops
                PROVE  At(p, j)' <=> \/ At(p, j) /\ ~(j = 1 /\ p = x)
                                     \/ j = 1 + 1 /\ p = x
    OBVIOUS
  <2>. DEFINE f == SelectLB(Flow(p))
              g == Home(Flow(p))
  <2>1. f \in LBs /\ g \in FPs
    BY Routes
  <2>2. p = x => f = lb
    BY <1>3
  <2>3. /\ f \in Threads /\ g \in Threads /\ g # lb /\ Writer # lb
        /\ Writer \in Threads
    BY <2>1, Apart
  <2>4. j \in {1, 2, 3, 4, 5, 6, 7}
    BY DEF Stops
  <2>5. pc[lb] = "pop" /\ hand'[lb] = x
    BY <1>0, <1>4
  <2>. HIDE DEF f, g
  <2>6. /\ At(p, 1)' <=> At(p, 1) /\ p # x
        /\ At(p, 2)' <=> At(p, 2) \/ p = x
        /\ At(p, 3)' <=> At(p, 3)
        /\ At(p, 4)' <=> At(p, 4)
        /\ At(p, 5)' <=> At(p, 5)
        /\ At(p, 6)' <=> At(p, 6)
        /\ At(p, 7)' <=> At(p, 7)
    BY <1>0, <1>2, <1>4, <2>2, <2>3, <2>5, Standing, StandingNext DEF f, g
  <2>. QED
    BY <2>4, <2>6
<1>6. Station' = [Station EXCEPT ![1] = @ \ {x}, ![1 + 1] = @ \cup {x}]
  BY <1>0, <1>2, <1>5, StationsMove
<1>7. x \in Station[1] /\ \A p \in Station[1] : Flow(p) = Flow(x) => x <= p
  <2>1. Station[1] = {p \in Ids : At(p, 1)} /\ Ids \subseteq Nat
    BY DEF Station, Stops, Ids
  <2>. SUFFICES ASSUME NEW p \in Ids, At(p, 1), Flow(p) = Flow(x) PROVE x <= p
    BY <1>2, <1>3, <2>1, Standing
  <2>2. p \in Range(queue[lb])
    BY <1>3, Standing
  <2>. QED
    BY <1>2, <2>1, <2>2
<1>8. RoutedInv'
  BY <1>0, <1>2, <1>3, <1>4, Apart, RoutedStep DEF OrderInv, RoutedInv
<1>9. SortedInv'
  BY <1>0, <1>1, <1>2, <1>4, SortedStep DEF OrderInv, SortedInv
<1>. QED
  BY <1>2, <1>6, <1>7, <1>8, <1>9 DEF Moves, x

\* A fast path pops: its packet goes from its queue to its hands.
LEMMA FPTakeMoves ==
    ASSUME TypeOK, OrderInv, NEW fp \in FPs, FPTake(fp)
    PROVE  /\ Head(queue[fp]) \in Ids /\ Moves(3, Head(queue[fp]))
           /\ RoutedInv' /\ SortedInv'
<1>. DEFINE x == Head(queue[fp])
<1>0. /\ pc[fp] = "pop" /\ queue[fp] # <<>>
      /\ hand' = [hand EXCEPT ![fp] = x]
      /\ queue' = [queue EXCEPT ![fp] = Tail(queue[fp])]
      /\ pc' = [pc EXCEPT ![fp] = "inspect"]
      /\ capture' = capture /\ written' = written
  BY DEF FPTake, Take
<1>1. /\ queue \in [Threads -> Seq(Ids)] /\ hand \in [Threads -> Ids \cup {Nothing}]
      /\ pc \in [Threads -> Places] /\ fp \in Threads
  BY Apart DEF TypeOK
<1>2. /\ x \in Ids /\ x \in Range(queue[fp])
      /\ Range(Tail(queue[fp])) = Range(queue[fp]) \ {x}
      /\ Sorted(Tail(queue[fp]))
      /\ \A p \in Range(Tail(queue[fp])) : Flow(p) = Flow(x) => x < p
  BY <1>0, <1>1, Taken DEF OrderInv, SortedInv
<1>3. Home(Flow(x)) = fp
  BY <1>2 DEF OrderInv, RoutedInv
<1>. HIDE DEF x
<1>4. /\ \A t \in Threads \ {fp} : /\ queue'[t] = queue[t] /\ hand'[t] = hand[t]
                                   /\ pc'[t] = pc[t]
      /\ queue'[fp] = Tail(queue[fp]) /\ hand'[fp] = x /\ pc'[fp] = "inspect"
  BY <1>0, <1>1
<1>5. \A p \in Ids, j \in Stops :
          At(p, j)' <=> \/ At(p, j) /\ ~(j = 3 /\ p = x)
                        \/ j = 3 + 1 /\ p = x
  <2>. SUFFICES ASSUME NEW p \in Ids, NEW j \in Stops
                PROVE  At(p, j)' <=> \/ At(p, j) /\ ~(j = 3 /\ p = x)
                                     \/ j = 3 + 1 /\ p = x
    OBVIOUS
  <2>. DEFINE f == SelectLB(Flow(p))
              g == Home(Flow(p))
  <2>1. f \in LBs /\ g \in FPs
    BY Routes
  <2>2. p = x => g = fp
    BY <1>3
  <2>3. /\ f \in Threads /\ g \in Threads /\ f # fp /\ Writer # fp
        /\ Writer \in Threads
    BY <2>1, Apart
  <2>4. j \in {1, 2, 3, 4, 5, 6, 7}
    BY DEF Stops
  <2>5. pc[fp] = "pop" /\ hand'[fp] = x
    BY <1>0, <1>4
  <2>. HIDE DEF f, g
  <2>6. /\ At(p, 1)' <=> At(p, 1)
        /\ At(p, 2)' <=> At(p, 2)
        /\ At(p, 3)' <=> At(p, 3) /\ p # x
        /\ At(p, 4)' <=> At(p, 4) \/ p = x
        /\ At(p, 5)' <=> At(p, 5)
        /\ At(p, 6)' <=> At(p, 6)
        /\ At(p, 7)' <=> At(p, 7)
    BY <1>0, <1>2, <1>4, <2>2, <2>3, <2>5, Standing, StandingNext DEF f, g
  <2>. QED
    BY <2>4, <2>6
<1>6. Station' = [Station EXCEPT ![3] = @ \ {x}, ![3 + 1] = @ \cup {x}]
  BY <1>0, <1>2, <1>5, StationsMove
<1>7. x \in Station[3] /\ \A p \in Station[3] : Flow(p) = Flow(x) => x <= p
  <2>1. Station[3] = {p \in Ids : At(p, 3)} /\ Ids \subseteq Nat
    BY DEF Station, Stops, Ids
  <2>. SUFFICES ASSUME NEW p \in Ids, At(p, 3), Flow(p) = Flow(x) PROVE x <= p
    BY <1>2, <1>3, <2>1, Standing
  <2>2. p \in Range(queue[fp])
    BY <1>3, Standing
  <2>. QED
    BY <1>2, <2>1, <2>2
<1>8. RoutedInv'
  BY <1>0, <1>2, <1>3, <1>4, Apart, RoutedStep DEF OrderInv, RoutedInv
<1>9. SortedInv'
  BY <1>0, <1>1, <1>2, <1>4, SortedStep DEF OrderInv, SortedInv
<1>. QED
  BY <1>2, <1>6, <1>7, <1>8, <1>9 DEF Moves, x

\* The writer pops: its packet goes from its queue to the file.
LEMMA WriterTakeMoves ==
    ASSUME TypeOK, OrderInv, WriterTake
    PROVE  /\ Head(queue[Writer]) \in Ids /\ Moves(6, Head(queue[Writer]))
           /\ RoutedInv' /\ SortedInv'
<1>. DEFINE x == Head(queue[Writer])
<1>0. /\ pc[Writer] = "pop" /\ queue[Writer] # <<>>
      /\ hand' = hand
      /\ queue' = [queue EXCEPT ![Writer] = Tail(queue[Writer])]
      /\ pc' = [pc EXCEPT ![Writer] = "loop"]
      /\ capture' = capture /\ written' = Append(written, x)
  BY DEF WriterTake
<1>1. /\ queue \in [Threads -> Seq(Ids)] /\ hand \in [Threads -> Ids \cup {Nothing}]
      /\ pc \in [Threads -> Places] /\ Writer \in Threads
      /\ written \in Seq(Ids)
  BY Apart DEF TypeOK
<1>2. /\ x \in Ids /\ x \in Range(queue[Writer])
      /\ Range(Tail(queue[Writer])) = Range(queue[Writer]) \ {x}
      /\ Sorted(Tail(queue[Writer]))
      /\ \A p \in Range(Tail(queue[Writer])) : Flow(p) = Flow(x) => x < p
  BY <1>0, <1>1, Taken DEF OrderInv, SortedInv
<1>. HIDE DEF x
<1>3. x \in Station[6] /\ \A p \in Station[6] : Flow(p) = Flow(x) => x <= p
  <2>1. Station[6] = {p \in Ids : At(p, 6)} /\ Ids \subseteq Nat
    BY DEF Station, Stops, Ids
  <2>. SUFFICES ASSUME NEW p \in Ids, At(p, 6), Flow(p) = Flow(x) PROVE x <= p
    BY <1>2, <2>1, Standing
  <2>2. p \in Range(queue[Writer])
    BY Standing
  <2>. QED
    BY <1>2, <2>1, <2>2
<1>4. /\ \A t \in Threads \ {Writer} : queue'[t] = queue[t] /\ pc'[t] = pc[t]
      /\ queue'[Writer] = Tail(queue[Writer]) /\ pc'[Writer] = "loop"
  BY <1>0, <1>1
<1>5. \A p \in Range(written) : Flow(p) = Flow(x) => p < x
  <2>. SUFFICES ASSUME NEW p \in Range(written), Flow(p) = Flow(x) PROVE p < x
    OBVIOUS
  <2>1. p \in Ids
    BY <1>1 DEF Range
  <2>2. p \in Station[7] /\ 6 \in Stops /\ 7 \in Stops /\ 6 < 7
    BY <2>1, Standing DEF Station, Stops
  <2>. QED
    BY <1>3, <2>2 DEF OrderInv, LineInv
<1>6. Range(written') = Range(written) \cup {x} /\ Sorted(written')
  BY <1>0, <1>1, <1>2, <1>5, Appended DEF OrderInv, SortedInv
<1>7. \A p \in Ids, j \in Stops :
          At(p, j)' <=> \/ At(p, j) /\ ~(j = 6 /\ p = x)
                        \/ j = 6 + 1 /\ p = x
  <2>. SUFFICES ASSUME NEW p \in Ids, NEW j \in Stops
                PROVE  At(p, j)' <=> \/ At(p, j) /\ ~(j = 6 /\ p = x)
                                     \/ j = 6 + 1 /\ p = x
    OBVIOUS
  <2>. DEFINE f == SelectLB(Flow(p))
              g == Home(Flow(p))
  <2>1. f \in Threads /\ g \in Threads /\ f # Writer /\ g # Writer
    BY Routes, Apart
  <2>2. j \in {1, 2, 3, 4, 5, 6, 7}
    BY DEF Stops
  <2>. HIDE DEF f, g
  <2>3. /\ At(p, 1)' <=> At(p, 1)
        /\ At(p, 2)' <=> At(p, 2)
        /\ At(p, 3)' <=> At(p, 3)
        /\ At(p, 4)' <=> At(p, 4)
        /\ At(p, 5)' <=> At(p, 5)
        /\ At(p, 6)' <=> At(p, 6) /\ p # x
        /\ At(p, 7)' <=> At(p, 7) \/ p = x
    BY <1>0, <1>2, <1>4, <1>6, <2>1, Standing, StandingNext DEF f, g
  <2>. QED
    BY <2>2, <2>3
<1>8. Station' = [Station EXCEPT ![6] = @ \ {x}, ![6 + 1] = @ \cup {x}]
  BY <1>0, <1>2, <1>7, StationsMove
<1>9. RoutedInv'
  BY <1>0, <1>4, Apart, RoutedStep DEF OrderInv, RoutedInv
<1>10. SortedInv'
  BY <1>0, <1>1, <1>2, <1>4, <1>6, SortedStep DEF OrderInv, SortedInv
<1>. QED
  BY <1>2, <1>3, <1>8, <1>9, <1>10 DEF Moves, x

\* The reader puts the next packet in the queue of its load balancer, which
\* has not been shut down.
LEMMA ReadEnters ==
    ASSUME TypeOK, ShutdownOrder, OrderInv, Read
    PROVE  Enters(total + 1) /\ RoutedInv' /\ SortedInv'
<1>. DEFINE x == total + 1
            lb == SelectLB(Flow(x))
<1>1. x \in Ids
  BY CaptureAssumption DEF Read, TypeOK, Ids
<1>2. lb \in LBs /\ lb \in Threads /\ lb # Writer
  BY <1>1, Routes, Apart
<1>3. ~shut[lb]
  BY <1>2 DEF Read, ShutdownOrder
<1>4. /\ queue' = [queue EXCEPT ![lb] = Append(queue[lb], x)]
      /\ capture' = capture /\ written' = written
      /\ pc' = pc /\ hand' = hand
  BY <1>3 DEF Read, Pushed
<1>5. /\ queue \in [Threads -> Seq(Ids)] /\ written \in Seq(Ids)
      /\ total \in Nat /\ Ids \subseteq Nat
  BY DEF TypeOK, Ids
<1>6. SelectLB(Flow(x)) = lb
  OBVIOUS
<1>0. x = total + 1
  OBVIOUS
<1>. HIDE DEF x, lb
<1>7. \A p \in Range(queue[lb]) : p < x
  <2>. SUFFICES ASSUME NEW p \in Range(queue[lb]) PROVE p < x
    OBVIOUS
  <2>1. p \in Ids
    BY <1>2, <1>5 DEF Range
  <2>2. SelectLB(Flow(p)) = lb
    BY <1>2 DEF OrderInv, RoutedInv
  <2>3. p \in Station[1] /\ 1 \in Stops
    BY <2>1, <2>2, Standing DEF Station, Stops
  <2>4. p <= total
    BY <2>3 DEF OrderInv, LineInv
  <2>. QED
    BY <1>0, <1>5, <2>1, <2>4
<1>8. /\ Range(Append(queue[lb], x)) = Range(queue[lb]) \cup {x}
      /\ Sorted(Append(queue[lb], x))
  BY <1>1, <1>2, <1>5, <1>7, Appended DEF OrderInv, SortedInv
<1>9. /\ \A t \in Threads \ {lb} : queue'[t] = queue[t]
      /\ queue'[lb] = Append(queue[lb], x)
  BY <1>2, <1>4, <1>5
<1>10. \A p \in Ids, j \in Stops :
           At(p, j)' <=> At(p, j) \/ (j = 1 /\ p = x)
  <2>. SUFFICES ASSUME NEW p \in Ids, NEW j \in Stops
                PROVE  At(p, j)' <=> At(p, j) \/ (j = 1 /\ p = x)
    OBVIOUS
  <2>. DEFINE f == SelectLB(Flow(p))
              g == Home(Flow(p))
  <2>1. f \in Threads /\ g \in Threads /\ g # lb /\ Writer # lb /\ Writer \in Threads
    BY <1>2, Routes, Apart
  <2>2. j \in {1, 2, 3, 4, 5, 6, 7}
    BY DEF Stops
  <2>3. p = x => f = lb
    BY <1>6
  <2>. HIDE DEF f, g
  <2>4. /\ At(p, 1)' <=> At(p, 1) \/ p = x
        /\ At(p, 2)' <=> At(p, 2)
        /\ At(p, 3)' <=> At(p, 3)
        /\ At(p, 4)' <=> At(p, 4)
        /\ At(p, 5)' <=> At(p, 5)
        /\ At(p, 6)' <=> At(p, 6)
        /\ At(p, 7)' <=> At(p, 7)
    BY <1>4, <1>8, <1>9, <2>1, <2>3, Standing, StandingNext DEF f, g
  <2>. QED
    BY <2>2, <2>4
<1>11. Station' = [Station EXCEPT ![1] = @ \cup {x}]
  BY <1>1, <1>4, <1>10, StationsEnter
<1>12. RoutedInv'
  BY <1>1, <1>2, <1>4, <1>6, <1>8, <1>9, Apart, RoutedStep DEF OrderInv, RoutedInv
<1>13. SortedInv'
  BY <1>4, <1>5, <1>8, <1>9, SortedStep DEF OrderInv, SortedInv
<1>. QED
  BY <1>0, <1>1, <1>11, <1>12, <1>13 DEF Enters

\* A load balancer pushes: its packet goes from its hands to the queue of the
\* fast path of the flow, which has not been shut down.
LEMMA LBPushMoves ==
    ASSUME TypeOK, ShutdownOrder, OrderInv, NEW lb \in LBs, LBPush(lb)
    PROVE  /\ hand[lb] \in Ids /\ Moves(2, hand[lb])
           /\ RoutedInv' /\ SortedInv'
<1>. DEFINE x == hand[lb]
            fp == SelectFP(lb, Flow(x))
<1>1. lb \in Threads /\ x \in Ids
  BY Apart DEF LBPush, TypeOK
<1>2. SelectLB(Flow(x)) = lb /\ Home(Flow(x)) = fp
  BY DEF LBPush, OrderInv, RoutedInv, Home
<1>3. fp \in FPs /\ fp \in Threads /\ fp # lb /\ fp # Writer
  BY <1>1, <1>2, Routes, Apart
<1>4. ~shut[fp]
  BY <1>3 DEF LBPush, ShutdownOrder
<1>5. /\ queue' = [queue EXCEPT ![fp] = Append(queue[fp], x)]
      /\ hand' = [hand EXCEPT ![lb] = Nothing]
      /\ pc' = [pc EXCEPT ![lb] = "loop"]
      /\ capture' = capture /\ written' = written /\ pc[lb] = "push"
  BY <1>4 DEF LBPush, Pushed
<1>6. /\ queue \in [Threads -> Seq(Ids)] /\ hand \in [Threads -> Ids \cup {Nothing}]
      /\ pc \in [Threads -> Places] /\ Ids \subseteq Nat \ {Nothing}
  BY DEF TypeOK, Ids, Nothing
<1>0. hand[lb] = x
  OBVIOUS
<1>. HIDE DEF x, fp
<1>7. x \in Station[2] /\ \A p \in Station[2] : Flow(p) = Flow(x) => x <= p
  <2>1. Station[2] = {p \in Ids : At(p, 2)}
    BY DEF Station, Stops
  <2>. SUFFICES ASSUME NEW p \in Ids, At(p, 2), Flow(p) = Flow(x) PROVE x <= p
    BY <1>0, <1>1, <1>2, <1>5, <2>1, Standing
  <2>2. p = x
    BY <1>0, <1>2, Standing
  <2>. QED
    BY <1>1, <1>6, <2>2
<1>8. \A p \in Range(queue[fp]) : Flow(p) = Flow(x) => p < x
  <2>. SUFFICES ASSUME NEW p \in Range(queue[fp]), Flow(p) = Flow(x) PROVE p < x
    OBVIOUS
  <2>1. p \in Ids
    BY <1>3, <1>6 DEF Range
  <2>2. p \in Station[3] /\ 2 \in Stops /\ 3 \in Stops /\ 2 < 3
    BY <1>2, <2>1, Standing DEF Station, Stops
  <2>. QED
    BY <1>7, <2>2 DEF OrderInv, LineInv
<1>9. /\ Range(Append(queue[fp], x)) = Range(queue[fp]) \cup {x}
      /\ Sorted(Append(queue[fp], x))
  BY <1>1, <1>3, <1>6, <1>8, Appended DEF OrderInv, SortedInv
<1>10. /\ \A t \in Threads \ {fp} : queue'[t] = queue[t]
       /\ \A t \in Threads \ {lb} : hand'[t] = hand[t] /\ pc'[t] = pc[t]
       /\ queue'[fp] = Append(queue[fp], x) /\ pc'[lb] = "loop"
  BY <1>1, <1>3, <1>5, <1>6
<1>11. \A p \in Ids, j \in Stops :
           At(p, j)' <=> \/ At(p, j) /\ ~(j = 2 /\ p = x)
                         \/ j = 2 + 1 /\ p = x
  <2>. SUFFICES ASSUME NEW p \in Ids, NEW j \in Stops
                PROVE  At(p, j)' <=> \/ At(p, j) /\ ~(j = 2 /\ p = x)
                                     \/ j = 2 + 1 /\ p = x
    OBVIOUS
  <2>. DEFINE f == SelectLB(Flow(p))
              g == Home(Flow(p))
  <2>1. /\ f \in Threads /\ g \in Threads /\ f # fp /\ g # lb /\ g # Writer
        /\ Writer # lb /\ Writer \in Threads
    BY <1>3, Routes, Apart
  <2>2. j \in {1, 2, 3, 4, 5, 6, 7}
    BY DEF Stops
  <2>3. p = x => f = lb /\ g = fp
    BY <1>2
  <2>. HIDE DEF f, g
  <2>4. /\ At(p, 1)' <=> At(p, 1)
        /\ At(p, 2)' <=> At(p, 2) /\ p # x
        /\ At(p, 3)' <=> At(p, 3) \/ p = x
        /\ At(p, 4)' <=> At(p, 4)
        /\ At(p, 5)' <=> At(p, 5)
        /\ At(p, 6)' <=> At(p, 6)
        /\ At(p, 7)' <=> At(p, 7)
    BY <1>0, <1>3, <1>5, <1>9, <1>10, <2>1, <2>3, Standing, StandingNext DEF f, g
  <2>. QED
    BY <2>2, <2>4
<1>12. Station' = [Station EXCEPT ![2] = @ \ {x}, ![2 + 1] = @ \cup {x}]
  <2>1. capture' = capture /\ 2 \in 1 .. 6 /\ x \in Ids
    BY <1>1, <1>5
  <2>. QED
    BY <1>11, <2>1, StationsMove
<1>13. RoutedInv'
  BY <1>1, <1>2, <1>3, <1>9, <1>10, <1>5, Apart, RoutedStep DEF OrderInv, RoutedInv
<1>14. SortedInv'
  BY <1>5, <1>6, <1>9, <1>10, SortedStep DEF OrderInv, SortedInv
<1>. QED
  BY <1>1, <1>7, <1>12, <1>13, <1>14 DEF Moves, x

\* A fast path judges: its packet stays in its hands, to be pushed, or is
\* nowhere any more.
LEMMA FPInspectMoves ==
    ASSUME TypeOK, OrderInv, NEW fp \in FPs, FPInspect(fp)
    PROVE  /\ hand[fp] \in Ids
           /\ \/ Moves(4, hand[fp]) /\ pc' = [pc EXCEPT ![fp] = "push"]
              \/ Leaves(4, hand[fp]) /\ pc' = [pc EXCEPT ![fp] = "loop"]
           /\ RoutedInv' /\ SortedInv'
<1>. DEFINE x == hand[fp]
            e == Identify(x, flows[fp][Flow(x)])
<1>1. fp \in Threads /\ fp # Writer /\ x \in Ids
  BY Apart DEF FPInspect, TypeOK
<1>2. Home(Flow(x)) = fp
  BY DEF FPInspect, OrderInv, RoutedInv
<1>3. /\ queue' = queue /\ capture' = capture /\ written' = written
      /\ pc[fp] = "inspect" /\ Verdict(fp, x, e)
  BY DEF FPInspect
<1>. HIDE DEF e
<1>4. \/ hand' = [hand EXCEPT ![fp] = Nothing] /\ pc' = [pc EXCEPT ![fp] = "loop"]
      \/ hand' = hand /\ pc' = [pc EXCEPT ![fp] = "push"]
  BY <1>3 DEF Verdict
<1>5. /\ queue \in [Threads -> Seq(Ids)] /\ hand \in [Threads -> Ids \cup {Nothing}]
      /\ pc \in [Threads -> Places] /\ Ids \subseteq Nat \ {Nothing}
  BY DEF TypeOK, Ids, Nothing
<1>0. hand[fp] = x
  OBVIOUS
<1>. HIDE DEF x
<1>6. x \in Station[4] /\ \A p \in Station[4] : Flow(p) = Flow(x) => x <= p
  <2>1. Station[4] = {p \in Ids : At(p, 4)}
    BY DEF Station, Stops
  <2>. SUFFICES ASSUME NEW p \in Ids, At(p, 4), Flow(p) = Flow(x) PROVE x <= p
    BY <1>0, <1>1, <1>2, <1>3, <2>1, Standing
  <2>2. p = x
    BY <1>0, <1>2, Standing
  <2>. QED
    BY <1>1, <1>5, <2>2
<1>7. SortedInv'
  BY <1>3, SortedStep DEF OrderInv, SortedInv
<1>8. CASE hand' = [hand EXCEPT ![fp] = Nothing] /\ pc' = [pc EXCEPT ![fp] = "loop"]
  <2>1. /\ \A t \in Threads \ {fp} : hand'[t] = hand[t] /\ pc'[t] = pc[t]
        /\ pc'[fp] = "loop"
    BY <1>1, <1>5, <1>8
  <2>2. \A p \in Ids, j \in Stops : At(p, j)' <=> At(p, j) /\ ~(j = 4 /\ p = x)
    <3>. SUFFICES ASSUME NEW p \in Ids, NEW j \in Stops
                  PROVE  At(p, j)' <=> At(p, j) /\ ~(j = 4 /\ p = x)
      OBVIOUS
    <3>. DEFINE f == SelectLB(Flow(p))
                g == Home(Flow(p))
    <3>1. f \in Threads /\ g \in Threads /\ f # fp
      BY Routes, Apart
    <3>2. j \in {1, 2, 3, 4, 5, 6, 7}
      BY DEF Stops
    <3>3. p = x => g = fp
      BY <1>2
    <3>. HIDE DEF f, g
    <3>4. /\ At(p, 1)' <=> At(p, 1)
          /\ At(p, 2)' <=> At(p, 2)
          /\ At(p, 3)' <=> At(p, 3)
          /\ At(p, 4)' <=> At(p, 4) /\ p # x
          /\ At(p, 5)' <=> At(p, 5)
          /\ At(p, 6)' <=> At(p, 6)
          /\ At(p, 7)' <=> At(p, 7)
      BY <1>0, <1>3, <2>1, <3>1, <3>3, Standing, StandingNext DEF f, g
    <3>. QED
      BY <3>2, <3>4
  <2>3. Station' = [Station EXCEPT ![4] = @ \ {x}]
    <3>1. capture' = capture /\ 4 \in Stops /\ x \in Ids
      BY <1>1, <1>3 DEF Stops
    <3>. QED
      BY <2>2, <3>1, StationsLeave
  <2>4. RoutedInv'
    BY <1>1, <1>3, <2>1, Apart, RoutedStep DEF OrderInv, RoutedInv
  <2>. QED
    BY <1>1, <1>6, <1>7, <1>8, <2>3, <2>4 DEF Leaves, x
<1>9. CASE hand' = hand /\ pc' = [pc EXCEPT ![fp] = "push"]
  <2>1. /\ \A t \in Threads \ {fp} : pc'[t] = pc[t]
        /\ pc'[fp] = "push"
    BY <1>1, <1>5, <1>9
  <2>2. \A p \in Ids, j \in Stops :
            At(p, j)' <=> \/ At(p, j) /\ ~(j = 4 /\ p = x)
                          \/ j = 4 + 1 /\ p = x
    <3>. SUFFICES ASSUME NEW p \in Ids, NEW j \in Stops
                  PROVE  At(p, j)' <=> \/ At(p, j) /\ ~(j = 4 /\ p = x)
                                       \/ j = 4 + 1 /\ p = x
      OBVIOUS
    <3>. DEFINE f == SelectLB(Flow(p))
                g == Home(Flow(p))
    <3>1. f \in Threads /\ g \in Threads /\ f # fp
      BY Routes, Apart
    <3>2. j \in {1, 2, 3, 4, 5, 6, 7}
      BY DEF Stops
    <3>3. p = x => g = fp
      BY <1>2
    <3>. HIDE DEF f, g
    <3>4. /\ At(p, 1)' <=> At(p, 1)
          /\ At(p, 2)' <=> At(p, 2)
          /\ At(p, 3)' <=> At(p, 3)
          /\ At(p, 4)' <=> At(p, 4) /\ p # x
          /\ At(p, 5)' <=> At(p, 5) \/ p = x
          /\ At(p, 6)' <=> At(p, 6)
          /\ At(p, 7)' <=> At(p, 7)
      BY <1>0, <1>3, <1>9, <2>1, <3>1, <3>3, Standing, StandingNext DEF f, g
    <3>. QED
      BY <3>2, <3>4
  <2>3. Station' = [Station EXCEPT ![4] = @ \ {x}, ![4 + 1] = @ \cup {x}]
    <3>1. capture' = capture /\ 4 \in 1 .. 6 /\ x \in Ids
      BY <1>1, <1>3
    <3>. QED
      BY <2>2, <3>1, StationsMove
  <2>4. RoutedInv'
    BY <1>1, <1>3, <1>0, <1>2, <1>9, <2>1, Apart, RoutedStep DEF OrderInv, RoutedInv
  <2>. QED
    BY <1>1, <1>6, <1>7, <1>9, <2>3, <2>4 DEF Moves, x
<1>. QED
  BY <1>4, <1>8, <1>9

\* A fast path pushes: its packet goes from its hands to the queue of the
\* writer, which has not been shut down.
LEMMA FPPushMoves ==
    ASSUME TypeOK, ShutdownOrder, OrderInv, NEW fp \in FPs, FPPush(fp)
    PROVE  /\ hand[fp] \in Ids /\ Moves(5, hand[fp])
           /\ RoutedInv' /\ SortedInv'
<1>. DEFINE x == hand[fp]
<1>1. fp \in Threads /\ x \in Ids /\ fp # Writer /\ Writer \in Threads
  BY Apart DEF FPPush, TypeOK
<1>2. Home(Flow(x)) = fp
  BY DEF FPPush, OrderInv, RoutedInv
<1>3. ~shut[Writer]
  BY DEF FPPush, ShutdownOrder
<1>4. /\ queue' = [queue EXCEPT ![Writer] = Append(queue[Writer], x)]
      /\ hand' = [hand EXCEPT ![fp] = Nothing]
      /\ pc' = [pc EXCEPT ![fp] = "loop"]
      /\ capture' = capture /\ written' = written /\ pc[fp] = "push"
  BY <1>3 DEF FPPush, Pushed
<1>5. /\ queue \in [Threads -> Seq(Ids)] /\ hand \in [Threads -> Ids \cup {Nothing}]
      /\ pc \in [Threads -> Places] /\ Ids \subseteq Nat \ {Nothing}
  BY DEF TypeOK, Ids, Nothing
<1>0. hand[fp] = x
  OBVIOUS
<1>. HIDE DEF x
<1>6. x \in Station[5] /\ \A p \in Station[5] : Flow(p) = Flow(x) => x <= p
  <2>1. Station[5] = {p \in Ids : At(p, 5)}
    BY DEF Station, Stops
  <2>. SUFFICES ASSUME NEW p \in Ids, At(p, 5), Flow(p) = Flow(x) PROVE x <= p
    BY <1>0, <1>1, <1>2, <1>4, <2>1, Standing
  <2>2. p = x
    BY <1>0, <1>2, Standing
  <2>. QED
    BY <1>1, <1>5, <2>2
<1>7. \A p \in Range(queue[Writer]) : Flow(p) = Flow(x) => p < x
  <2>. SUFFICES ASSUME NEW p \in Range(queue[Writer]), Flow(p) = Flow(x)
                PROVE  p < x
    OBVIOUS
  <2>1. p \in Ids
    BY <1>1, <1>5 DEF Range
  <2>2. p \in Station[6] /\ 5 \in Stops /\ 6 \in Stops /\ 5 < 6
    BY <2>1, Standing DEF Station, Stops
  <2>. QED
    BY <1>6, <2>2 DEF OrderInv, LineInv
<1>8. /\ Range(Append(queue[Writer], x)) = Range(queue[Writer]) \cup {x}
      /\ Sorted(Append(queue[Writer], x))
  BY <1>1, <1>5, <1>7, Appended DEF OrderInv, SortedInv
<1>9. /\ \A t \in Threads \ {Writer} : queue'[t] = queue[t]
      /\ \A t \in Threads \ {fp} : hand'[t] = hand[t] /\ pc'[t] = pc[t]
      /\ queue'[Writer] = Append(queue[Writer], x) /\ pc'[fp] = "loop"
  BY <1>1, <1>4, <1>5
<1>10. \A p \in Ids, j \in Stops :
           At(p, j)' <=> \/ At(p, j) /\ ~(j = 5 /\ p = x)
                         \/ j = 5 + 1 /\ p = x
  <2>. SUFFICES ASSUME NEW p \in Ids, NEW j \in Stops
                PROVE  At(p, j)' <=> \/ At(p, j) /\ ~(j = 5 /\ p = x)
                                     \/ j = 5 + 1 /\ p = x
    OBVIOUS
  <2>. DEFINE f == SelectLB(Flow(p))
              g == Home(Flow(p))
  <2>1. /\ f \in Threads /\ g \in Threads /\ f # Writer /\ g # Writer
        /\ f # fp
    BY Routes, Apart
  <2>2. j \in {1, 2, 3, 4, 5, 6, 7}
    BY DEF Stops
  <2>3. p = x => g = fp
    BY <1>2
  <2>. HIDE DEF f, g
  <2>4. /\ At(p, 1)' <=> At(p, 1)
        /\ At(p, 2)' <=> At(p, 2)
        /\ At(p, 3)' <=> At(p, 3)
        /\ At(p, 4)' <=> At(p, 4)
        /\ At(p, 5)' <=> At(p, 5) /\ p # x
        /\ At(p, 6)' <=> At(p, 6) \/ p = x
        /\ At(p, 7)' <=> At(p, 7)
    BY <1>0, <1>1, <1>4, <1>8, <1>9, <2>1, <2>3, Standing, StandingNext DEF f, g
  <2>. QED
    BY <2>2, <2>4
<1>11. Station' = [Station EXCEPT ![5] = @ \ {x}, ![5 + 1] = @ \cup {x}]
  <2>1. capture' = capture /\ 5 \in 1 .. 6 /\ x \in Ids
    BY <1>1, <1>4
  <2>. QED
    BY <1>10, <2>1, StationsMove
<1>12. RoutedInv'
  BY <1>1, <1>4, <1>8, <1>9, Apart, RoutedStep DEF OrderInv, RoutedInv
<1>13. SortedInv'
  BY <1>4, <1>5, <1>8, <1>9, SortedStep DEF OrderInv, SortedInv
<1>. QED
  BY <1>1, <1>6, <1>11, <1>12, <1>13 DEF Moves, x

\* A step that touches neither queues nor packets in hand keeps everything.
LEMMA IdleStays ==
    ASSUME TypeOK, OrderInv, Idle
    PROVE  Station' = Station /\ RoutedInv' /\ SortedInv'
<1>1. /\ queue' = queue /\ hand' = hand /\ capture' = capture
      /\ written' = written
  BY DEF Idle
<1>2. \A t \in Threads :
          \/ pc'[t] = pc[t]
          \/ pc[t] \notin {"push", "inspect"} /\ pc'[t] \notin {"push", "inspect"}
  BY DEF Idle, TypeOK
<1>3. \A p \in Ids, j \in Stops : At(p, j)' <=> At(p, j)
  <2>. SUFFICES ASSUME NEW p \in Ids, NEW j \in Stops
                PROVE  At(p, j)' <=> At(p, j)
    OBVIOUS
  <2>. DEFINE f == SelectLB(Flow(p))
              g == Home(Flow(p))
  <2>1. f \in Threads /\ g \in Threads
    BY Routes, Apart
  <2>2. j \in {1, 2, 3, 4, 5, 6, 7}
    BY DEF Stops
  <2>. HIDE DEF f, g
  <2>3. /\ At(p, 1)' <=> At(p, 1)
        /\ At(p, 2)' <=> At(p, 2)
        /\ At(p, 3)' <=> At(p, 3)
        /\ At(p, 4)' <=> At(p, 4)
        /\ At(p, 5)' <=> At(p, 5)
        /\ At(p, 6)' <=> At(p, 6)
        /\ At(p, 7)' <=> At(p, 7)
    BY <1>1, <1>2, <2>1, Standing, StandingNext DEF f, g
  <2>. QED
    BY <2>2, <2>3
<1>4. Station' = Station
  <2>1. Ids' = Ids
    BY <1>1 DEF Ids
  <2>2. Station' = [j \in Stops |-> {p \in Ids : At(p, j)'}]
    BY <2>1 DEF Station
  <2>3. ASSUME NEW j \in Stops
        PROVE  {p \in Ids : At(p, j)'} = {p \in Ids : At(p, j)}
    BY <1>3
  <2>. QED
    BY <2>2, <2>3 DEF Station
<1>5. RoutedInv'
  BY <1>1, <1>2, Apart, RoutedStep DEF OrderInv, RoutedInv
<1>6. SortedInv'
  BY <1>1, SortedStep DEF OrderInv, SortedInv
<1>. QED
  BY <1>4, <1>5, <1>6

\* Every step of every thread keeps the order.
LEMMA OrderNext ==
    ASSUME TypeOK, ShutdownOrder, OrderInv, [Next]_vars
    PROVE  OrderInv'
<1>0. LineInv
  BY DEF OrderInv
<1>1. CASE Read
  <2>1. capture' = capture /\ total' = total + 1
    BY <1>1 DEF Read
  <2>. QED
    BY <1>0, <1>1, <2>1, ReadEnters, LineKept DEF OrderInv
<1>2. ASSUME NEW lb \in LBs, LBTake(lb) PROVE OrderInv'
  <2>1. capture' = capture /\ UNCHANGED total /\ 1 \in 1 .. 6
    BY <1>2 DEF LBTake
  <2>2. \E k \in 1 .. 6, x \in Ids : Moves(k, x)
    BY <1>2, <2>1, LBTakeMoves
  <2>. QED
    BY <1>0, <1>2, <2>1, <2>2, LBTakeMoves, LineKept DEF OrderInv
<1>3. ASSUME NEW lb \in LBs, LBPush(lb) PROVE OrderInv'
  <2>1. capture' = capture /\ UNCHANGED total /\ 2 \in 1 .. 6
    BY <1>3 DEF LBPush
  <2>2. \E k \in 1 .. 6, x \in Ids : Moves(k, x)
    BY <1>3, <2>1, LBPushMoves
  <2>. QED
    BY <1>0, <1>3, <2>1, <2>2, LBPushMoves, LineKept DEF OrderInv
<1>4. ASSUME NEW fp \in FPs, FPTake(fp) PROVE OrderInv'
  <2>1. capture' = capture /\ UNCHANGED total /\ 3 \in 1 .. 6
    BY <1>4 DEF FPTake
  <2>2. \E k \in 1 .. 6, x \in Ids : Moves(k, x)
    BY <1>4, <2>1, FPTakeMoves
  <2>. QED
    BY <1>0, <1>4, <2>1, <2>2, FPTakeMoves, LineKept DEF OrderInv
<1>5. ASSUME NEW fp \in FPs, FPInspect(fp) PROVE OrderInv'
  <2>1. capture' = capture /\ UNCHANGED total /\ 4 \in 1 .. 6 /\ 4 \in Stops
    BY <1>5 DEF FPInspect, Stops
  <2>2. \/ \E k \in 1 .. 6, x \in Ids : Moves(k, x)
        \/ \E k \in Stops, x \in Ids : Leaves(k, x)
    BY <1>5, <2>1, FPInspectMoves
  <2>. QED
    BY <1>0, <1>5, <2>1, <2>2, FPInspectMoves, LineKept DEF OrderInv
<1>6. ASSUME NEW fp \in FPs, FPPush(fp) PROVE OrderInv'
  <2>1. capture' = capture /\ UNCHANGED total /\ 5 \in 1 .. 6
    BY <1>6 DEF FPPush
  <2>2. \E k \in 1 .. 6, x \in Ids : Moves(k, x)
    BY <1>6, <2>1, FPPushMoves
  <2>. QED
    BY <1>0, <1>6, <2>1, <2>2, FPPushMoves, LineKept DEF OrderInv
<1>7. CASE WriterTake
  <2>1. capture' = capture /\ UNCHANGED total /\ 6 \in 1 .. 6
    BY <1>7 DEF WriterTake
  <2>2. \E k \in 1 .. 6, x \in Ids : Moves(k, x)
    BY <1>7, <2>1, WriterTakeMoves
  <2>. QED
    BY <1>0, <1>7, <2>1, <2>2, WriterTakeMoves, LineKept DEF OrderInv
<1>8. CASE Idle
  <2>1. capture' = capture /\ UNCHANGED total
    BY <1>8 DEF Idle
  <2>. QED
    BY <1>0, <1>8, <2>1, IdleStays, LineKept DEF OrderInv
<1>. QED
  BY <1>1, <1>2, <1>3, <1>4, <1>5, <1>6, <1>7, <1>8, StepsSorted

\* At the start no packet is anywhere.
LEMMA OrderInit == Init => TypeOK /\ OrderInv
<1>. SUFFICES ASSUME Init PROVE TypeOK /\ OrderInv
  OBVIOUS
<1>1. TypeOK
  BY TypeInit
<1>2. /\ \A t \in Threads : queue[t] = <<>> /\ pc[t] = "loop"
      /\ written = <<>>
  BY DEF Init
<1>3. Range(<<>>) = {} /\ DOMAIN <<>> = {}
  BY DEF Range
<1>4. RoutedInv
  BY <1>2, <1>3, Apart DEF RoutedInv
<1>5. SortedInv
  BY <1>2, <1>3 DEF SortedInv, Sorted
<1>6. \A p \in Ids, j \in Stops : ~At(p, j)
  <2>. SUFFICES ASSUME NEW p \in Ids, NEW j \in Stops PROVE ~At(p, j)
    OBVIOUS
  <2>1. SelectLB(Flow(p)) \in Threads /\ Home(Flow(p)) \in Threads
    BY <1>1, Routes, Apart
  <2>. QED
    BY <1>2, <1>3, <2>1, Apart DEF At
<1>7. \A j \in Stops : Station[j] = {}
  BY <1>6 DEF Station
<1>. QED
  BY <1>1, <1>4, <1>5, <1>7 DEF OrderInv, LineInv

\* The packets of a flow reach the file in the order of the capture, none of
\* them twice, although they went through three queues and as many threads
\* that nothing synchronises: what is kept is that at every moment the packet
\* that has come further is the earlier one.
THEOREM FlowsInOrder == Spec => [](OrderInv /\ Sorted(written))
<1>1. OrderInv => Sorted(written)
  BY DEF OrderInv, SortedInv
<1>2. TypeOK /\ ShutdownOrder /\ OrderInv /\ [Next]_vars => OrderInv'
  BY OrderNext
<1>. QED
  BY <1>1, <1>2, OrderInit, TypeCorrect, ConsumersOutliveProducers, PTL DEF Spec

-----------------------------------------------------------------------------
(* A flow that is blocked by its name.  BlockedFlowSilent alone is not      *)
(* inductive: it has to be known that the entry of the flow is still open   *)
(* to a name until the packet with the name is judged, and blocked from     *)
(* then on.                                                                 *)

\* What the fast path of a flow knows of it.
Entry(f) == flows[Home(f)][f]

\* The first packet of a flow with a name, and the name is blocked.
Culprit(p) ==
    /\ capture[p].host # NoHost
    /\ \A r \in 1 .. p - 1 : Flow(r) = Flow(p) => ~(capture[r].host # NoHost)
    /\ capture[p].host \in BlockedNames \/ NameApp[capture[p].host] \in BlockedApps
    /\ DstPort[Flow(p)] \in {80, 443} /\ SrcPort[Flow(p)] # 53

\* A packet that has not been judged.
Pending(p) == p > total \/ \E k \in 1 .. 4 : p \in Station[k]

\* Until a blocked name is judged its flow is not classified; from then on the
\* flow is blocked, and whatever is past the verdict came before the name.
SilentInv ==
    \A p \in Ids : Culprit(p) =>
        /\ Pending(p) => ~Entry(Flow(p)).classified
        /\ ~Pending(p) => Entry(Flow(p)).blocked
        /\ \A k \in 5 .. 7 : \A q \in Station[k] : Flow(q) = Flow(p) => q < p

\* What a verdict does to the flow table and to the packet.
LEMMA Judged ==
    ASSUME TypeOK, OrderInv, NEW fp \in FPs, FPInspect(fp)
    PROVE  \E x \in Ids, f \in Flows, e \in FlowEntry, cut \in BOOLEAN :
           /\ x = hand[fp] /\ f = Flow(x) /\ Home(f) = fp /\ x \in Station[4]
           /\ e = Identify(x, Entry(f)) /\ Entry(f) \in FlowEntry
           /\ cut <=> \/ e.blocked
                      \/ IsBlocked(f, e)
                      \/ Charged(f, e) /\ OverQuota(e.app, capture[x].size)
           /\ Entry(f)' = [e EXCEPT !.blocked = cut]
           /\ \A g \in Flows \ {f} : Entry(g)' = Entry(g)
           /\ IF cut THEN Leaves(4, x) ELSE Moves(4, x)
<1>. DEFINE x == hand[fp]
            f == Flow(x)
            e == Identify(x, flows[fp][f])
            cut == \/ e.blocked
                   \/ IsBlocked(f, e)
                   \/ Charged(f, e) /\ OverQuota(e.app, capture[x].size)
            seen == [e EXCEPT !.blocked = cut]
<1>1. x \in Ids /\ f \in Flows /\ capture[x] \in Packet
  <2>1. x \in Ids
    BY Apart DEF FPInspect, TypeOK
  <2>. QED
    BY <2>1, PacketType
<1>2. Home(f) = fp
  BY DEF FPInspect, OrderInv, RoutedInv
<1>3. flows[fp][f] \in FlowEntry /\ e \in FlowEntry
  BY <1>1, IdentifyType DEF TypeOK
<1>4. Verdict(fp, x, e)
  BY DEF FPInspect
<1>5. flows' = [flows EXCEPT ![fp][f] = seen]
  BY <1>4 DEF Verdict
<1>6. \/ cut /\ pc' = [pc EXCEPT ![fp] = "loop"]
      \/ ~cut /\ pc' = [pc EXCEPT ![fp] = "push"]
  BY <1>4 DEF Verdict
<1>7. x \in Station[4] /\ \/ Moves(4, x) /\ pc' = [pc EXCEPT ![fp] = "push"]
                          \/ Leaves(4, x) /\ pc' = [pc EXCEPT ![fp] = "loop"]
  BY FPInspectMoves DEF Moves, Leaves
<1>8. fp \in Threads /\ pc \in [Threads -> Places] /\ cut \in BOOLEAN
  BY <1>3, Apart DEF TypeOK, FlowEntry, IsBlocked, Charged, OverQuota
<1>. HIDE DEF seen, cut, e
<1>9. /\ flows'[fp][f] = seen
      /\ \A g \in Flows \ {f} : flows'[Home(g)][g] = flows[Home(g)][g]
  <2>1. flows \in [FPs -> [Flows -> FlowEntry]]
    BY DEF TypeOK
  <2>2. \A g \in Flows : Home(g) \in FPs
    BY Routing DEF Home
  <2>. HIDE DEF f
  <2>. QED
    BY <1>1, <1>5, <2>1, <2>2
<1>10. IF cut THEN Leaves(4, x) ELSE Moves(4, x)
  BY <1>6, <1>7, <1>8
<1>11. PICK y, h, n, c : y = x /\ h = f /\ n = e /\ c = cut
  OBVIOUS
<1>12. /\ Entry(h)' = flows'[fp][h] /\ Entry(h) = flows[fp][h]
       /\ \A g : Entry(g)' = flows'[Home(g)][g] /\ Entry(g) = flows[Home(g)][g]
  BY <1>2, <1>11 DEF Entry
<1>13. e = Identify(y, flows[fp][h])
  BY <1>11 DEF e
<1>14. cut <=> \/ n.blocked
               \/ IsBlocked(h, n)
               \/ Charged(h, n) /\ OverQuota(n.app, capture[y].size)
  BY <1>11 DEF cut
<1>15. seen = [n EXCEPT !.blocked = c]
  BY <1>11 DEF seen
<1>. HIDE DEF x, f
<1>16. /\ y \in Ids /\ h \in Flows /\ n \in FlowEntry /\ c \in BOOLEAN
       /\ y = hand[fp] /\ h = Flow(y) /\ Home(h) = fp /\ y \in Station[4]
  BY <1>1, <1>2, <1>3, <1>7, <1>8, <1>11 DEF x, f
<1>17. /\ n = Identify(y, Entry(h)) /\ Entry(h) \in FlowEntry
       /\ Entry(h)' = [n EXCEPT !.blocked = c]
       /\ \A g \in Flows \ {h} : Entry(g)' = Entry(g)
       /\ IF c THEN Leaves(4, y) ELSE Moves(4, y)
  BY <1>3, <1>9, <1>10, <1>11, <1>12, <1>13, <1>15
<1>. QED
  BY <1>11, <1>14, <1>16, <1>17

\* A step that judges nothing changes neither the flow table nor which packets
\* are judged.
LEMMA NotJudged ==
    ASSUME TypeOK, ShutdownOrder, OrderInv, [Next]_vars,
           ~\E fp \in FPs : FPInspect(fp)
    PROVE  /\ capture' = capture /\ flows' = flows
           /\ \A p \in Ids : Pending(p)' <=> Pending(p)
           /\ \A p \in Ids : (\E k \in 5 .. 7 : p \in Station'[k])
                                <=> (\E k \in 5 .. 7 : p \in Station[k])
<1>. DEFINE Same == \A p \in Ids :
                /\ (\E k \in 1 .. 4 : p \in Station'[k])
                       <=> (\E k \in 1 .. 4 : p \in Station[k])
                /\ (\E k \in 5 .. 7 : p \in Station'[k])
                       <=> (\E k \in 5 .. 7 : p \in Station[k])
<1>0. /\ Station \in [Stops -> SUBSET Ids] /\ total \in Nat /\ Ids \subseteq Nat
      /\ \A p : Pending(p)' <=> p > total' \/ \E k \in 1 .. 4 : p \in Station'[k]
      /\ 1 .. 4 = {1, 2, 3, 4} /\ 5 .. 7 = {5, 6, 7}
      /\ Stops = {1, 2, 3, 4, 5, 6, 7}
  BY DEF Station, Stops, Ids, TypeOK, Pending
<1>1. ASSUME NEW k \in {1, 2, 3, 5, 6}, NEW x \in Ids, Moves(k, x) PROVE Same
  <2>. DEFINE S == Station
  <2>1. /\ x \in S[k]
        /\ Station' = [S EXCEPT ![k] = @ \ {x}, ![k + 1] = @ \cup {x}]
    BY <1>1 DEF Moves
  <2>. HIDE DEF S
  <2>2. S \in [Stops -> SUBSET Ids]
    BY <1>0 DEF S
  <2>3. CASE k = 1
    BY <1>0, <2>1, <2>2, <2>3 DEF S
  <2>4. CASE k = 2
    BY <1>0, <2>1, <2>2, <2>4 DEF S
  <2>5. CASE k = 3
    BY <1>0, <2>1, <2>2, <2>5 DEF S
  <2>6. CASE k = 5
    BY <1>0, <2>1, <2>2, <2>6 DEF S
  <2>7. CASE k = 6
    BY <1>0, <2>1, <2>2, <2>7 DEF S
  <2>. QED
    BY <2>3, <2>4, <2>5, <2>6, <2>7
<1>2. CASE Read
  <2>1. Enters(total + 1) /\ total' = total + 1
    BY <1>2, ReadEnters DEF Read
  <2>2. /\ Station'[1] = Station[1] \cup {total + 1}
        /\ \A k \in Stops \ {1} : Station'[k] = Station[k]
    BY <1>0, <2>1 DEF Enters
  <2>3. \A p \in Ids : (\E k \in 1 .. 4 : p \in Station'[k])
                         <=> p = total + 1 \/ (\E k \in 1 .. 4 : p \in Station[k])
    BY <1>0, <2>2
  <2>4. \A p \in Ids : (\E k \in 5 .. 7 : p \in Station'[k])
                         <=> (\E k \in 5 .. 7 : p \in Station[k])
    BY <1>0, <2>2
  <2>5. \A p \in Ids : p > total <=> p > total' \/ p = total + 1
    BY <1>0, <2>1
  <2>6. \A p \in Ids : Pending(p)' <=> Pending(p)
    BY <1>0, <2>3, <2>5 DEF Pending
  <2>. QED
    BY <1>2, <2>4, <2>6 DEF Read, inspectVars
<1>3. CASE UNCHANGED <<capture, flows, total>> /\ Same
  BY <1>0, <1>3 DEF Pending
<1>4. ASSUME NEW lb \in LBs, LBTake(lb) \/ LBPush(lb)
      PROVE  UNCHANGED <<capture, flows, total>> /\ Same
  BY <1>1, <1>4, LBTakeMoves, LBPushMoves DEF LBTake, LBPush, inspectVars
<1>5. ASSUME NEW fp \in FPs, FPTake(fp) \/ FPPush(fp)
      PROVE  UNCHANGED <<capture, flows, total>> /\ Same
  BY <1>1, <1>5, FPTakeMoves, FPPushMoves DEF FPTake, FPPush, inspectVars
<1>6. CASE WriterTake
  BY <1>1, <1>3, <1>6, WriterTakeMoves DEF WriterTake, inspectVars
<1>7. CASE Idle
  BY <1>3, <1>7, IdleStays DEF Idle, inspectVars
<1>. QED
  BY <1>2, <1>3, <1>4, <1>5, <1>6, <1>7, StepsSorted

\* What identifying a flow changes.
LEMMA Identified ==
    ASSUME NEW p, NEW n \in FlowEntry
    PROVE  /\ Identify(p, n).blocked = n.blocked
           /\ n.classified => Identify(p, n) = n
           /\ /\ ~n.classified /\ capture[p].host # NoHost
              /\ DstPort[Flow(p)] \in {80, 443}
              => /\ Identify(p, n).sni = capture[p].host
                 /\ Identify(p, n).app = NameApp[capture[p].host]
           /\ /\ ~n.classified /\ ~(capture[p].host # NoHost)
              /\ DstPort[Flow(p)] \in {80, 443} /\ SrcPort[Flow(p)] # 53
              => ~Identify(p, n).classified
<1>. DEFINE f == Flow(p)
            h == capture[p].host
<1>1. CASE n.classified
  BY <1>1 DEF Identify
<1>2. CASE ~n.classified
  <2>1. Identify(p, n) = Classify(f, h, n)
    BY <1>2 DEF Identify
  <2>. HIDE DEF f, h
  <2>2. Classify(f, h, n).blocked = n.blocked
    BY DEF Classify, FlowEntry
  <2>3. h # NoHost /\ DstPort[f] \in {80, 443}
            => Classify(f, h, n).sni = h /\ Classify(f, h, n).app = NameApp[h]
    BY DEF Classify, FlowEntry
  <2>4. h = NoHost /\ DstPort[f] \in {80, 443} /\ SrcPort[f] # 53
            => Classify(f, h, n).classified = n.classified
    <3>. SUFFICES ASSUME h = NoHost, DstPort[f] \in {80, 443}, SrcPort[f] # 53
                  PROVE  Classify(f, h, n).classified = n.classified
      OBVIOUS
    <3>. DEFINE guess == IF DstPort[f] = 443 THEN HTTPS
                         ELSE IF DstPort[f] = 80 THEN HTTP ELSE n.app
    <3>1. Classify(f, h, n) = [n EXCEPT !.app = guess]
      BY DEF Classify
    <3>. HIDE DEF guess
    <3>. QED
      BY <3>1 DEF FlowEntry
  <2>. QED
    BY <1>2, <2>1, <2>2, <2>3, <2>4 DEF f, h
<1>. QED
  BY <1>1, <1>2

\* Every step keeps blocked flows silent.
LEMMA SilentNext ==
    ASSUME TypeOK, ShutdownOrder, OrderInv, SilentInv, [Next]_vars
    PROVE  SilentInv'
<1>1. CASE ~\E fp \in FPs : FPInspect(fp)
  <2>1. /\ Ids' = Ids /\ \A p : Culprit(p)' <=> Culprit(p)
        /\ \A p : Flow(p)' = Flow(p)
        /\ \A p : Entry(Flow(p))' = Entry(Flow(p))
    BY <1>1, NotJudged DEF Ids, Culprit, Flow, Entry
  <2>2. Station' \in [Stops -> SUBSET Ids]
    BY <2>1 DEF Station
  <2>3. \A k \in 5 .. 7 : \A q \in Station'[k] : q \in Ids
    BY <2>2 DEF Stops
  <2>4. ASSUME NEW p \in Ids, Culprit(p) 
        PROVE  /\ Pending(p)' => ~Entry(Flow(p))'.classified
               /\ ~Pending(p)' => Entry(Flow(p))'.blocked
               /\ \A k \in 5 .. 7 : \A q \in Station'[k] :
                      Flow(q) = Flow(p) => q < p
    <3>1. (Pending(p)' <=> Pending(p)) /\ Entry(Flow(p))' = Entry(Flow(p))
      BY <1>1, <2>1, NotJudged
    <3>2. \A k \in 5 .. 7 : \A q \in Station'[k] :
              \E j \in 5 .. 7 : q \in Station[j]
      BY <1>1, <2>3, NotJudged
    <3>. QED
      BY <2>4, <3>1, <3>2 DEF SilentInv
  <2>. QED
    BY <2>1, <2>4 DEF SilentInv
<1>2. ASSUME NEW fp \in FPs, FPInspect(fp) PROVE SilentInv'
  <2>1. PICK x \in Ids, f \in Flows, e \in FlowEntry, cut \in BOOLEAN :
           /\ x = hand[fp] /\ f = Flow(x) /\ Home(f) = fp /\ x \in Station[4]
           /\ e = Identify(x, Entry(f)) /\ Entry(f) \in FlowEntry
           /\ cut <=> \/ e.blocked
                      \/ IsBlocked(f, e)
                      \/ Charged(f, e) /\ OverQuota(e.app, capture[x].size)
           /\ Entry(f)' = [e EXCEPT !.blocked = cut]
           /\ \A g \in Flows \ {f} : Entry(g)' = Entry(g)
           /\ IF cut THEN Leaves(4, x) ELSE Moves(4, x)
    BY <1>2, Judged
  <2>2. /\ total' = total /\ capture' = capture
        /\ Ids' = Ids /\ \A p : Culprit(p)' <=> Culprit(p)
        /\ \A p : Flow(p)' = Flow(p)
    BY <1>2 DEF FPInspect, Ids, Culprit, Flow
  <2>. DEFINE S == Station
              T == Station'
  <2>3. /\ S \in [Stops -> SUBSET Ids] /\ total \in Nat /\ Ids \subseteq Nat
        /\ 1 .. 4 = {1, 2, 3, 4} /\ 5 .. 7 = {5, 6, 7}
        /\ Stops = {1, 2, 3, 4, 5, 6, 7}
    BY DEF Station, Stops, Ids, TypeOK
  <2>4. \A q \in S[4] : Flow(q) = f => x <= q
    BY <2>1 DEF Moves, Leaves
  <2>5. T = IF cut THEN [S EXCEPT ![4] = @ \ {x}]
            ELSE [S EXCEPT ![4] = @ \ {x}, ![4 + 1] = @ \cup {x}]
    BY <2>1 DEF Moves, Leaves
  <2>6. /\ \A j, k \in Stops : \A p \in S[j], q \in S[k] :
               j < k /\ Flow(p) = Flow(q) => q < p
        /\ \A j \in Stops : \A p \in S[j] : p <= total
    BY DEF OrderInv, LineInv
  <2>7. \A p \in Ids : /\ Pending(p) <=> p > total \/ \E k \in 1 .. 4 : p \in S[k]
                       /\ Pending(p)' <=> p > total \/ \E k \in 1 .. 4 : p \in T[k]
    BY <2>2 DEF Pending
  <2>. HIDE DEF S, T
  <2>8. /\ \A k \in {1, 2, 3, 6, 7} : T[k] = S[k]
        /\ T[4] = S[4] \ {x}
        /\ T[5] = IF cut THEN S[5] ELSE S[5] \cup {x}
    BY <2>3, <2>5
  <2>9. x \in S[4] /\ x <= total /\ \A k \in 1 .. 3 : x \notin S[k]
    <3>1. x \in S[4] /\ 4 \in Stops
      BY <2>1, <2>3 DEF S
    <3>2. \A k \in 1 .. 3 : k \in Stops /\ k < 4
      BY <2>3
    <3>3. ~(x < x) /\ x \in Nat
      BY <2>3
    <3>. QED
      BY <2>6, <3>1, <3>2, <3>3
  <2>10. Pending(x) /\ ~Pending(x)'
    BY <2>3, <2>7, <2>8, <2>9
  <2>11. \A p \in Ids \ {x} : Pending(p)' <=> Pending(p)
    BY <2>3, <2>7, <2>8
  <2>12. ASSUME NEW p \in Ids, Culprit(p), Flow(p) = f, p # x, Pending(p)
         PROVE  x < p
    <3>1. CASE p > total
      BY <2>3, <2>9, <3>1
    <3>2. CASE \E k \in 1 .. 3 : p \in S[k]
      <4>1. \A k \in 1 .. 3 : k \in Stops /\ 4 \in Stops /\ k < 4
        BY <2>3
      <4>. QED
        BY <2>1, <2>6, <2>9, <2>12, <3>2, <4>1
    <3>3. CASE p \in S[4]
      BY <2>3, <2>4, <2>12, <3>3
    <3>. QED
      BY <2>3, <2>7, <2>12, <3>1, <3>2, <3>3
  <2>13. \A p \in Ids : Culprit(p) =>
            /\ Pending(p) => ~Entry(Flow(p)).classified
            /\ ~Pending(p) => Entry(Flow(p)).blocked
            /\ \A k \in 5 .. 7 : \A q \in S[k] : Flow(q) = Flow(p) => q < p
    BY DEF SilentInv, S
  <2>14. e.blocked = Entry(f).blocked /\ Entry(f)'.blocked = cut
         /\ Entry(f)'.classified = e.classified
    BY <2>1, Identified DEF FlowEntry
  <2>15. ASSUME NEW p \in Ids, Culprit(p)
         PROVE  /\ Pending(p)' => ~Entry(Flow(p))'.classified
                /\ ~Pending(p)' => Entry(Flow(p))'.blocked
                /\ \A k \in 5 .. 7 : \A q \in T[k] : Flow(q) = Flow(p) => q < p
    <3>0. Flow(p) \in Flows /\ Entry(Flow(p))' = flows'[Home(Flow(p))][Flow(p)]
      BY <2>2, PacketType DEF Entry
    <3>1. CASE Flow(p) # f
      <4>1. Entry(Flow(p))' = Entry(Flow(p))
        BY <2>1, <3>0, <3>1 DEF Entry
      <4>2. p # x
        BY <2>1, <3>1
      <4>3. \A k \in 5 .. 7 : \A q \in T[k] : q = x \/ q \in S[k]
        BY <2>3, <2>8
      <4>. QED
        BY <2>1, <2>11, <2>13, <2>15, <3>1, <4>1, <4>2, <4>3
    <3>2. CASE Flow(p) = f
      <4>0. Entry(Flow(p))' = Entry(f)' /\ Entry(Flow(p)) = Entry(f)
        BY <3>0, <3>2 DEF Entry
      <4>1. CASE p = x
        <5>1. ~Entry(f).classified
          BY <2>10, <2>13, <2>15, <3>2, <4>1
        <5>2. e.sni \in BlockedNames \/ e.app \in BlockedApps
          BY <2>1, <2>15, <4>1, <5>1, Identified DEF Culprit
        <5>3. cut
          BY <2>1, <5>2 DEF IsBlocked
        <5>. QED
          BY <2>3, <2>8, <2>10, <2>13, <2>14, <2>15, <4>0, <4>1, <5>3
      <4>2. CASE p # x /\ Pending(p)
        <5>1. x < p
          BY <2>12, <2>15, <3>2, <4>2
        <5>2. ~(capture[x].host # NoHost)
          <6>1. x \in 1 .. p - 1
            BY <2>3, <5>1 DEF Ids
          <6>. QED
            BY <2>1, <2>15, <3>2, <6>1 DEF Culprit
        <5>3. ~e.classified
          BY <2>1, <2>13, <2>15, <3>2, <4>2, <5>2, Identified DEF Culprit
        <5>4. \A k \in 5 .. 7 : \A q \in T[k] : q = x \/ q \in S[k]
          BY <2>3, <2>8
        <5>. QED
          BY <2>11, <2>13, <2>14, <2>15, <4>0, <4>2, <5>1, <5>3, <5>4
      <4>3. CASE p # x /\ ~Pending(p)
        <5>1. cut
          BY <2>1, <2>13, <2>14, <2>15, <3>2, <4>3
        <5>. QED
          BY <2>3, <2>8, <2>11, <2>13, <2>14, <2>15, <4>0, <4>3, <5>1
      <4>. QED
        BY <4>1, <4>2, <4>3
    <3>. QED
      BY <3>1, <3>2
  <2>. QED
    BY <2>2, <2>15 DEF SilentInv, T
<1>. QED
  BY <1>1, <1>2

\* At the start nothing was judged.
LEMMA SilentInit == Init => SilentInv
<1>. SUFFICES ASSUME Init PROVE SilentInv
  OBVIOUS
<1>1. TypeOK /\ OrderInv /\ total = 0
  BY OrderInit DEF Init
<1>2. \A f \in Flows : Home(f) \in FPs
  BY Routing DEF Home
<1>3. \A p \in Ids : ~Entry(Flow(p)).classified
  BY <1>1, <1>2, PacketType DEF Init, Entry, NewFlow
<1>4. \A k \in Stops : \A p \in Station[k] : p \in Nat /\ p <= 0
  BY <1>1 DEF OrderInv, LineInv, Station, Ids
<1>5. \A k \in Stops : Station[k] \subseteq Ids
  BY DEF Station
<1>6. \A k \in Stops : Station[k] = {}
  BY <1>4, <1>5 DEF Ids
<1>7. \A p \in Ids : Pending(p)
  BY <1>1 DEF Pending, Ids
<1>. QED
  BY <1>3, <1>6, <1>7 DEF SilentInv, Stops

\* What is in the file is past the verdict.
LEMMA SilentImplies == TypeOK /\ OrderInv /\ SilentInv => BlockedFlowSilent
<1>. SUFFICES ASSUME TypeOK, SilentInv, NEW p \in Ids, Culprit(p),
                     NEW i \in DOMAIN written, Flow(written[i]) = Flow(p)
              PROVE  written[i] < p
  BY DEF BlockedFlowSilent, Culprit
<1>1. written[i] \in Ids /\ At(written[i], 7)
  BY Standing DEF TypeOK, Range
<1>2. written[i] \in Station[7] /\ 7 \in 5 .. 7
  BY <1>1 DEF Station, Stops
<1>. QED
  BY <1>2 DEF SilentInv

\* Once a flow has shown a blocked name, neither that packet nor a later one
\* of the flow is in the output, whatever the number of threads and however
\* they are scheduled.
THEOREM BlockedNamesSilence == Spec => []BlockedFlowSilent
<1>1. TypeOK /\ OrderInv /\ SilentInv => BlockedFlowSilent
  BY SilentImplies
<1>2. TypeOK /\ ShutdownOrder /\ OrderInv /\ SilentInv /\ [Next]_vars => SilentInv'
  BY SilentNext
<1>3. Spec => []SilentInv
  BY <1>2, SilentInit, TypeCorrect, ConsumersOutliveProducers, FlowsInOrder,
     PTL DEF Spec
<1>. QED
  BY <1>1, <1>3, TypeCorrect, FlowsInOrder, PTL

-----------------------------------------------------------------------------
(* The usage of an application with a quota: at most one packet more than   *)
(* the quota per flow that was cut (UsageOvershoot).                        *)

\* Every non-empty set of natural numbers has a least element.
LEMMA LeastNumber ==
    ASSUME NEW I \in SUBSET Nat, I # {}
    PROVE  \E x \in I : \A y \in I : x =< y
<1>. DEFINE below(n) == 0 .. n
            T == {below(x) : x \in I}
<1>1. T \subseteq FiniteSubsetsOf(Nat) /\ T # {}
  <2>1. ASSUME NEW x \in I PROVE below(x) \in FiniteSubsetsOf(Nat)
    <3>1. x \in Int /\ below(x) \subseteq Nat
      OBVIOUS
    <3>2. IsFiniteSet(below(x))
      BY <3>1, FS_Interval
    <3>. QED
      BY <3>1, <3>2 DEF FiniteSubsetsOf
  <2>. QED
    BY <2>1
<1>2. PICK t \in T : \A u \in T : ~ (<<u, t>> \in StrictSubsetOrdering(Nat))
  <2>. HIDE DEF T
  <2>. QED
    BY <1>1, FS_StrictSubsetOrderingWellFounded, WFMin
<1>3. PICK x \in I : t = below(x)
  OBVIOUS
<1>4. \A y \in I : x =< y
  <2>1. SUFFICES ASSUME NEW y \in I, y < x PROVE FALSE
    OBVIOUS
  <2>2. below(y) \subseteq below(x) /\ below(y) # below(x)
    BY <2>1
  <2>3. <<below(y), t>> \in StrictSubsetOrdering(Nat)
    BY <1>3, <2>2 DEF StrictSubsetOrdering
  <2>. QED
    BY <1>2, <2>3
<1>. QED
  BY <1>4

\* A bounded set of natural numbers has a greatest element.
LEMMA Greatest ==
    ASSUME NEW S \in SUBSET Nat, S # {}, NEW b \in Nat, \A y \in S : y =< b
    PROVE  Max(S) \in S /\ \A y \in S : y =< Max(S)
<1>. DEFINE U == {u \in Nat : \A y \in S : y =< u}
<1>1. U # {} /\ U \in SUBSET Nat
  OBVIOUS
<1>2. PICK m \in U : \A u \in U : m =< u
  <2>. HIDE DEF U
  <2>. QED
    BY <1>1, LeastNumber
<1>3. m \in S
  <2>1. SUFFICES ASSUME m \notin S PROVE FALSE
    OBVIOUS
  <2>2. PICK y \in S : TRUE
    OBVIOUS
  <2>3. m \in Nat /\ m # 0
    BY <2>1, <2>2
  <2>4. m - 1 \in U
    BY <2>1, <2>3
  <2>. QED
    BY <1>2, <2>3, <2>4
<1>4. \E x \in S : \A y \in S : x >= y
  BY <1>3
<1>. QED
  BY <1>4 DEF Max

\* The largest packet of the capture, the allowance of an application, and its
\* flows that were cut.
Sizes == {0} \cup {capture[p].size : p \in Ids}
Biggest == Max(Sizes)
Allowance(a) == Max({Limit[a], start[a]})
Cut(a) == {f \in Flows :
               Entry(f).app = a /\ Entry(f).classified /\ Entry(f).blocked}
CutFlows(a) == Cardinality(Cut(a))

\* UsageOvershoot in these terms; it is inductive.
OverInv == \A a \in QuotaApps : usage[a] =< Allowance(a) + Biggest * CutFlows(a)

\* OverInv is UsageOvershoot.
LEMMA OverIsOvershoot == OverInv <=> UsageOvershoot
  BY DEF OverInv, UsageOvershoot, Allowance, Biggest, Sizes, CutFlows, Cut,
         Entry, Home

\* No packet is larger than the largest.
LEMMA Largest ==
    ASSUME TypeOK
    PROVE  /\ Biggest \in Nat
           /\ \A p \in Ids : capture[p].size \in Nat /\ capture[p].size =< Biggest
<1>. DEFINE f == [p \in Ids |-> capture[p].size]
<1>1. IsFiniteSet(Ids)
  BY CaptureAssumption, FS_Interval DEF Ids, TypeOK
<1>2. \A p \in Ids : capture[p].size \in Nat
  BY PacketType DEF Packet
<1>3. f \in [Ids -> Nat]
  BY <1>2
<1>4. ASSUME NEW p \in Ids PROVE f[p] =< Sum(f)
  <2>1. /\ IsFiniteSet(Cells(f)) /\ Sum(f) = Cardinality(Cells(f))
        /\ {p} \X (1 .. f[p]) \subseteq Cells(f)
    <3>1. DOMAIN f = Ids
      OBVIOUS
    <3>. HIDE DEF f
    <3>. QED
      BY <1>1, <1>3, <3>1, SumFinite DEF Cells
  <2>2. Cardinality({p} \X (1 .. f[p])) = f[p]
    <3>1. /\ IsFiniteSet({p}) /\ Cardinality({p}) = 1
      BY FS_Singleton
    <3>2. f[p] \in Nat
      BY <1>3
    <3>. HIDE DEF f
    <3>3. /\ IsFiniteSet(1 .. f[p]) /\ Cardinality(1 .. f[p]) = f[p]
      BY <3>2, FS_Interval
    <3>4. Cardinality({p} \X (1 .. f[p])) = Cardinality({p}) * Cardinality(1 .. f[p])
      BY <3>1, <3>3, FS_Product
    <3>. QED
      BY <3>1, <3>2, <3>3, <3>4
  <2>. HIDE DEF f
  <2>. QED
    BY <2>1, <2>2, FS_Subset
<1>5. Sum(f) \in Nat
  <2>. HIDE DEF f
  <2>. QED
    BY <1>1, <1>3, SumFinite
<1>6. /\ Sizes \in SUBSET Nat /\ 0 \in Sizes
      /\ \A y \in Sizes : y =< Sum(f)
  BY <1>2, <1>4, <1>5 DEF Sizes
<1>7. Biggest \in Sizes /\ \A y \in Sizes : y =< Biggest
  <2>. HIDE DEF f
  <2>. QED
    BY <1>5, <1>6, Greatest DEF Biggest
<1>. QED
  BY <1>2, <1>6, <1>7 DEF Sizes

\* The allowance is the larger of the quota and the usage at the start.
LEMMA Allowed ==
    ASSUME TypeOK, NEW a \in QuotaApps
    PROVE  /\ Allowance(a) \in Nat /\ Limit[a] =< Allowance(a)
           /\ start[a] =< Allowance(a)
<1>1. Limit[a] \in Nat /\ start[a] \in Nat
  BY QuotaAssumption DEF TypeOK
<1>2. /\ {Limit[a], start[a]} \in SUBSET Nat
      /\ \A y \in {Limit[a], start[a]} : y =< Limit[a] + start[a]
      /\ Limit[a] + start[a] \in Nat
  BY <1>1
<1>3. /\ Allowance(a) \in {Limit[a], start[a]}
      /\ \A y \in {Limit[a], start[a]} : y =< Allowance(a)
  BY <1>2, Greatest DEF Allowance
<1>. QED
  BY <1>1, <1>3

\* The number of cut flows is a natural number.
LEMMA CutType ==
    ASSUME NEW S \in SUBSET Flows
    PROVE  IsFiniteSet(S) /\ Cardinality(S) \in Nat
  BY FlowAssumption, FS_Subset, FS_CardinalityType

\* What a verdict charges.
LEMMA Charge ==
    ASSUME TypeOK, OrderInv, NEW fp \in FPs, FPInspect(fp)
    PROVE  \E x \in Ids, f \in Flows, e \in FlowEntry, cut \in BOOLEAN :
           /\ e = Identify(x, Entry(f)) /\ Entry(f) \in FlowEntry
           /\ cut <=> \/ e.blocked
                      \/ IsBlocked(f, e)
                      \/ Charged(f, e) /\ OverQuota(e.app, capture[x].size)
           /\ Entry(f)' = [e EXCEPT !.blocked = cut]
           /\ \A g \in Flows \ {f} : Entry(g)' = Entry(g)
           /\ usage' = IF Charged(f, e) THEN Recorded(e.app, capture[x].size)
                       ELSE usage
<1>1. PICK x \in Ids, f \in Flows, e \in FlowEntry, cut \in BOOLEAN :
           /\ x = hand[fp] /\ f = Flow(x) /\ Home(f) = fp
           /\ e = Identify(x, Entry(f)) /\ Entry(f) \in FlowEntry
           /\ cut <=> \/ e.blocked
                      \/ IsBlocked(f, e)
                      \/ Charged(f, e) /\ OverQuota(e.app, capture[x].size)
           /\ Entry(f)' = [e EXCEPT !.blocked = cut]
           /\ \A g \in Flows \ {f} : Entry(g)' = Entry(g)
  BY Judged
<1>2. Verdict(fp, x, e)
  BY <1>1 DEF FPInspect, Entry
<1>3. usage' = IF Charged(f, e) THEN Recorded(e.app, capture[x].size) ELSE usage
  BY <1>1, <1>2 DEF Verdict
<1>. QED
  BY <1>1, <1>3

\* A verdict keeps the bound: a charge that stays within the quota is allowed,
\* and one that does not cuts a flow that was not cut.
LEMMA OverInspect ==
    ASSUME TypeOK, OrderInv, OverInv, NEW fp \in FPs, FPInspect(fp)
    PROVE  OverInv'
<1>1. PICK x \in Ids, f \in Flows, e \in FlowEntry, cut \in BOOLEAN :
           /\ e = Identify(x, Entry(f)) /\ Entry(f) \in FlowEntry
           /\ cut <=> \/ e.blocked
                      \/ IsBlocked(f, e)
                      \/ Charged(f, e) /\ OverQuota(e.app, capture[x].size)
           /\ Entry(f)' = [e EXCEPT !.blocked = cut]
           /\ \A g \in Flows \ {f} : Entry(g)' = Entry(g)
           /\ usage' = IF Charged(f, e) THEN Recorded(e.app, capture[x].size)
                       ELSE usage
  BY Charge
<1>2. /\ e.blocked = Entry(f).blocked
      /\ Entry(f).classified => e = Entry(f)
      /\ Entry(f)'.app = e.app /\ Entry(f)'.classified = e.classified
      /\ Entry(f)'.blocked = cut
  BY <1>1, Identified DEF FlowEntry
<1>3. start' = start /\ Biggest' = Biggest /\ \A a : Allowance(a)' = Allowance(a)
  BY DEF FPInspect, Biggest, Sizes, Ids, Allowance
<1>. SUFFICES ASSUME NEW a \in QuotaApps
              PROVE  usage'[a] =< Allowance(a) + Biggest * CutFlows(a)'
  BY <1>3 DEF OverInv
<1>. DEFINE C == Cut(a)
            D == Cut(a)'
            size == capture[x].size
<1>4. C \subseteq Flows /\ D \subseteq Flows
  BY DEF Cut
<1>5. \A g \in Flows : g \in C <=>
          Entry(g).app = a /\ Entry(g).classified /\ Entry(g).blocked
  BY DEF Cut
<1>6. \A g \in Flows : g \in D <=>
          Entry(g)'.app = a /\ Entry(g)'.classified /\ Entry(g)'.blocked
  BY DEF Cut
<1>7. C \subseteq D
  <2>1. f \in C => f \in D
    BY <1>1, <1>2, <1>5, <1>6
  <2>2. \A g \in Flows \ {f} : g \in C => g \in D
    BY <1>1, <1>5, <1>6
  <2>. QED
    BY <1>4, <2>1, <2>2
<1>8. /\ usage[a] \in Nat /\ Allowance(a) \in Nat /\ Limit[a] \in Nat
      /\ Limit[a] =< Allowance(a) /\ Biggest \in Nat
      /\ size \in Nat /\ size =< Biggest
      /\ usage[a] =< Allowance(a) + Biggest * Cardinality(C)
  BY Allowed, Largest, QuotaAssumption DEF TypeOK, OverInv, CutFlows
<1>. HIDE DEF C, D, size
<1>9. /\ IsFiniteSet(C) /\ IsFiniteSet(D)
      /\ Cardinality(C) \in Nat /\ Cardinality(D) \in Nat
      /\ Cardinality(C) =< Cardinality(D)
  BY <1>4, <1>7, CutType, FS_Subset
<1>10. CutFlows(a)' = Cardinality(D)
  BY DEF CutFlows, D
<1>11. CASE usage'[a] = usage[a]
  <2>1. Biggest * Cardinality(C) =< Biggest * Cardinality(D)
    BY <1>8, <1>9, Z3
  <2>2. Biggest * Cardinality(C) \in Nat /\ Biggest * Cardinality(D) \in Nat
    BY <1>8, <1>9
  <2>. QED
    BY <1>8, <1>10, <1>11, <2>1, <2>2
<1>12. CASE usage'[a] # usage[a]
  <2>1. /\ Charged(f, e) /\ e.app = a /\ usage'[a] = usage[a] + size
    BY <1>1, <1>12 DEF Recorded, TypeOK, size
  <2>2. CASE OverQuota(a, size)
    <3>1. cut /\ ~e.blocked /\ e.classified
      BY <1>1, <2>1, <2>2 DEF Charged, size
    <3>2. f \in D /\ f \notin C
      BY <1>2, <1>5, <1>6, <2>1, <3>1
    <3>3. Cardinality(C) + 1 =< Cardinality(D)
      <4>1. Cardinality(C \cup {f}) = Cardinality(C) + 1
        BY <1>9, <3>2, FS_AddElement
      <4>2. C \cup {f} \subseteq D
        BY <1>7, <3>2
      <4>. QED
        BY <1>9, <4>1, <4>2, FS_Subset
    <3>4. Biggest * Cardinality(C) + Biggest =< Biggest * Cardinality(D)
      BY <1>8, <1>9, <3>3, Z3
    <3>5. Biggest * Cardinality(C) \in Nat /\ Biggest * Cardinality(D) \in Nat
      BY <1>8, <1>9
    <3>. QED
      BY <1>8, <1>10, <2>1, <3>4, <3>5
  <2>3. CASE ~OverQuota(a, size)
    <3>1. usage[a] + size =< Limit[a]
      BY <1>8, <2>3 DEF OverQuota
    <3>2. Biggest * Cardinality(D) \in Nat
      BY <1>8, <1>9
    <3>. QED
      BY <1>8, <1>10, <2>1, <3>1, <3>2
  <2>. QED
    BY <2>2, <2>3
<1>. QED
  BY <1>11, <1>12

\* Every step keeps the bound.
LEMMA OverNext ==
    ASSUME TypeOK, ShutdownOrder, OrderInv, OverInv, [Next]_vars
    PROVE  OverInv'
<1>1. CASE ~\E fp \in FPs : FPInspect(fp)
  <2>1. capture' = capture /\ flows' = flows
    BY <1>1, NotJudged
  <2>2. usage' = usage /\ start' = start
    <3>1. ASSUME NEW lb \in LBs, LBTake(lb) \/ LBPush(lb)
          PROVE  usage' = usage /\ start' = start
      BY <3>1 DEF LBTake, LBPush, inspectVars, quotaVars
    <3>2. ASSUME NEW fp \in FPs, FPTake(fp) \/ FPPush(fp)
          PROVE  usage' = usage /\ start' = start
      BY <3>2 DEF FPTake, FPPush, inspectVars, quotaVars
    <3>3. CASE Read \/ WriterTake \/ Idle
      BY <3>3 DEF Read, WriterTake, Idle, inspectVars, quotaVars
    <3>. QED
      BY <1>1, <3>1, <3>2, <3>3, StepsSorted
  <2>. QED
    BY <2>1, <2>2 DEF OverInv, Allowance, Biggest, Sizes, Ids, CutFlows, Cut, Entry
<1>. QED
  BY <1>1, OverInspect

\* Whatever the interleaving of the fast paths, each flow that is cut costs its
\* application at most one packet beyond the quota (or beyond what the usage at
\* the start already was).
THEOREM OvershootBounded == Spec => []UsageOvershoot
<1>. DEFINE Inv == TypeOK /\ StopInv /\ OrderInv /\ OverInv
<1>1. Init => Inv
  <2>1. ASSUME Init PROVE OverInv
    <3>1. TypeOK
      BY <2>1, TypeInit
    <3>. SUFFICES ASSUME NEW a \in QuotaApps
                  PROVE  usage[a] =< Allowance(a) + Biggest * CutFlows(a)
      BY DEF OverInv
    <3>2. usage[a] = start[a] /\ start[a] \in Nat
      BY <2>1, <3>1 DEF Init, TypeOK
    <3>3. Biggest \in Nat /\ CutFlows(a) \in Nat
      BY <3>1, Largest, CutType DEF CutFlows, Cut
    <3>4. Biggest * CutFlows(a) \in Nat
      BY <3>3
    <3>. QED
      BY <3>1, <3>2, <3>4, Allowed
  <2>. QED
    BY <2>1, TypeInit, StopInit, OrderInit
<1>2. Inv /\ [Next]_vars => Inv'
  BY TypeNext, StopNext, StopImpliesOrder, OrderNext, OverNext
<1>3. Inv => UsageOvershoot
  BY OverIsOvershoot
<1>. QED
  BY <1>1, <1>2, <1>3, PTL DEF Spec

=============================================================================
