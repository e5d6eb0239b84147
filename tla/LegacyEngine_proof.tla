------------------------- MODULE LegacyEngine_proof -------------------------
(***************************************************************************)
(* Theorems about the first engine: the stop order of its threads, the     *)
(* order of a flow's packets, the flows it cuts, and its counters.         *)
(***************************************************************************)
EXTENDS LegacyEngine, FiniteSetTheorems, SequenceTheorems, TLAPS

-----------------------------------------------------------------------------
(* The thread numbers. *)

\* Load balancers come before fast paths, those before the output thread.
LEMMA Shape ==
    /\ NumFPs \in Nat
    /\ LBs \subseteq Threads
    /\ FPs \subseteq Threads
    /\ Output \in Threads
    /\ 1 \in Threads
    /\ \A lb \in LBs, fp \in FPs : lb < fp /\ fp < Output /\ lb < Output
<1>1. NumLBs \in Nat \ {0} /\ FpsPerLb \in Nat \ {0}
  BY LegacyAssumption
<1>2. NumFPs \in Nat
  BY <1>1 DEF NumFPs
<1>. QED
  BY <1>1, <1>2 DEF LBs, FPs, Output, Threads

\* Multiplication is monotonic: the arithmetic the block routing needs.
LEMMA Blocks ==
    ASSUME NEW n \in Nat, NEW k \in Nat, NEW i \in 1 .. n, NEW r \in 0 .. k - 1
    PROVE  (i - 1) * k + r + 1 \in 1 .. n * k
<1>1. /\ (i - 1) * k \in Nat
      /\ n * k \in Nat
      /\ (n - i) * k \in Nat
  OBVIOUS
<1>2. n * k = (i - 1) * k + k + (n - i) * k
  OBVIOUS
<1>. QED
  BY <1>1, <1>2

\* The hash always selects an existing thread: the reader a load balancer,
\* and a load balancer one of the fast paths.
LEMMA Routing ==
    ASSUME NEW f \in Tuples
    PROVE  /\ LBForPacket(f) \in LBs
           /\ \A lb \in LBs : SelectFP(lb, f) \in FPs
<1>. USE LegacyAssumption
<1>1. LBForPacket(f) \in LBs
  BY DEF LBForPacket, LBs
<1>2. ASSUME NEW lb \in LBs PROVE SelectFP(lb, f) \in FPs
  <2>1. Hash[f] % FpsPerLb \in 0 .. FpsPerLb - 1
    OBVIOUS
  <2>2. (lb - 1) * FpsPerLb + (Hash[f] % FpsPerLb) + 1 \in 1 .. NumFPs
    BY <2>1, Blocks DEF LBs, NumFPs
  <2>3. (lb - 1) * FpsPerLb \in Nat
    BY DEF LBs
  <2>. QED
    BY <2>1, <2>2, <2>3, Shape DEF SelectFP, FPs
<1>. QED
  BY <1>1, <1>2

-----------------------------------------------------------------------------
(* The connection tables. *)

\* Where a thread can be.
Places == {"loop", "pop", "push", "inspect", "exit"}

\* The connections of any fast path; nothing grows older here.
Entries == [state : {"NEW", "ESTABLISHED", "CLASSIFIED", "BLOCKED", "CLOSED"},
            app : AppTypes, sni : Names,
            syn : BOOLEAN, synAck : BOOLEAN, fin : BOOLEAN,
            lastSeen : 0 .. 0]

\* A connection of FlowTracker is one of these.
LEMMA EntriesAre == \A fp : Tracker(fp)!Connection = Entries
  BY DEF Tracker!Connection, Tracker!States, Entries

\* A table that fits.
Table(c) ==
    /\ DOMAIN c \subseteq Tuples
    /\ Cardinality(DOMAIN c) <= MaxConnections
    /\ c \in [DOMAIN c -> Entries]

\* Every fast path has a table that fits.
LEMMA TablesFit ==
    ASSUME TypeOK, NEW fp \in FPs
    PROVE  Table(conns[fp]) /\ IsFiniteSet(DOMAIN conns[fp])
<1>1. Table(conns[fp])
  BY EntriesAre DEF TypeOK, Table
<1>2. IsFiniteSet(DOMAIN conns[fp])
  BY <1>1, LegacyAssumption, FS_Subset DEF Table
<1>. QED
  BY <1>1, <1>2

\* A table that loses some entries still fits, and keeps the others.
LEMMA Reduced ==
    ASSUME TypeOK, NEW fp \in FPs, NEW gone, NEW c,
           c = Tracker(fp)!Without(gone)
    PROVE  /\ Table(c) /\ IsFiniteSet(DOMAIN c)
           /\ DOMAIN c = DOMAIN conns[fp] \ gone
           /\ \A u \in DOMAIN c : c[u] = conns[fp][u]
<1>1. /\ DOMAIN c = DOMAIN conns[fp] \ gone
      /\ c = [u \in DOMAIN c |-> conns[fp][u]]
  BY DEF Tracker!Without, Tracker!Restrict
<1>2. \A u \in DOMAIN c : c[u] = conns[fp][u]
  BY <1>1
<1>3. Table(conns[fp]) /\ IsFiniteSet(DOMAIN conns[fp])
  BY TablesFit
<1>4. /\ IsFiniteSet(DOMAIN c)
      /\ Cardinality(DOMAIN c) <= Cardinality(DOMAIN conns[fp])
  BY <1>1, <1>3, FS_Subset
<1>5. Cardinality(DOMAIN c) <= MaxConnections
  <2>1. /\ Cardinality(DOMAIN c) \in Nat
        /\ Cardinality(DOMAIN conns[fp]) \in Nat
    BY <1>3, <1>4, FS_CardinalityType
  <2>. QED
    BY <1>3, <1>4, <2>1, LegacyAssumption DEF Table
<1>6. c \in [DOMAIN c -> Entries]
  BY <1>1, <1>3 DEF Table
<1>. QED
  BY <1>1, <1>2, <1>3, <1>4, <1>5, <1>6 DEF Table

\* What the lookup of a tuple leaves behind: a table with that tuple that still
\* fits, with the other entries as they were, and all of them if there is room
\* for every tuple.
LEMMA LookedTable ==
    ASSUME TypeOK, NEW fp \in FPs, NEW t \in Tuples,
           NEW c \in Tracker(fp)!Looked(t)
    PROVE  /\ Table(c) /\ t \in DOMAIN c
           /\ t \in DOMAIN conns[fp] => c = conns[fp]
           /\ t \notin DOMAIN conns[fp] => ~c[t].fin
           /\ DOMAIN c \subseteq DOMAIN conns[fp] \cup {t}
           /\ \A u \in DOMAIN c \ {t} : c[u] = conns[fp][u]
           /\ Cardinality(Tuples) <= MaxConnections =>
                  DOMAIN conns[fp] \subseteq DOMAIN c
<1>. DEFINE old == conns[fp]
            new == Tracker(fp)!NewConnection
<1>0. Table(old) /\ IsFiniteSet(DOMAIN old)
  BY TablesFit
<1>1. CASE t \in DOMAIN old
  <2>1. c = old
    BY <1>1 DEF Tracker!Looked
  <2>. QED
    BY <1>0, <1>1, <2>1
<1>2. CASE t \notin DOMAIN old
  <2>1. new \in Entries /\ ~new.fin
    BY LegacyAssumption DEF Tracker!NewConnection, Entries
  <2>2. PICK kept : /\ c = Tracker(fp)!With(kept, t)
                    /\ \/ ~Tracker(fp)!Full /\ kept = old
                       \/ /\ Tracker(fp)!Full
                          /\ \E o \in Tracker(fp)!Oldest :
                                 kept = Tracker(fp)!Without({o})
    BY <1>2 DEF Tracker!Looked
  <2>3. Tracker(fp)!Full <=> Cardinality(DOMAIN old) >= MaxConnections
    BY DEF Tracker!Full, Tracker!Cardinality, Cardinality
  <2>4. /\ Table(kept) /\ IsFiniteSet(DOMAIN kept)
        /\ DOMAIN kept \subseteq DOMAIN old
        /\ \A u \in DOMAIN kept : kept[u] = old[u]
        /\ Cardinality(DOMAIN kept) < MaxConnections
    <3>0. Cardinality(DOMAIN old) \in Nat /\ MaxConnections \in Nat
      BY <1>0, FS_CardinalityType, LegacyAssumption
    <3>1. CASE ~Tracker(fp)!Full /\ kept = old
      BY <1>0, <2>3, <3>0, <3>1 DEF Table
    <3>2. CASE \E o \in Tracker(fp)!Oldest : kept = Tracker(fp)!Without({o})
      <4>1. PICK o \in Tracker(fp)!Oldest : kept = Tracker(fp)!Without({o})
        BY <3>2
      <4>2. o \in DOMAIN old
        BY DEF Tracker!Oldest
      <4>3. /\ Table(kept) /\ IsFiniteSet(DOMAIN kept)
            /\ DOMAIN kept = DOMAIN old \ {o}
            /\ \A u \in DOMAIN kept : kept[u] = old[u]
        BY <4>1, Reduced
      <4>4. Cardinality(DOMAIN kept) = Cardinality(DOMAIN old) - 1
        BY <1>0, <4>2, <4>3, FS_RemoveElement
      <4>5. Cardinality(DOMAIN old) <= MaxConnections
        BY <1>0 DEF Table
      <4>. QED
        BY <3>0, <4>3, <4>4, <4>5
    <3>. QED
      BY <2>2, <3>1, <3>2
  <2>5. /\ DOMAIN c = DOMAIN kept \cup {t}
        /\ c = [u \in DOMAIN c |-> IF u = t THEN new ELSE kept[u]]
    BY <2>2 DEF Tracker!With
  <2>6. /\ t \notin DOMAIN kept /\ c[t] = new
        /\ \A u \in DOMAIN kept : c[u] = old[u]
    BY <1>2, <2>4, <2>5
  <2>7. Cardinality(DOMAIN c) <= MaxConnections
    <3>1. /\ Cardinality(DOMAIN c) = Cardinality(DOMAIN kept) + 1
          /\ Cardinality(DOMAIN kept) \in Nat
      BY <2>4, <2>5, <2>6, FS_AddElement, FS_CardinalityType
    <3>. QED
      BY <2>4, <3>1, LegacyAssumption
  <2>8. c \in [DOMAIN c -> Entries]
    <3>1. \A u \in DOMAIN c : (IF u = t THEN new ELSE kept[u]) \in Entries
      BY <2>1, <2>4, <2>5 DEF Table
    <3>. HIDE DEF new
    <3>. QED
      BY <2>5, <3>1
  <2>9. Table(c)
    BY <2>4, <2>5, <2>7, <2>8 DEF Table
  <2>10. ASSUME Cardinality(Tuples) <= MaxConnections PROVE kept = old
    <3>1. DOMAIN old \subseteq Tuples /\ DOMAIN old # Tuples
      BY <1>0, <1>2 DEF Table
    <3>2. Cardinality(DOMAIN old) < Cardinality(Tuples)
      <4>1. IsFiniteSet(Tuples)
        BY LegacyAssumption
      <4>2. /\ Cardinality(DOMAIN old) <= Cardinality(Tuples)
            /\ Cardinality(DOMAIN old) # Cardinality(Tuples)
        BY <3>1, <4>1, FS_Subset
      <4>3. Cardinality(DOMAIN old) \in Nat /\ Cardinality(Tuples) \in Nat
        BY <1>0, <4>1, FS_CardinalityType
      <4>. QED
        BY <4>2, <4>3
    <3>3. /\ Cardinality(DOMAIN old) \in Nat /\ Cardinality(Tuples) \in Nat
          /\ MaxConnections \in Nat
      BY <1>0, FS_CardinalityType, LegacyAssumption
    <3>4. ~(Cardinality(DOMAIN old) >= MaxConnections)
      BY <2>10, <3>2, <3>3
    <3>. QED
      BY <2>2, <2>3, <3>4
  <2>. HIDE DEF new
  <2>. QED
    BY <1>2, <2>1, <2>4, <2>5, <2>6, <2>9, <2>10
<1>. QED
  BY <1>1, <1>2

\* A packet that closes the connection it finds.
Closing(c, p) ==
    /\ p.tuple \in TcpTuples
    /\ \/ "RST" \in p.flags
       \/ "ACK" \in p.flags /\ ("FIN" \in p.flags \/ c.fin)

\* A packet turns a connection into a connection.  A blocked one stays blocked
\* unless the packet closes it, and inspection neither blocks nor unblocks.  A
\* FIN is remembered only if there was one.
LEMMA LookedEntry ==
    ASSUME NEW fp, NEW c \in Entries, NEW p \in Packet
    PROVE  LET touched == Tracker(fp)!Touched(c, p)
               entry == Tracker(fp)!Inspected(touched, p)
           IN
           /\ entry \in Entries
           /\ entry.state = "BLOCKED" <=> touched.state = "BLOCKED"
           /\ entry.fin => c.fin \/ "FIN" \in p.flags
           /\ c.state = "BLOCKED" /\ ~Closing(c, p) => touched.state = "BLOCKED"
<1>. DEFINE touched == Tracker(fp)!Touched(c, p)
            entry == Tracker(fp)!Inspected(touched, p)
            now == [c EXCEPT !.lastSeen = 0]
            flagged == [now EXCEPT
                !.syn = @ \/ ("SYN" \in p.flags /\ "ACK" \notin p.flags),
                !.synAck = @ \/ {"SYN", "ACK"} \subseteq p.flags,
                !.fin = @ \/ "FIN" \in p.flags]
            closes == "RST" \in p.flags \/ (flagged.fin /\ "ACK" \in p.flags)
            state == IF closes THEN "CLOSED"
                     ELSE IF Tracker(fp)!Opens(flagged, p.flags)
                     THEN "ESTABLISHED" ELSE flagged.state
<1>1. /\ now \in Entries /\ now.state = c.state /\ now.fin = c.fin
  BY DEF Entries
<1>2. /\ flagged \in Entries /\ flagged.state = c.state
      /\ flagged.fin <=> (c.fin \/ "FIN" \in p.flags)
  BY <1>1 DEF Entries
<1>3. /\ state \in {"NEW", "ESTABLISHED", "CLASSIFIED", "BLOCKED", "CLOSED"}
      /\ c.state = "BLOCKED" /\ ~closes => state = "BLOCKED"
  BY <1>2 DEF Entries, Tracker!Opens
<1>4. Tracker(fp)!TcpUpdated(now, p.flags) = [flagged EXCEPT !.state = state]
  BY DEF Tracker!TcpUpdated
<1>5. closes <=> \/ "RST" \in p.flags
                 \/ "ACK" \in p.flags /\ ("FIN" \in p.flags \/ c.fin)
  BY <1>2
<1>6. touched = IF p.tuple \in TcpTuples THEN [flagged EXCEPT !.state = state]
                ELSE now
  BY <1>4 DEF Tracker!Touched
<1>. HIDE DEF touched, now, flagged, closes, state
<1>7. /\ [flagged EXCEPT !.state = state] \in Entries
      /\ [flagged EXCEPT !.state = state].state = state
      /\ [flagged EXCEPT !.state = state].fin = flagged.fin
  BY <1>2, <1>3 DEF Entries
<1>8. /\ touched \in Entries
      /\ touched.fin => c.fin \/ "FIN" \in p.flags
      /\ c.state = "BLOCKED" /\ ~Closing(c, p) => touched.state = "BLOCKED"
  <2>1. CASE p.tuple \in TcpTuples
    BY <1>2, <1>3, <1>5, <1>6, <1>7, <2>1 DEF Closing
  <2>2. CASE p.tuple \notin TcpTuples
    BY <1>1, <1>6, <2>2
  <2>. QED
    BY <2>1, <2>2
<1>9. \A f \in Tracker(fp)!Findings(p) : f[1] \in AppTypes /\ f[2] \in Names
  BY LegacyAssumption DEF Tracker!Findings, Packet
<1>10. /\ entry \in Entries /\ entry.fin = touched.fin
       /\ entry.state = "BLOCKED" <=> touched.state = "BLOCKED"
  <2>1. CASE Tracker(fp)!MayInspect(touched, p) /\ Tracker(fp)!Findings(p) # {}
    <3>1. PICK f \in Tracker(fp)!Findings(p) :
             entry = [touched EXCEPT !.state = "CLASSIFIED",
                                     !.app = f[1], !.sni = f[2]]
      BY <2>1 DEF Tracker!Inspected
    <3>2. touched.state # "BLOCKED"
      BY <2>1 DEF Tracker!MayInspect
    <3>. QED
      BY <3>1, <3>2, <1>8, <1>9 DEF Entries
  <2>2. CASE ~(Tracker(fp)!MayInspect(touched, p) /\ Tracker(fp)!Findings(p) # {})
    <3>1. entry = touched
      BY <2>2 DEF Tracker!Inspected
    <3>. QED
      BY <3>1, <1>8
  <2>. QED
    BY <2>1, <2>2
<1>. HIDE DEF entry
<1>. QED
  BY <1>8, <1>10 DEF touched, entry

-----------------------------------------------------------------------------
(* Type correctness, a part at a time. *)

\* The queues and the threads,
ThreadTypes ==
    /\ queue \in [Threads -> Seq(Ids)]
    /\ shut \in [Threads -> BOOLEAN]
    /\ running \in [Threads -> BOOLEAN]
    /\ pc \in [Threads -> Places]
    /\ hand \in [Threads -> Ids \cup {Nothing}]
    /\ \A t \in Threads : pc[t] \in {"push", "inspect"} => hand[t] \in Ids
    /\ written \in Seq(Ids)
    /\ leftEarly \in BOOLEAN

\* processFile and the API,
MainTypes ==
    /\ mainPc \in {"read", "sleep", "flag", "shut", "join", "done"}
    /\ cursor \in Threads
    /\ total \in 0 .. Len(capture)
    /\ rules \subseteq AllRules
    /\ changes \in 0 .. MaxChanges
    /\ faulted \in BOOLEAN

\* the counters,
CountTypes ==
    /\ received \in [LBs -> Nat]
    /\ dispatched \in [LBs -> Nat]
    /\ perFp \in [LBs -> [{} -> Nat]]
    /\ processed \in [FPs -> Nat]
    /\ fpForwarded \in [FPs -> Nat]
    /\ fpDropped \in [FPs -> Nat]
    /\ forwarded \in Nat
    /\ dropped \in Nat
    /\ cut \subseteq Ids

\* the connection tables.
TableTypes ==
    /\ lock \in [FPs -> {"ip", "port", "app", "domain", "none"}]
    /\ DOMAIN conns = FPs
    /\ \A fp \in FPs : Table(conns[fp])

\* The parts are the whole.
LEMMA TypeParts ==
    TypeOK <=> /\ capture \in Captures
               /\ ThreadTypes /\ MainTypes /\ CountTypes /\ TableTypes
<1>. USE EntriesAre DEF ThreadTypes, MainTypes, CountTypes, TableTypes, Table,
                        Places
<1>1. TypeOK => /\ capture \in Captures
                /\ ThreadTypes /\ MainTypes /\ CountTypes /\ TableTypes
  BY DEF TypeOK
<1>2. ASSUME capture \in Captures, ThreadTypes, MainTypes, CountTypes, TableTypes
      PROVE  TypeOK
  BY <1>2 DEF TypeOK
<1>. QED
  BY <1>1, <1>2

\* The same after a step.
LEMMA TypePartsNext ==
    ASSUME (capture \in Captures)', ThreadTypes', MainTypes', CountTypes',
           TableTypes'
    PROVE  TypeOK'
  BY EntriesAre DEF TypeOK, ThreadTypes, MainTypes, CountTypes, TableTypes,
                    Table, Places

\* The packets of a capture.
LEMMA PacketType ==
    ASSUME TypeOK, NEW p \in Ids
    PROVE  capture[p] \in Packet /\ Flow(p) \in Tuples
<1>1. capture \in Seq(Packet)
  BY LegacyAssumption DEF TypeOK
<1>2. capture[p] \in Packet
  BY <1>1 DEF Ids
<1>. QED
  BY <1>2 DEF Packet, Flow

\* A pop leaves a queue of packets and puts a packet in the thread's hands.
LEMMA TakeType ==
    ASSUME TypeOK, NEW t \in Threads, NEW next \in {"push", "inspect"},
           Take(t, next), UNCHANGED <<capture, shut, running, written, leftEarly>>
    PROVE  ThreadTypes'
<1>1. ThreadTypes
  BY TypeParts
<1>2. Head(queue[t]) \in Ids /\ Tail(queue[t]) \in Seq(Ids)
  BY <1>1 DEF Take, ThreadTypes
<1>. QED
  BY <1>1, <1>2 DEF Take, Goes, ThreadTypes, Ids, Places

\* A push puts the packet in the hands of a thread into a queue.
LEMMA PushType ==
    ASSUME TypeOK, NEW t \in Threads, NEW to \in Threads, hand[t] \in Ids,
           Push(t, to), UNCHANGED <<capture, shut, running, written, leftEarly>>
    PROVE  ThreadTypes'
<1>1. ThreadTypes
  BY TypeParts
<1>2. queue' \in [Threads -> Seq(Ids)]
  BY <1>1 DEF Push, Pushed, ThreadTypes
<1>. QED
  BY <1>1, <1>2 DEF Push, Goes, ThreadTypes, Ids, Places

\* A thread's loop test, or a pop that comes back without a packet.
LEMMA TypeIdleThread ==
    ASSUME TypeOK, NEW t \in Threads, LoopTest(t) \/ PopNothing(t)
    PROVE  TypeOK'
<1>1. /\ capture \in Captures /\ ThreadTypes /\ MainTypes /\ CountTypes
      /\ TableTypes
  BY TypeParts
<1>2. /\ UNCHANGED <<capture, queue, shut, running, hand, mainPc, cursor,
                     countVars, lock, ruleVars, written, faulted>>
      /\ leftEarly' \in BOOLEAN
      /\ \E place \in {"loop", "pop", "exit"} : pc' = [pc EXCEPT ![t] = place]
  BY <1>1 DEF LoopTest, PopNothing, Goes, ThreadTypes, tableVars, outputVars
<1>3. ThreadTypes' /\ MainTypes' /\ CountTypes'
  BY <1>1, <1>2 DEF ThreadTypes, MainTypes, CountTypes, Ids, Places, countVars,
     lbCounts, fpCounts, ruleVars
<1>4. TableTypes'
  <2>1. CASE conns' = conns
    BY <1>1, <1>2, <2>1 DEF TableTypes, Table
  <2>2. CASE t \in FPs /\ PopNothing(t)
    <3>. DEFINE c == Tracker(t)!Without(Tracker(t)!Gone)
    <3>1. conns' = [conns EXCEPT ![t] = c]
      BY <2>2 DEF PopNothing
    <3>2. Table(c)
      BY <2>2, Reduced
    <3>. HIDE DEF c
    <3>. QED
      BY <1>1, <1>2, <3>1, <3>2 DEF TableTypes, Table
  <2>. QED
    BY <2>1, <2>2 DEF LoopTest, PopNothing, tableVars
<1>. QED
  BY <1>1, <1>2, <1>3, <1>4, TypePartsNext

\* The other steps of a load balancer.
LEMMA TypeLBStep ==
    ASSUME TypeOK, NEW lb \in LBs, LBStep(lb)
    PROVE  TypeOK'
<1>0. lb \in Threads
  BY Shape
<1>1. /\ capture \in Captures /\ ThreadTypes /\ MainTypes /\ CountTypes
      /\ TableTypes
  BY TypeParts
<1>2. CASE LBTake(lb)
  <2>1. ThreadTypes'
    BY <1>0, <1>2, TakeType DEF LBTake, outputVars
  <2>2. MainTypes' /\ CountTypes' /\ TableTypes' /\ capture' = capture
    BY <1>1, <1>2 DEF LBTake, MainTypes, CountTypes, TableTypes, Table, Ids,
       fpCounts, tableVars, ruleVars, outputVars
  <2>. QED
    BY <1>1, <2>1, <2>2, TypePartsNext
<1>3. CASE LBPush(lb)
  <2>. DEFINE fp == SelectFP(lb, Flow(hand[lb]))
  <2>1. hand[lb] \in Ids /\ fp \in Threads
    <3>1. hand[lb] \in Ids
      BY <1>0, <1>1, <1>3 DEF LBPush, Push, Goes, ThreadTypes
    <3>. QED
      BY <3>1, PacketType, Routing, Shape
  <2>2. Push(lb, fp) /\ Counted(lb, fp)
    BY <1>3 DEF LBPush
  <2>. HIDE DEF fp
  <2>3. ThreadTypes'
    BY <1>0, <1>3, <2>1, <2>2, PushType DEF LBPush
  <2>4. MainTypes'
    BY <1>1, <1>3, <2>2 DEF LBPush, Counted, MainTypes, ruleVars
  <2>5. perFp' \in [LBs -> [{} -> Nat]]
    <3>1. perFp[lb] \in [{} -> Nat]
      BY <1>1 DEF CountTypes
    <3>2. [i \in DOMAIN perFp[lb] |-> perFp[lb][i] + (IF i = fp THEN 1 ELSE 0)]
              \in [{} -> Nat]
      BY <3>1
    <3>. QED
      BY <1>1, <2>2, <3>2 DEF Counted, CountTypes
  <2>6. dispatched' \in [LBs -> Nat] /\ received' = received /\ UNCHANGED fpCounts
        /\ UNCHANGED <<capture, forwarded, dropped, cut, tableVars>>
    BY <1>1, <1>3 DEF LBPush, CountTypes
  <2>7. CountTypes'
    BY <1>1, <2>5, <2>6 DEF CountTypes, Ids, fpCounts
  <2>8. TableTypes'
    BY <1>1, <2>6 DEF TableTypes, Table, tableVars
  <2>. QED
    BY <1>1, <2>3, <2>4, <2>6, <2>7, <2>8, TypePartsNext
<1>. QED
  BY <1>0, <1>2, <1>3, TypeIdleThread DEF LBStep

\* A fast path asks for the rules only about a packet in its hands, whose
\* connection is in its table and is not blocked.
LockInv ==
    \A fp \in FPs : lock[fp] # "none" =>
        /\ pc[fp] = "inspect"
        /\ Flow(hand[fp]) \in DOMAIN conns[fp]
        /\ conns[fp][Flow(hand[fp])].state # "BLOCKED"

\* What a step of the verdict on packet x, of flow f, does to the state, for
\* a table c that the lookup left behind: the flow's entry becomes e.
Outcome(fp, x, f, e, c) ==
    /\ x = hand[fp] /\ f = Flow(x) /\ pc[fp] = "inspect"
    /\ c[f] \in Entries
    /\ Table([c EXCEPT ![f] = e])
    /\ DOMAIN conns' = FPs
    /\ conns'[fp] = [c EXCEPT ![f] = e]
    /\ \A g \in FPs \ {fp} : conns'[g] = conns[g] /\ lock'[g] = lock[g]
    /\ lock' \in [FPs -> {"ip", "port", "app", "domain", "none"}]
    /\ e.fin => c[f].fin \/ "FIN" \in capture[x].flags
    /\ c[f].state = "BLOCKED" /\ ~Closing(c[f], capture[x]) => FPDrop(fp)
    /\ \/ FPDrop(fp) /\ lock'[fp] = "none" /\ e.state = "BLOCKED"
       \/ FPForward(fp) /\ lock'[fp] = "none"
       \/ FPUndecided(fp) /\ lock'[fp] # "none" /\ e.state # "BLOCKED"

\* Every step of a verdict is one of those; the lookup may be an earlier step.
LEMMA Inspection ==
    ASSUME TypeOK, LockInv, NEW fp \in FPs, FPInspect(fp)
    PROVE  \E x \in Ids, f \in Tuples, e \in Entries :
           \E c \in Tracker(fp)!Looked(f) : Outcome(fp, x, f, e, c)
<1>. DEFINE x == hand[fp]
            p == capture[x]
            f == p.tuple
            Kinds == {"ip", "port", "app", "domain", "none"}
<1>1. pc[fp] = "inspect" /\ x \in Ids
  BY Shape, TypeParts DEF FPInspect, ThreadTypes
<1>2. p \in Packet /\ f \in Tuples /\ f = Flow(x)
  BY <1>1, PacketType DEF Flow
<1>3. DOMAIN conns = FPs /\ lock \in [FPs -> Kinds]
  BY TypeParts DEF TableTypes
<1>4. CASE FPLook(fp)
  <2>1. PICK c \in Tracker(fp)!Looked(f) :
            LET t == Tracker(fp)!Touched(c[f], p) IN
            /\ conns' = [conns EXCEPT ![fp] = [c EXCEPT
                             ![f] = Tracker(fp)!Inspected(t, p)]]
            /\ \/ t.state = "BLOCKED" /\ FPDrop(fp) /\ UNCHANGED lock
               \/ /\ t.state # "BLOCKED"
                  /\ FPUndecided(fp)
                  /\ lock' = [lock EXCEPT ![fp] = "ip"]
    BY <1>4 DEF FPLook
  <2>. DEFINE t == Tracker(fp)!Touched(c[f], p)
              e == Tracker(fp)!Inspected(t, p)
  <2>2. Table(c) /\ f \in DOMAIN c
    BY <1>2, <2>1, LookedTable
  <2>3. c[f] \in Entries
    BY <2>2 DEF Table
  <2>4. /\ e \in Entries
        /\ e.state = "BLOCKED" <=> t.state = "BLOCKED"
        /\ e.fin => c[f].fin \/ "FIN" \in p.flags
        /\ c[f].state = "BLOCKED" /\ ~Closing(c[f], p) => t.state = "BLOCKED"
    BY <1>2, <2>3, LookedEntry
  <2>5. /\ conns' = [conns EXCEPT ![fp] = [c EXCEPT ![f] = e]]
        /\ \/ t.state = "BLOCKED" /\ FPDrop(fp) /\ lock' = lock
           \/ /\ t.state # "BLOCKED" /\ FPUndecided(fp)
              /\ lock' = [lock EXCEPT ![fp] = "ip"]
    BY <2>1
  <2>6. lock[fp] = "none"
    BY <1>4 DEF FPLook
  <2>. HIDE DEF e, t, f, p, x
  <2>7. Table([c EXCEPT ![f] = e])
    BY <2>2, <2>4 DEF Table
  <2>8. /\ DOMAIN conns' = FPs /\ conns'[fp] = [c EXCEPT ![f] = e]
        /\ \A g \in FPs \ {fp} : conns'[g] = conns[g] /\ lock'[g] = lock[g]
        /\ lock' \in [FPs -> Kinds]
        /\ \/ FPDrop(fp) /\ lock'[fp] = "none" /\ e.state = "BLOCKED"
           \/ FPUndecided(fp) /\ lock'[fp] # "none" /\ e.state # "BLOCKED"
    BY <1>3, <2>4, <2>5, <2>6
  <2>9. c[f].state = "BLOCKED" /\ ~Closing(c[f], p) => FPDrop(fp)
    BY <2>4, <2>5
  <2>10. x = hand[fp] /\ p = capture[x]
    BY DEF x, p
  <2>11. Outcome(fp, x, f, e, c)
    BY <1>1, <1>2, <2>3, <2>4, <2>7, <2>8, <2>9, <2>10 DEF Outcome
  <2>. QED
    BY <1>1, <1>2, <2>1, <2>4, <2>11
<1>5. CASE FPAsk(fp)
  <2>. DEFINE c == conns[fp]
              hit == Tracker(fp)!Hit(lock[fp], Flow(hand[fp]), c[Flow(hand[fp])])
              next == Tracker(fp)!After(lock[fp])
              e == IF hit THEN [c[f] EXCEPT !.state = "BLOCKED"] ELSE c[f]
  <2>1. lock[fp] # "none"
    BY <1>5 DEF FPAsk
  <2>2. f \in DOMAIN c /\ c[f].state # "BLOCKED"
    BY <1>2, <2>1 DEF LockInv
  <2>3. Table(c) /\ c \in Tracker(fp)!Looked(f)
    BY <2>2, TablesFit DEF Tracker!Looked
  <2>4. c[f] \in Entries
    BY <2>2, <2>3 DEF Table
  <2>5. /\ hit => /\ FPDrop(fp)
                  /\ conns' = [conns EXCEPT ![fp][f].state = "BLOCKED"]
                  /\ lock' = [lock EXCEPT ![fp] = "none"]
        /\ ~hit => /\ IF next = "none" THEN FPForward(fp) ELSE FPUndecided(fp)
                   /\ lock' = [lock EXCEPT ![fp] = next]
                   /\ conns' = conns
    BY <1>2, <1>5 DEF FPAsk
  <2>6. next \in Kinds
    BY <1>3, <2>1 DEF Tracker!After
  <2>. HIDE DEF hit, next, p, x
  <2>7. e \in Entries /\ (e.fin => c[f].fin) /\ (hit <=> e.state = "BLOCKED")
    BY <2>2, <2>4 DEF Entries
  <2>8. /\ DOMAIN conns' = FPs /\ conns'[fp] = [c EXCEPT ![f] = e]
        /\ \A g \in FPs \ {fp} : conns'[g] = conns[g]
    <3>1. CASE hit
      BY <1>3, <2>5, <3>1
    <3>2. CASE ~hit
      <4>1. [c EXCEPT ![f] = e] = c
        BY <2>2, <2>3, <3>2 DEF Table
      <4>. QED
        BY <1>3, <2>5, <3>2, <4>1
    <3>. QED
      BY <3>1, <3>2
  <2>. HIDE DEF e
  <2>9. Table([c EXCEPT ![f] = e])
    BY <2>2, <2>3, <2>7 DEF Table
  <2>10. /\ \A g \in FPs \ {fp} : lock'[g] = lock[g]
         /\ lock' \in [FPs -> Kinds]
         /\ \/ FPDrop(fp) /\ lock'[fp] = "none" /\ e.state = "BLOCKED"
            \/ FPForward(fp) /\ lock'[fp] = "none"
            \/ FPUndecided(fp) /\ lock'[fp] # "none" /\ e.state # "BLOCKED"
    BY <1>3, <2>5, <2>6, <2>7
  <2>11. x = hand[fp]
    BY DEF x
  <2>. HIDE DEF f, c
  <2>12. Outcome(fp, x, f, e, c)
    BY <1>1, <1>2, <2>2, <2>4, <2>7, <2>8, <2>9, <2>10, <2>11 DEF Outcome
  <2>. QED
    BY <1>1, <1>2, <2>3, <2>7, <2>12
<1>. QED
  BY <1>4, <1>5 DEF FPInspect

\* The steps of a fast path.
LEMMA TypeFPStep ==
    ASSUME TypeOK, LockInv, NEW fp \in FPs, FPStep(fp)
    PROVE  TypeOK'
<1>0. fp \in Threads /\ Output \in Threads
  BY Shape
<1>1. /\ capture \in Captures /\ ThreadTypes /\ MainTypes /\ CountTypes
      /\ TableTypes
  BY TypeParts
<1>2. CASE FPTake(fp)
  <2>1. ThreadTypes'
    BY <1>0, <1>2, TakeType DEF FPTake, outputVars
  <2>2. MainTypes' /\ CountTypes' /\ TableTypes' /\ capture' = capture
    BY <1>1, <1>2 DEF FPTake, MainTypes, CountTypes, TableTypes, Table, Ids,
       lbCounts, tableVars, ruleVars, outputVars
  <2>. QED
    BY <1>1, <2>1, <2>2, TypePartsNext
<1>3. CASE FPInspect(fp)
  <2>1. /\ hand[fp] \in Ids
        /\ FPDrop(fp) \/ FPForward(fp) \/ FPUndecided(fp)
        /\ DOMAIN conns' = FPs /\ Table(conns'[fp])
        /\ \A g \in FPs \ {fp} : conns'[g] = conns[g]
        /\ lock' \in [FPs -> {"ip", "port", "app", "domain", "none"}]
    BY <1>3, Inspection DEF Outcome
  <2>2. TableTypes'
    BY <1>1, <2>1 DEF TableTypes, Table
  <2>3. MainTypes' /\ capture' = capture
    BY <1>1, <1>3 DEF FPInspect, MainTypes, ruleVars, outputVars
  <2>4. /\ UNCHANGED <<capture, queue, shut, running, lbCounts, processed,
                       fpForwarded, written, leftEarly>>
    BY <1>3 DEF FPInspect, outputVars
  <2>5. CASE FPDrop(fp)
    <3>1. ThreadTypes'
      BY <1>0, <1>1, <2>4, <2>5 DEF ThreadTypes, FPDrop, Goes, Places, Ids
    <3>2. /\ dropped' \in Nat /\ forwarded' \in Nat /\ cut' \subseteq Ids
          /\ fpDropped' \in [FPs -> Nat]
      <4>1. hand[fp] \in Ids
        BY <2>1
      <4>. QED
        BY <1>1, <2>5, <4>1 DEF CountTypes, FPDrop
    <3>3. CountTypes'
      BY <1>1, <2>4, <3>2 DEF CountTypes, Ids, lbCounts
    <3>. QED
      BY <1>1, <2>2, <2>3, <3>1, <3>3, TypePartsNext
  <2>6. CASE FPForward(fp)
    <3>1. ThreadTypes'
      BY <1>0, <1>1, <2>1, <2>4, <2>6 DEF ThreadTypes, FPForward, Goes, Places, Ids
    <3>2. CountTypes'
      BY <1>0, <1>1, <2>4, <2>6 DEF CountTypes, FPForward, Ids, lbCounts
    <3>. QED
      BY <1>1, <2>2, <2>3, <3>1, <3>2, TypePartsNext
  <2>7. CASE FPUndecided(fp)
    <3>1. ThreadTypes'
      BY <1>0, <1>1, <2>1, <2>4, <2>7 DEF ThreadTypes, FPUndecided, Goes, Places,
         Ids
    <3>2. CountTypes'
      BY <1>0, <1>1, <2>4, <2>7 DEF CountTypes, FPUndecided, Ids, lbCounts
    <3>. QED
      BY <1>1, <2>2, <2>3, <3>1, <3>2, TypePartsNext
  <2>. QED
    BY <2>1, <2>5, <2>6, <2>7
<1>4. CASE FPPush(fp)
  <2>1. hand[fp] \in Ids
    BY <1>0, <1>1, <1>4 DEF FPPush, Push, Goes, ThreadTypes
  <2>2. ThreadTypes'
    BY <1>0, <1>4, <2>1, PushType DEF FPPush, outputVars
  <2>3. MainTypes' /\ CountTypes' /\ TableTypes' /\ capture' = capture
    BY <1>1, <1>4 DEF FPPush, MainTypes, CountTypes, TableTypes, Table, Ids,
       lbCounts, tableVars, ruleVars, outputVars
  <2>. QED
    BY <1>1, <2>2, <2>3, TypePartsNext
<1>. QED
  BY <1>0, <1>2, <1>3, <1>4, TypeIdleThread DEF FPStep

\* The steps of the output thread, of processFile and of the API.
LEMMA TypeOtherSteps ==
    ASSUME TypeOK, OutputStep \/ MainStep \/ ChangeRules \/ Finished
                     \/ UNCHANGED vars
    PROVE  TypeOK'
<1>0. /\ capture \in Captures /\ ThreadTypes /\ MainTypes /\ CountTypes
      /\ TableTypes
  BY TypeParts
<1>1. CASE LoopTest(Output) \/ PopNothing(Output)
  BY <1>1, Shape, TypeIdleThread
<1>2. CASE OutputTake
  <2>1. Head(queue[Output]) \in Ids /\ Tail(queue[Output]) \in Seq(Ids)
    BY <1>0, <1>2, Shape DEF OutputTake, ThreadTypes
  <2>2. ThreadTypes'
    BY <1>0, <1>2, <2>1, Shape DEF OutputTake, Goes, ThreadTypes, Ids, Places
  <2>3. MainTypes' /\ CountTypes' /\ TableTypes' /\ capture' = capture
    BY <1>0, <1>2 DEF OutputTake, MainTypes, CountTypes, TableTypes, Table, Ids,
       countVars, lbCounts, fpCounts, tableVars, ruleVars
  <2>. QED
    BY <1>0, <2>2, <2>3, TypePartsNext
<1>3. CASE Read
  <2>. DEFINE p == total + 1
              lb == LBForPacket(Flow(p))
  <2>1. p \in Ids
    BY <1>0, <1>3 DEF Read, MainTypes, Ids
  <2>2. lb \in Threads
    BY <2>1, PacketType, Routing, Shape
  <2>3. queue' \in [Threads -> Seq(Ids)]
    BY <1>0, <1>3, <2>1, <2>2 DEF Read, Pushed, ThreadTypes
  <2>4. ThreadTypes'
    BY <1>0, <1>3, <2>3 DEF Read, ThreadTypes, Ids, outputVars
  <2>5. MainTypes' /\ CountTypes' /\ TableTypes' /\ capture' = capture
    BY <1>0, <1>3, <2>1 DEF Read, MainTypes, CountTypes, TableTypes, Table, Ids,
       lbCounts, fpCounts, tableVars, ruleVars, outputVars
  <2>. QED
    BY <1>0, <2>4, <2>5, TypePartsNext
<1>4. CASE WaitForCompletion \/ StopEngine \/ ClearFlag \/ ShutQueue \/ Join
  <2>. USE DEF WaitForCompletion, StopEngine, ClearFlag, ShutQueue, Join, MainGoes,
               ruleVars, outputVars
  <2>1. /\ UNCHANGED <<capture, queue, pc, hand, countVars, tableVars, rules, changes,
                       written, leftEarly, faulted>>
        /\ mainPc' \in {"read", "sleep", "flag", "shut", "join", "done"}
    BY <1>4
  <2>2. cursor' \in Threads
    <3>1. cursor \in Threads /\ Output \in Nat
      BY <1>0, Shape DEF MainTypes, Threads
    <3>2. cursor' = cursor \/ (cursor # Output /\ cursor' = cursor + 1)
      BY <1>4
    <3>. QED
      BY <3>1, <3>2 DEF Threads
  <2>3. running' \in [Threads -> BOOLEAN] /\ shut' \in [Threads -> BOOLEAN]
    BY <1>0, <1>4 DEF ThreadTypes
  <2>4. ThreadTypes'
    BY <1>0, <2>1, <2>3 DEF ThreadTypes, Ids
  <2>5. MainTypes' /\ CountTypes' /\ TableTypes'
    BY <1>0, <2>1, <2>2 DEF MainTypes, CountTypes, TableTypes, Table, Ids,
       countVars, lbCounts, fpCounts, tableVars
  <2>. QED
    BY <1>0, <2>1, <2>4, <2>5, TypePartsNext
<1>5. CASE ChangeRules
  <2>1. rules' \subseteq AllRules /\ changes' \in 0 .. MaxChanges
    BY <1>0, <1>5, LegacyAssumption DEF ChangeRules, MainTypes
  <2>2. ThreadTypes' /\ MainTypes' /\ CountTypes' /\ TableTypes' /\ capture' = capture
    BY <1>0, <1>5, <2>1 DEF ChangeRules, ThreadTypes, MainTypes, CountTypes,
       TableTypes, Table, Ids, countVars, lbCounts, fpCounts, tableVars, outputVars,
       threadVars
  <2>. QED
    BY <1>0, <2>2, TypePartsNext
<1>6. CASE Finished \/ UNCHANGED vars
  <2>1. UNCHANGED vars
    BY <1>6 DEF Finished
  <2>2. ThreadTypes' /\ MainTypes' /\ CountTypes' /\ TableTypes' /\ capture' = capture
    BY <1>0, <2>1 DEF vars, ThreadTypes, MainTypes, CountTypes,
       TableTypes, Table, Ids, countVars, lbCounts, fpCounts, tableVars, ruleVars, outputVars,
       threadVars
  <2>. QED
    BY <1>0, <2>2, TypePartsNext
<1>. QED
  BY <1>1, <1>2, <1>3, <1>4, <1>5, <1>6 DEF OutputStep, MainStep

\* The engine starts well typed.
LEMMA TypeInit == Init => TypeOK
<1>. SUFFICES ASSUME Init PROVE TypeOK
  OBVIOUS
<1>. USE Shape, LegacyAssumption DEF Init
<1>1. ThreadTypes
  <2>1. leftEarly \in BOOLEAN
    OBVIOUS
  <2>. QED
    BY <2>1 DEF ThreadTypes, Places, Nothing
<1>2. MainTypes
  <2>1. Len(capture) \in Nat
    OBVIOUS
  <2>2. rules \subseteq AllRules
    OBVIOUS
  <2>3. cursor \in Threads /\ mainPc = "read" /\ faulted = FALSE
    OBVIOUS
  <2>4. total \in 0 .. Len(capture) /\ changes \in 0 .. MaxChanges
    BY <2>1
  <2>. QED
    BY <2>2, <2>3, <2>4 DEF MainTypes
<1>3. CountTypes
  BY DEF CountTypes, CountsOf
<1>4. TableTypes
  <2>1. DOMAIN <<>> = {} /\ <<>> \in [{} -> Entries]
    OBVIOUS
  <2>2. Cardinality({}) = 0
    BY FS_EmptySet
  <2>3. Table(<<>>)
    BY <2>1, <2>2 DEF Table
  <2>. QED
    BY <2>3 DEF TableTypes
<1>. QED
  BY <1>1, <1>2, <1>3, <1>4, TypeParts

\* Every step keeps the types.
LEMMA TypeNext == TypeOK /\ LockInv /\ [Next]_vars => TypeOK'
  BY TypeLBStep, TypeFPStep, TypeOtherSteps DEF Next

\* What becomes of a check that is under way, or begins, at a fast path that
\* keeps the packet and the entry.
LEMMA LockKept ==
    ASSUME LockInv, UNCHANGED lock, capture' = capture,
           \A fp \in FPs : lock[fp] # "none" =>
               pc'[fp] = pc[fp] /\ hand'[fp] = hand[fp] /\ conns'[fp] = conns[fp]
    PROVE  LockInv'
<1>1. \A p : Flow(p)' = Flow(p)
  BY DEF Flow
<1>. QED
  BY <1>1 DEF LockInv

\* Another thread's step leaves the fast path that asks alone.
LEMMA LockOther ==
    ASSUME TypeOK, LockInv, UNCHANGED <<lock, capture>>,
           NEW t \in Threads, pc[t] # "inspect",
           \A u \in Threads \ {t} : pc'[u] = pc[u] /\ hand'[u] = hand[u],
           \A fp \in FPs \ {t} : conns'[fp] = conns[fp]
    PROVE  LockInv'
<1>1. \A fp \in FPs : lock[fp] # "none" => fp # t /\ fp \in Threads
  BY Shape DEF LockInv
<1>. QED
  BY <1>1, LockKept

\* Every step keeps the invariant of the locks.
LEMMA LockNext == TypeOK /\ LockInv /\ [Next]_vars => LockInv'
<1>. SUFFICES ASSUME TypeOK, LockInv, [Next]_vars PROVE LockInv'
  OBVIOUS
<1>0. /\ pc \in [Threads -> Places] /\ DOMAIN hand = Threads /\ DOMAIN conns = FPs
  BY TypeParts DEF ThreadTypes, TableTypes
<1>1. ASSUME NEW t \in Threads, LoopTest(t) PROVE LockInv'
  <2>1. /\ UNCHANGED <<lock, capture, hand, conns>> /\ pc[t] # "inspect"
        /\ \A u \in Threads \ {t} : pc'[u] = pc[u]
    BY <1>0, <1>1 DEF LoopTest, Goes, tableVars
  <2>. QED
    BY <2>1, LockOther
<1>2. ASSUME NEW t \in Threads, PopNothing(t) PROVE LockInv'
  <2>1. /\ UNCHANGED <<lock, capture, hand>> /\ pc[t] # "inspect"
        /\ \A u \in Threads \ {t} : pc'[u] = pc[u]
        /\ \A fp \in FPs \ {t} : conns'[fp] = conns[fp]
    BY <1>0, <1>2 DEF PopNothing, Goes
  <2>. QED
    BY <2>1, LockOther
<1>3. ASSUME NEW lb \in LBs, LBTake(lb) \/ LBPush(lb) PROVE LockInv'
  <2>1. /\ UNCHANGED <<lock, capture, conns>> /\ pc[lb] # "inspect"
        /\ \A u \in Threads \ {lb} : pc'[u] = pc[u] /\ hand'[u] = hand[u]
    BY <1>0, <1>3 DEF LBTake, LBPush, Take, Push, Goes, tableVars
  <2>. QED
    BY <2>1, LockOther, Shape
<1>4. ASSUME NEW fp \in FPs, FPTake(fp) \/ FPPush(fp) PROVE LockInv'
  <2>1. /\ UNCHANGED <<lock, capture, conns>> /\ pc[fp] # "inspect"
        /\ \A u \in Threads \ {fp} : pc'[u] = pc[u] /\ hand'[u] = hand[u]
    BY <1>0, <1>4 DEF FPTake, FPPush, Take, Push, Goes, tableVars
  <2>. QED
    BY <2>1, LockOther, Shape
<1>5. ASSUME NEW fp \in FPs, FPInspect(fp) PROVE LockInv'
  <2>1. PICK x \in Ids, f \in Tuples, e \in Entries :
            \E c \in Tracker(fp)!Looked(f) : Outcome(fp, x, f, e, c)
    BY <1>5, Inspection
  <2>2. PICK c \in Tracker(fp)!Looked(f) : Outcome(fp, x, f, e, c)
    BY <2>1
  <2>3. f \in DOMAIN c
    BY LookedTable
  <2>4. \A u : Flow(u)' = Flow(u)
    BY <1>5 DEF FPInspect, Flow
  <2>5. ASSUME NEW g \in FPs, lock'[g] # "none"
        PROVE  /\ pc'[g] = "inspect"
               /\ Flow(hand'[g]) \in DOMAIN conns'[g]
               /\ conns'[g][Flow(hand'[g])].state # "BLOCKED"
    <3>1. CASE g = fp
      <4>1. FPUndecided(fp) /\ e.state # "BLOCKED"
        BY <2>2, <2>5, <3>1 DEF Outcome
      <4>2. pc'[fp] = "inspect" /\ hand'[fp] = x
        BY <1>0, <2>2, <4>1, Shape DEF Outcome, FPUndecided, Goes
      <4>. QED
        BY <1>0, <2>2, <2>3, <3>1, <4>1, <4>2 DEF Outcome
    <3>2. CASE g # fp
      <4>1. pc'[g] = pc[g] /\ hand'[g] = hand[g] /\ conns'[g] = conns[g]
        BY <1>0, <2>2, <3>2, Shape
           DEF Outcome, FPDrop, FPForward, FPUndecided, Goes
      <4>. QED
        BY <2>2, <2>5, <3>2, <4>1 DEF LockInv, Outcome
    <3>. QED
      BY <3>1, <3>2
  <2>. QED
    BY <2>4, <2>5 DEF LockInv
<1>6. CASE OutputTake
  <2>1. /\ UNCHANGED <<lock, capture, conns, hand>> /\ pc[Output] # "inspect"
        /\ \A u \in Threads \ {Output} : pc'[u] = pc[u]
    BY <1>0, <1>6 DEF OutputTake, Goes, tableVars
  <2>. QED
    BY <2>1, LockOther, Shape
<1>7. CASE MainStep \/ ChangeRules \/ Finished \/ UNCHANGED vars
  <2>1. UNCHANGED <<lock, capture, conns, hand, pc>>
    BY <1>7 DEF MainStep, Read, WaitForCompletion, StopEngine, ClearFlag, ShutQueue,
       Join, MainGoes, ChangeRules, Finished, vars, threadVars, tableVars
  <2>. QED
    BY <2>1, LockKept
<1>. QED
  BY <1>1, <1>2, <1>3, <1>4, <1>5, <1>6, <1>7, Shape
     DEF Next, LBStep, FPStep, OutputStep

\* At the start nobody asks.
LEMMA LockInit == Init => LockInv
  BY DEF Init, LockInv

\* Every reachable state of the first engine is well typed, for any number of
\* threads, queue size, table size, rules and captures: in particular no fast
\* path's table grows past its bound.
THEOREM TypeCorrect == Spec => []TypeOK
<1>1. Spec => [](TypeOK /\ LockInv)
  BY TypeInit, LockInit, TypeNext, LockNext, PTL DEF Spec
<1>. QED
  BY <1>1, PTL

\* A fast path that asks for the rules does so about an entry of its table.
LEMMA LocksHold == Spec => []LockInv
  BY LockInit, LockNext, TypeCorrect, PTL DEF Spec

-----------------------------------------------------------------------------
(* The order of the stop.  StageOrder alone is not inductive: it has to be   *)
(* known how far stop() has got.  Threads before the cursor have left, those *)
(* after it have not been touched, but for the flag of the output thread,    *)
(* which is the engine's and is cleared first.                               *)

\* How far the shutdown has come.
StopInv ==
    /\ \A t \in Threads : t < cursor => pc[t] = "exit"
    /\ \A t \in Threads : cursor < t => ~shut[t] /\ (t # Output => running[t])
    /\ mainPc \in {"read", "sleep", "flag"} /\ cursor # Output => running[cursor]
    /\ mainPc \in {"read", "sleep", "flag", "shut"} => ~shut[cursor]
    /\ mainPc \in {"read", "sleep"} => cursor = 1
    /\ mainPc = "done" => cursor = Output /\ pc[cursor] = "exit"
    /\ \A t \in Threads : pc[t] = "exit" => ~running[t]

\* The invariant gives the order of the stages.
LEMMA StopImpliesOrder == TypeOK /\ StopInv => StageOrder
<1>. SUFFICES ASSUME TypeOK, StopInv PROVE StageOrder
  OBVIOUS
<1>0. cursor \in Threads /\ \A t \in Threads : t \in Int
  BY DEF TypeOK, Threads
<1>1. ASSUME NEW lb \in LBs, NEW fp \in FPs, pc[lb] # "exit"
      PROVE  running[fp] /\ ~shut[fp] /\ pc[fp] # "exit"
  <2>1. cursor < fp
    BY <1>0, <1>1, Shape DEF StopInv
  <2>2. fp # Output
    BY <1>0, Shape
  <2>. QED
    BY <2>1, <2>2, Shape DEF StopInv
<1>2. ASSUME NEW fp \in FPs, pc[fp] # "exit"
      PROVE  ~shut[Output]
  <2>0. fp < Output
    BY Shape, LegacyAssumption DEF FPs, Output
  <2>1. cursor < Output
    BY <1>0, <1>2, <2>0, Shape DEF StopInv
  <2>. QED
    BY <2>1, Shape DEF StopInv
<1>. QED
  BY <1>1, <1>2 DEF StageOrder

\* While the reader reads, no load balancer has been shut down.
LEMMA ReaderFindsRoom ==
    ASSUME TypeOK, StopInv, mainPc = "read", NEW lb \in LBs
    PROVE  ~shut[lb]
<1>1. lb = cursor \/ cursor < lb
  BY DEF StopInv, LBs
<1>. QED
  BY <1>1, Shape DEF StopInv

\* Nothing has been stopped at the start.
LEMMA StopInit == Init => StopInv
  BY Shape DEF Init, StopInv, Threads

\* A thread leaves only through its loop test, which reads its own flag.
LEMMA StopThread ==
    ASSUME TypeOK, StopInv, NEW t \in Threads,
           UNCHANGED <<running, shut, mainPc, cursor>>,
           \/ LoopTest(t)
           \/ /\ pc[t] # "exit"
              /\ \E next \in Places \ {"exit"} :
                     pc' = [pc EXCEPT ![t] = next]
    PROVE  StopInv'
<1>0. pc \in [Threads -> Places]
  BY TypeParts DEF ThreadTypes
<1>1. \A u \in Threads : pc[u] = "exit" => pc'[u] = "exit"
  BY <1>0 DEF LoopTest, Goes
<1>2. \A u \in Threads : pc'[u] = "exit" => pc[u] = "exit" \/ ~running[u]
  BY <1>0 DEF LoopTest, Goes, Stays
<1>3. cursor \in Threads
  BY DEF TypeOK
<1>. QED
  BY <1>1, <1>2, <1>3 DEF StopInv

\* The steps of stop(), one thread after the other.
LEMMA StopMain ==
    ASSUME TypeOK, StopInv, MainStep
    PROVE  StopInv'
<1>. USE DEF StopInv
<1>0. /\ \A t \in Threads : t \in Int
      /\ cursor \in Threads /\ Output \in Threads
      /\ running \in [Threads -> BOOLEAN] /\ shut \in [Threads -> BOOLEAN]
  BY Shape DEF Threads, TypeOK
<1>9. 1 # Output
  BY LegacyAssumption, Shape DEF Output
<1>1. CASE Read
  BY <1>1 DEF Read
<1>2. CASE WaitForCompletion
  BY <1>2 DEF WaitForCompletion, MainGoes
<1>3. CASE StopEngine
  BY <1>0, <1>3, <1>9 DEF StopEngine, MainGoes
<1>4. CASE ClearFlag
  BY <1>0, <1>4 DEF ClearFlag, MainGoes
<1>5. CASE ShutQueue
  BY <1>0, <1>5 DEF ShutQueue, MainGoes
<1>6. CASE Join
  <2>1. CASE cursor = Output
    BY <1>0, <1>6, <2>1 DEF Join, MainGoes
  <2>2. CASE cursor # Output
    <3>1. /\ cursor' = cursor + 1
          /\ cursor' \in Threads
          /\ mainPc' = "flag"
          /\ pc[cursor] = "exit"
      BY <1>0, <1>6, <2>2, Shape DEF Join, MainGoes, Threads
    <3>2. \A t \in Threads : t < cursor' => t < cursor \/ t = cursor
      BY <1>0, <3>1
    <3>3. \A t \in Threads : cursor' < t => cursor < t
      BY <1>0, <3>1
    <3>4. cursor < cursor'
      BY <1>0, <3>1
    <3>. QED
      BY <1>6, <3>1, <3>2, <3>3, <3>4 DEF Join, MainGoes
  <2>. QED
    BY <2>1, <2>2
<1>. QED
  BY <1>1, <1>2, <1>3, <1>4, <1>5, <1>6 DEF MainStep

\* A step of processPacket drops the packet, forwards it or goes on.
LEMMA Verdicts ==
    ASSUME NEW fp \in FPs, FPInspect(fp)
    PROVE  FPDrop(fp) \/ FPForward(fp) \/ FPUndecided(fp)
  BY DEF FPInspect, FPLook, FPAsk

\* Every step keeps the invariant.
LEMMA StopNext == TypeOK /\ StopInv /\ [Next]_vars => StopInv'
<1>. SUFFICES ASSUME TypeOK, StopInv, [Next]_vars PROVE StopInv'
  OBVIOUS
<1>. USE DEF Places, Goes
<1>1. ASSUME NEW lb \in LBs, LBStep(lb) PROVE StopInv'
  <2>1. lb \in Threads
    BY Shape
  <2>2. UNCHANGED <<running, shut, mainPc, cursor>>
    BY <1>1 DEF LBStep, LoopTest, PopNothing, LBTake, LBPush
  <2>3. \/ LoopTest(lb)
        \/ pc[lb] # "exit" /\ \E next \in Places \ {"exit"} :
                                  pc' = [pc EXCEPT ![lb] = next]
    BY <1>1 DEF LBStep, PopNothing, LBTake, Take, LBPush, Push
  <2>. QED
    BY <2>1, <2>2, <2>3, StopThread
<1>2. ASSUME NEW fp \in FPs, FPStep(fp) PROVE StopInv'
  <2>1. fp \in Threads
    BY Shape
  <2>2. UNCHANGED <<running, shut, mainPc, cursor>>
    BY <1>2 DEF FPStep, LoopTest, PopNothing, FPTake, FPInspect, FPPush
  <2>3. \/ LoopTest(fp)
        \/ pc[fp] # "exit" /\ \E next \in Places \ {"exit"} :
                                  pc' = [pc EXCEPT ![fp] = next]
    <3>1. FPInspect(fp) => FPDrop(fp) \/ FPForward(fp) \/ FPUndecided(fp)
      BY Verdicts
    <3>. QED
      BY <1>2, <3>1 DEF FPStep, PopNothing, FPTake, Take, FPDrop, FPForward,
         FPUndecided, FPPush, Push
  <2>. QED
    BY <2>1, <2>2, <2>3, StopThread
<1>3. CASE OutputStep
  <2>2. UNCHANGED <<running, shut, mainPc, cursor>>
    BY <1>3 DEF OutputStep, LoopTest, PopNothing, OutputTake
  <2>3. \/ LoopTest(Output)
        \/ pc[Output] # "exit" /\ \E next \in Places \ {"exit"} :
                                  pc' = [pc EXCEPT ![Output] = next]
    BY <1>3 DEF OutputStep, PopNothing, OutputTake
  <2>. QED
    BY <2>2, <2>3, StopThread, Shape
<1>4. CASE MainStep
  BY <1>4, StopMain
<1>5. CASE ChangeRules \/ Finished \/ UNCHANGED vars
  BY <1>5 DEF ChangeRules, Finished, vars, threadVars, StopInv
<1>. QED
  BY <1>1, <1>2, <1>3, <1>4, <1>5 DEF Next

\* For every number of threads, stop() keeps the consumer of each load balancer
\* and of each fast path for as long as they may push, although the flag of the
\* output thread is cleared before all others: no packet is lost in a push to a
\* queue that is shut down.
THEOREM StagesInOrder == Spec => []StageOrder
<1>1. TypeOK /\ StopInv => StageOrder
  BY StopImpliesOrder
<1>2. Spec => []StopInv
  BY StopInit, StopNext, TypeCorrect, PTL DEF Spec
<1>. QED
  BY <1>1, <1>2, TypeCorrect, PTL

-----------------------------------------------------------------------------
(* The steps of the pipeline. *)

\* The fast path of a flow.
Home(f) == SelectFP(LBForPacket(f), f)

\* The threads are told apart by their numbers.
LEMMA Apart ==
    /\ \A lb \in LBs, fp \in FPs : lb # fp
    /\ \A lb \in LBs : lb \in Threads /\ lb # Output
    /\ \A fp \in FPs : fp \in Threads /\ fp # Output
    /\ Output \in Threads
<1>1. NumLBs \in Nat \ {0} /\ NumFPs \in Nat
  BY Shape, LegacyAssumption
<1>. QED
  BY <1>1, Shape DEF LBs, FPs, Output

\* Every flow has its load balancer and its fast path.
LEMMA Routes ==
    ASSUME TypeOK, NEW p \in Ids
    PROVE  LBForPacket(Flow(p)) \in LBs /\ Home(Flow(p)) \in FPs
  BY PacketType, Routing DEF Home

\* A fast path that gives its verdict.
Decides(fp) == FPInspect(fp) /\ (FPDrop(fp) \/ FPForward(fp))

\* Every other step leaves the packets where they are.
Idle ==
    /\ UNCHANGED <<capture, queue, hand, written, countVars>>
    /\ \/ UNCHANGED pc
       \/ \E t \in Threads, a, b \in {"loop", "pop", "exit"} :
              pc[t] = a /\ pc' = [pc EXCEPT ![t] = b]

\* The steps of the system, sorted by what they do to the packets.
LEMMA StepsSorted ==
    ASSUME TypeOK, [Next]_vars
    PROVE  \/ Read
           \/ \E lb \in LBs : LBTake(lb) \/ LBPush(lb)
           \/ \E fp \in FPs : FPTake(fp) \/ Decides(fp) \/ FPPush(fp)
           \/ OutputTake
           \/ Idle
<1>. USE DEF vars, threadVars, outputVars
<1>1. ASSUME NEW t \in Threads, LoopTest(t) \/ PopNothing(t) PROVE Idle
  <2>1. UNCHANGED <<capture, queue, hand, written, countVars>>
    BY <1>1 DEF LoopTest, PopNothing
  <2>2. \E a, b \in {"loop", "pop", "exit"} : pc[t] = a /\ pc' = [pc EXCEPT ![t] = b]
    BY <1>1 DEF LoopTest, PopNothing, Goes
  <2>. QED
    BY <2>1, <2>2 DEF Idle
<1>2. ASSUME WaitForCompletion \/ StopEngine \/ ClearFlag \/ ShutQueue \/ Join
             \/ ChangeRules \/ Finished \/ UNCHANGED vars
      PROVE  Idle
  BY <1>2 DEF WaitForCompletion, StopEngine, ClearFlag, ShutQueue, Join, MainGoes,
     ChangeRules, Finished, Idle
<1>3. ASSUME NEW lb \in LBs, LBStep(lb) PROVE LBTake(lb) \/ LBPush(lb) \/ Idle
  BY <1>1, <1>3, Shape DEF LBStep
<1>4. ASSUME NEW fp \in FPs, FPInspect(fp), FPUndecided(fp) PROVE Idle
  <2>1. UNCHANGED <<capture, queue, hand, written, countVars>>
    BY <1>4 DEF FPInspect, FPUndecided, countVars, fpCounts
  <2>2. pc' = pc
    BY <1>4 DEF FPUndecided, Goes, TypeOK
  <2>. QED
    BY <2>1, <2>2 DEF Idle
<1>5. ASSUME NEW fp \in FPs, FPStep(fp)
      PROVE  FPTake(fp) \/ Decides(fp) \/ FPPush(fp) \/ Idle
  BY <1>1, <1>4, <1>5, Shape, Verdicts DEF FPStep, Decides
<1>6. OutputStep => OutputTake \/ Idle
  BY <1>1, Shape DEF OutputStep
<1>7. MainStep => Read \/ Idle
  BY <1>2 DEF MainStep
<1>. QED
  BY <1>2, <1>3, <1>5, <1>6, <1>7 DEF Next

-----------------------------------------------------------------------------
(* Where the packets are. *)

\* The stations a packet passes, in the order it passes them, each at the
\* threads of its flow: the queue and the hands of the load balancer, the
\* queue and the hands of the fast path before and after the verdict, the
\* queue of the output thread, the output file.
Stops == 1 .. 7
\* The packet is at that station.
At(p, k) ==
    LET lb == LBForPacket(Flow(p))
        fp == Home(Flow(p))
    IN
    \/ k = 1 /\ p \in Range(queue[lb])
    \/ k = 2 /\ pc[lb] = "push" /\ hand[lb] = p
    \/ k = 3 /\ p \in Range(queue[fp])
    \/ k = 4 /\ pc[fp] = "inspect" /\ hand[fp] = p
    \/ k = 5 /\ pc[fp] = "push" /\ hand[fp] = p
    \/ k = 6 /\ p \in Range(queue[Output])
    \/ k = 7 /\ p \in Range(written)
\* The packets at each station.
Station == [k \in Stops |-> {p \in Ids : At(p, k)}]

\* The packets of a flow stand in a sequence in the order of the capture.
Sorted(s) ==
    \A i, j \in DOMAIN s :
        i < j /\ Flow(s[i]) = Flow(s[j]) => s[i] < s[j]

\* Nothing is at a thread that is not its flow's.
RoutedInv ==
    /\ \A lb \in LBs :
           /\ \A p \in Range(queue[lb]) : LBForPacket(Flow(p)) = lb
           /\ pc[lb] = "push" => LBForPacket(Flow(hand[lb])) = lb
           /\ pc[lb] # "inspect"
    /\ \A fp \in FPs :
           /\ \A p \in Range(queue[fp]) : Home(Flow(p)) = fp
           /\ pc[fp] \in {"inspect", "push"} => Home(Flow(hand[fp])) = fp
    /\ pc[Output] \notin {"inspect", "push"}

\* Every queue and the file have the packets of a flow in order.
SortedInv == Sorted(written) /\ \A t \in Threads : Sorted(queue[t])

\* Of two packets of a flow, the one that has come further is the earlier one,
\* and only packets that were read are anywhere.
LineInv ==
    /\ \A a, b \in Stops : \A p \in Station[a], q \in Station[b] :
           a < b /\ Flow(p) = Flow(q) => q < p
    /\ \A a \in Stops : \A p \in Station[a] : p <= total

\* The inductive invariant about places and order.
OrderInv == RoutedInv /\ SortedInv /\ LineInv

-----------------------------------------------------------------------------
(* Sequences of packets. *)

\* Everybody owns a queue of packets.
LEMMA QueueType ==
    ASSUME TypeOK
    PROVE  /\ \A t \in Threads : queue[t] \in Seq(Ids)
           /\ written \in Seq(Ids)
           /\ Ids \subseteq Nat
           /\ \A p \in Ids : Flow(p) \in Tuples
  BY PacketType DEF TypeOK, Places, Ids

\* What is in a sequence that got one packet more.
LEMMA Appended ==
    ASSUME NEW s \in Seq(Ids), NEW x \in Ids,
           Sorted(s), \A p \in Range(s) : Flow(p) = Flow(x) => p < x
    PROVE  /\ Range(Append(s, x)) = Range(s) \cup {x}
           /\ Sorted(Append(s, x))
<1>. DEFINE t == Append(s, x)
<1>1. /\ t \in Seq(Ids) /\ Len(t) = Len(s) + 1 /\ Len(s) \in Nat
      /\ DOMAIN t = 1 .. Len(s) + 1 /\ DOMAIN s = 1 .. Len(s)
      /\ \A i \in 1 .. Len(s) : t[i] = s[i]
      /\ t[Len(s) + 1] = x
  OBVIOUS
<1>. HIDE DEF t
<1>2. Range(t) = Range(s) \cup {x}
  <2>1. ASSUME NEW p \in Range(t) PROVE p \in Range(s) \cup {x}
    <3>1. PICK i \in 1 .. Len(s) + 1 : p = t[i]
      BY <1>1 DEF Range
    <3>2. CASE i = Len(s) + 1
      BY <1>1, <3>1, <3>2
    <3>3. CASE i \in 1 .. Len(s)
      BY <1>1, <3>1, <3>3 DEF Range
    <3>. QED
      BY <1>1, <3>2, <3>3
  <2>2. ASSUME NEW p \in Range(s) PROVE p \in Range(t)
    BY <1>1 DEF Range
  <2>3. x \in Range(t)
    BY <1>1 DEF Range
  <2>. QED
    BY <2>1, <2>2, <2>3
<1>3. Sorted(t)
  <2>. SUFFICES ASSUME NEW i \in DOMAIN t, NEW j \in DOMAIN t, i < j,
                       Flow(t[i]) = Flow(t[j])
                PROVE  t[i] < t[j]
    BY DEF Sorted
  <2>1. i \in DOMAIN s /\ t[i] = s[i] /\ s[i] \in Range(s)
    BY <1>1 DEF Range
  <2>2. CASE j = Len(s) + 1
    BY <1>1, <2>1, <2>2
  <2>3. CASE j # Len(s) + 1
    BY <1>1, <2>1, <2>3 DEF Sorted
  <2>. QED
    BY <2>2, <2>3
<1>. QED
  BY <1>2, <1>3 DEF t

\* What is in a sequence whose first packet was taken.
LEMMA Taken ==
    ASSUME TypeOK, NEW s \in Seq(Ids), s # <<>>, Sorted(s)
    PROVE  /\ Head(s) \in Ids /\ Head(s) \in Range(s)
           /\ Range(Tail(s)) = Range(s) \ {Head(s)}
           /\ Sorted(Tail(s))
           /\ \A p \in Range(Tail(s)) : Flow(p) = Flow(Head(s)) => Head(s) < p
<1>. DEFINE t == Tail(s)
<1>1. /\ t \in Seq(Ids) /\ Len(s) \in Nat \ {0} /\ Len(t) = Len(s) - 1
      /\ DOMAIN t = 1 .. Len(s) - 1 /\ DOMAIN s = 1 .. Len(s)
      /\ \A i \in 1 .. Len(s) - 1 : t[i] = s[i + 1]
      /\ \A i \in 1 .. Len(s) : s[i] \in Ids
      /\ Head(s) = s[1] /\ s[1] \in Ids
  OBVIOUS
<1>0. Ids \subseteq Nat
  BY DEF Ids
<1>. HIDE DEF t
<1>2. \A i \in 2 .. Len(s) : Flow(s[i]) = Flow(s[1]) => s[1] < s[i]
  BY <1>1 DEF Sorted
<1>3. \A p \in Range(t) : \E i \in 2 .. Len(s) : p = s[i]
  BY <1>1 DEF Range
<1>4. \A i \in 2 .. Len(s) : s[i] \in Range(t)
  <2>. SUFFICES ASSUME NEW i \in 2 .. Len(s) PROVE s[i] \in Range(t)
    OBVIOUS
  <2>1. i - 1 \in DOMAIN t /\ t[i - 1] = s[i]
    BY <1>1
  <2>. QED
    BY <2>1 DEF Range
<1>5. \A p \in Range(t) : Flow(p) = Flow(s[1]) => s[1] < p
  BY <1>2, <1>3
<1>6. s[1] \notin Range(t)
  <2>1. s[1] \in Nat
    BY <1>0, <1>1
  <2>2. ~(s[1] < s[1])
    BY <2>1
  <2>. QED
    BY <1>5, <2>2
<1>7. Range(t) = Range(s) \ {s[1]}
  <2>1. \A p \in Range(t) : p \in Range(s)
    BY <1>1, <1>3 DEF Range
  <2>2. ASSUME NEW p \in Range(s), p # s[1] PROVE p \in Range(t)
    BY <1>1, <1>4, <2>2 DEF Range
  <2>. QED
    BY <1>6, <2>1, <2>2
<1>8. Sorted(t)
  <2>. SUFFICES ASSUME NEW i \in DOMAIN t, NEW j \in DOMAIN t, i < j,
                       Flow(t[i]) = Flow(t[j])
                PROVE  t[i] < t[j]
    BY DEF Sorted
  <2>1. /\ i + 1 \in DOMAIN s /\ j + 1 \in DOMAIN s /\ i + 1 < j + 1
        /\ t[i] = s[i + 1] /\ t[j] = s[j + 1]
    BY <1>1
  <2>. QED
    BY <2>1 DEF Sorted
<1>9. s[1] \in Range(s)
  BY <1>1 DEF Range
<1>. QED
  BY <1>1, <1>5, <1>7, <1>8, <1>9 DEF t

-----------------------------------------------------------------------------
(* The order of a flow's packets does not depend on the threads: it is kept *)
(* by whatever moves the first packet of its flow at a station to the next  *)
(* station.                                                                 *)

\* Packet x, the first of its flow at station k, goes to the next one.
Moves(k, x) ==
    /\ x \in Station[k]
    /\ \A p \in Station[k] : Flow(p) = Flow(x) => x <= p
    /\ Station' = [Station EXCEPT ![k] = @ \ {x}, ![k + 1] = @ \cup {x}]

\* Packet x is read.
Enters(x) ==
    /\ x = total + 1 /\ x \in Ids
    /\ Station' = [Station EXCEPT ![1] = @ \cup {x}]

\* Packet x leaves station k and is nowhere any more.
Leaves(k, x) ==
    /\ x \in Station[k]
    /\ \A p \in Station[k] : Flow(p) = Flow(x) => x <= p
    /\ Station' = [Station EXCEPT ![k] = @ \ {x}]

\* The line is kept by whatever step moves one packet a station further, lets
\* one in behind all others or takes one out.
LEMMA LineKept ==
    ASSUME TypeOK, LineInv, capture' = capture,
           \/ UNCHANGED total /\ UNCHANGED Station
           \/ UNCHANGED total /\ \E k \in 1 .. 6, x \in Ids : Moves(k, x)
           \/ UNCHANGED total /\ \E k \in Stops, x \in Ids : Leaves(k, x)
           \/ total' = total + 1 /\ Enters(total + 1)
    PROVE  LineInv'
<1>0. /\ Station \in [Stops -> SUBSET Ids]
      /\ total \in Nat /\ Ids \subseteq Nat
      /\ \A k \in 1 .. 6 : k \in Stops /\ k + 1 \in Stops
      /\ \A p : Flow(p)' = Flow(p)
  BY DEF Station, Stops, Ids, TypeOK, Flow
<1>. DEFINE T == Station'
            inLine == \A a, b \in Stops : \A p \in T[a], q \in T[b] :
                          a < b /\ Flow(p) = Flow(q) => q < p
            read == \A a \in Stops : \A p \in T[a] : p <= total'
<1>1. SUFFICES inLine /\ read
  BY <1>0 DEF LineInv
<1>2. CASE UNCHANGED total /\ UNCHANGED Station
  BY <1>2 DEF LineInv
<1>3. CASE UNCHANGED total /\ \E k \in 1 .. 6, x \in Ids : Moves(k, x)
  <2>1. PICK k \in 1 .. 6, x \in Ids : Moves(k, x)
    BY <1>3
  <2>2. /\ \A j \in Stops \ {k + 1} : T[j] \subseteq Station[j]
        /\ T[k] = Station[k] \ {x}
        /\ T[k + 1] = Station[k + 1] \cup {x}
        /\ x \in Station[k]
        /\ k \in Stops /\ k + 1 \in Stops /\ k \in Int
    BY <1>0, <2>1 DEF Moves
  <2>3. \A p \in T[k] : Flow(p) = Flow(x) => x < p
    <3>. SUFFICES ASSUME NEW p \in T[k], Flow(p) = Flow(x) PROVE x < p
      OBVIOUS
    <3>1. p \in Station[k] /\ p # x /\ x <= p
      BY <2>1, <2>2 DEF Moves
    <3>2. p \in Nat /\ x \in Nat
      BY <1>0, <2>2, <3>1
    <3>. QED
      BY <3>1, <3>2
  <2>. HIDE DEF T
  <2>4. ASSUME NEW a \in Stops, NEW b \in Stops, NEW p \in T[a], NEW q \in T[b],
               a < b, Flow(p) = Flow(q)
        PROVE  q < p
    <3>1. CASE p \in Station[a] /\ q \in Station[b]
      BY <2>4, <3>1 DEF LineInv
    <3>2. CASE p \notin Station[a]
      <4>1. a = k + 1 /\ p = x
        BY <2>2, <3>2
      <4>2. k < b /\ b # k + 1
        BY <2>2, <2>4, <4>1 DEF Stops
      <4>3. q \in Station[b]
        BY <2>2, <4>2
      <4>. QED
        BY <2>2, <2>4, <4>1, <4>2, <4>3 DEF LineInv
    <3>3. CASE p \in Station[a] /\ q \notin Station[b]
      <4>1. b = k + 1 /\ q = x
        BY <2>2, <3>3
      <4>2. a = k \/ a < k
        BY <2>2, <2>4, <4>1 DEF Stops
      <4>3. CASE a = k
        BY <2>3, <2>4, <4>1, <4>3
      <4>4. CASE a < k
        BY <2>2, <2>4, <3>3, <4>1, <4>4 DEF LineInv
      <4>. QED
        BY <4>2, <4>3, <4>4
    <3>. QED
      BY <3>1, <3>2, <3>3
  <2>5. read
    BY <1>3, <2>2 DEF LineInv
  <2>. QED
    BY <2>4, <2>5
<1>4. CASE UNCHANGED total /\ \E k \in Stops, x \in Ids : Leaves(k, x)
  <2>1. \A j \in Stops : T[j] \subseteq Station[j]
    BY <1>0, <1>4 DEF Leaves
  <2>. QED
    BY <1>4, <2>1 DEF LineInv
<1>5. CASE total' = total + 1 /\ Enters(total + 1)
  <2>. DEFINE x == total + 1
  <2>1. /\ \A j \in Stops \ {1} : T[j] = Station[j]
        /\ T[1] = Station[1] \cup {x}
        /\ 1 \in Stops /\ \A j \in Stops : ~(j < 1)
    BY <1>0, <1>5 DEF Enters, Stops
  <2>2. \A a \in Stops : \A p \in Station[a] : p \in Nat /\ p <= total
    BY <1>0 DEF LineInv
  <2>3. \A a \in Stops : \A p \in Station[a] : p < x
    BY <1>0, <2>2
  <2>4. ASSUME NEW a \in Stops, NEW b \in Stops, NEW p \in T[a], NEW q \in T[b],
               a < b, Flow(p) = Flow(q)
        PROVE  q < p
    <3>1. b # 1
      BY <2>1, <2>4
    <3>2. q \in Station[b]
      BY <2>1, <3>1
    <3>3. CASE p \in Station[a]
      BY <2>4, <3>2, <3>3 DEF LineInv
    <3>4. CASE p \notin Station[a]
      <4>1. p = x
        BY <2>1, <3>4
      <4>. QED
        BY <2>3, <3>2, <4>1
    <3>. QED
      BY <3>3, <3>4
  <2>5. read
    <3>1. \A a \in Stops : \A p \in T[a] : p \in Station[a] \/ p = x
      BY <2>1
    <3>. SUFFICES ASSUME NEW a \in Stops, NEW p \in T[a] PROVE p <= total'
      OBVIOUS
    <3>2. CASE p = x
      BY <1>0, <1>5, <3>2
    <3>3. CASE p \in Station[a]
      BY <1>0, <1>5, <2>2, <3>3
    <3>. QED
      BY <3>1, <3>2, <3>3
  <2>. QED
    BY <2>4, <2>5
<1>. QED
  BY <1>2, <1>3, <1>4, <1>5

-----------------------------------------------------------------------------
(* What each step of the pipeline does to the stations. *)

\* Where a packet is, one station at a time, before and after a step.
LEMMA Standing ==
    ASSUME NEW p
    PROVE  LET lb == LBForPacket(Flow(p))
               fp == Home(Flow(p))
           IN
           /\ At(p, 1) <=> p \in Range(queue[lb])
           /\ At(p, 2) <=> pc[lb] = "push" /\ hand[lb] = p
           /\ At(p, 3) <=> p \in Range(queue[fp])
           /\ At(p, 4) <=> pc[fp] = "inspect" /\ hand[fp] = p
           /\ At(p, 5) <=> pc[fp] = "push" /\ hand[fp] = p
           /\ At(p, 6) <=> p \in Range(queue[Output])
           /\ At(p, 7) <=> p \in Range(written)
  BY DEF At

\* The stations in the next state.
LEMMA StandingNext ==
    ASSUME capture' = capture, NEW p
    PROVE  LET lb == LBForPacket(Flow(p))
               fp == Home(Flow(p))
           IN
           /\ At(p, 1)' <=> p \in Range(queue'[lb])
           /\ At(p, 2)' <=> pc'[lb] = "push" /\ hand'[lb] = p
           /\ At(p, 3)' <=> p \in Range(queue'[fp])
           /\ At(p, 4)' <=> pc'[fp] = "inspect" /\ hand'[fp] = p
           /\ At(p, 5)' <=> pc'[fp] = "push" /\ hand'[fp] = p
           /\ At(p, 6)' <=> p \in Range(queue'[Output])
           /\ At(p, 7)' <=> p \in Range(written')
<1>1. LBForPacket(Flow(p))' = LBForPacket(Flow(p)) /\ Home(Flow(p))' = Home(Flow(p))
  BY DEF Flow, LBForPacket, SelectFP, Home
<1>. QED
  BY <1>1 DEF At, Range

\* A station by station account of a step is an account of the stations.
LEMMA StationsMove ==
    ASSUME capture' = capture, NEW k \in 1 .. 6, NEW x \in Ids,
           \A p \in Ids, j \in Stops :
               At(p, j)' <=> \/ At(p, j) /\ ~(j = k /\ p = x)
                             \/ j = k + 1 /\ p = x
    PROVE  Station' = [Station EXCEPT ![k] = @ \ {x}, ![k + 1] = @ \cup {x}]
<1>1. Ids' = Ids /\ k \in Stops /\ k + 1 \in Stops /\ k # k + 1
  BY DEF Ids, Stops
<1>2. Station' = [j \in Stops |-> {p \in Ids : At(p, j)'}]
  BY <1>1 DEF Station
<1>. DEFINE S == Station
            T == [S EXCEPT ![k] = @ \ {x}, ![k + 1] = @ \cup {x}]
<1>3. /\ DOMAIN S = Stops
      /\ \A j \in Stops : S[j] = {p \in Ids : At(p, j)}
  BY DEF Station
<1>0. /\ T[k] = S[k] \ {x} /\ T[k + 1] = S[k + 1] \cup {x}
      /\ \A j \in Stops \ {k, k + 1} : T[j] = S[j]
  BY <1>1, <1>3
<1>5. T = [j \in Stops |-> T[j]]
  BY <1>3
<1>. HIDE DEF S, T
<1>4. ASSUME NEW j \in Stops PROVE {p \in Ids : At(p, j)'} = T[j]
  <2>. DEFINE here == {p \in Ids : At(p, j)}
              there == {p \in Ids : At(p, j)'}
  <2>1. there = IF j = k + 1 THEN here \cup {x}
                ELSE IF j = k THEN here \ {x} ELSE here
    BY <1>1
  <2>2. S[j] = here
    BY <1>3
  <2>. HIDE DEF here, there
  <2>3. there = T[j]
    BY <1>0, <1>1, <2>1, <2>2
  <2>. QED
    BY <2>3 DEF there
<1>6. [j \in Stops |-> {p \in Ids : At(p, j)'}] = [j \in Stops |-> T[j]]
  BY <1>4
<1>7. Station' = T
  BY <1>2, <1>5, <1>6
<1>. QED
  BY <1>7 DEF S, T

\* In terms of single packets: one that enters joins the first station.
LEMMA StationsEnter ==
    ASSUME capture' = capture, NEW x \in Ids,
           \A p \in Ids, j \in Stops : At(p, j)' <=> At(p, j) \/ (j = 1 /\ p = x)
    PROVE  Station' = [Station EXCEPT ![1] = @ \cup {x}]
<1>1. Ids' = Ids /\ 1 \in Stops
  BY DEF Ids, Stops
<1>2. Station' = [j \in Stops |-> {p \in Ids : At(p, j)'}]
  BY <1>1 DEF Station
<1>3. ASSUME NEW j \in Stops
      PROVE  {p \in Ids : At(p, j)'} =
             IF j = 1 THEN {p \in Ids : At(p, j)} \cup {x}
             ELSE {p \in Ids : At(p, j)}
  OBVIOUS
<1>. QED
  BY <1>1, <1>2, <1>3 DEF Station

\* One that is dropped leaves its station.
LEMMA StationsLeave ==
    ASSUME capture' = capture, NEW k \in Stops, NEW x \in Ids,
           \A p \in Ids, j \in Stops : At(p, j)' <=> At(p, j) /\ ~(j = k /\ p = x)
    PROVE  Station' = [Station EXCEPT ![k] = @ \ {x}]
<1>1. Ids' = Ids
  BY DEF Ids
<1>2. Station' = [j \in Stops |-> {p \in Ids : At(p, j)'}]
  BY <1>1 DEF Station
<1>3. ASSUME NEW j \in Stops
      PROVE  {p \in Ids : At(p, j)'} =
             IF j = k THEN {p \in Ids : At(p, j)} \ {x}
             ELSE {p \in Ids : At(p, j)}
  OBVIOUS
<1>. QED
  BY <1>2, <1>3 DEF Station

\* The other conjuncts after a step, in terms of what it leaves.
LEMMA SortedStep ==
    ASSUME capture' = capture,
           Sorted(written'), \A t \in Threads : Sorted(queue'[t])
    PROVE  SortedInv'
  BY DEF SortedInv, Sorted, Flow

\* What the next state has to show to keep packets at their own threads.
LEMMA RoutedStep ==
    ASSUME capture' = capture,
           \A lb \in LBs :
               /\ \A p \in Range(queue'[lb]) : LBForPacket(Flow(p)) = lb
               /\ pc'[lb] = "push" => LBForPacket(Flow(hand'[lb])) = lb
               /\ pc'[lb] # "inspect",
           \A fp \in FPs :
               /\ \A p \in Range(queue'[fp]) : Home(Flow(p)) = fp
               /\ pc'[fp] \in {"inspect", "push"} => Home(Flow(hand'[fp])) = fp,
           pc'[Output] \notin {"inspect", "push"}
    PROVE  RoutedInv'
<1>1. \A p : Flow(p)' = Flow(p)
  BY DEF Flow
<1>. QED
  BY <1>1 DEF RoutedInv, Range, LBForPacket, SelectFP, Home, Flow

\* A load balancer pops: its packet goes from its queue to its hands.
LEMMA LBTakeMoves ==
    ASSUME TypeOK, OrderInv, NEW lb \in LBs, LBTake(lb)
    PROVE  /\ Head(queue[lb]) \in Ids /\ Moves(1, Head(queue[lb]))
           /\ RoutedInv' /\ SortedInv'
<1>. DEFINE x == Head(queue[lb])
<1>0. /\ pc[lb] = "pop" /\ queue[lb] # <<>>
      /\ hand' = [hand EXCEPT ![lb] = x]
      /\ queue' = [queue EXCEPT ![lb] = Tail(queue[lb])]
      /\ pc' = [pc EXCEPT ![lb] = "push"]
      /\ capture' = capture /\ written' = written
  BY DEF LBTake, Take, Goes, outputVars
<1>1. /\ queue \in [Threads -> Seq(Ids)] /\ hand \in [Threads -> Ids \cup {Nothing}]
      /\ pc \in [Threads -> Places] /\ lb \in Threads
  BY Apart DEF TypeOK, Places
<1>2. /\ x \in Ids /\ x \in Range(queue[lb])
      /\ Range(Tail(queue[lb])) = Range(queue[lb]) \ {x}
      /\ Sorted(Tail(queue[lb]))
      /\ \A p \in Range(Tail(queue[lb])) : Flow(p) = Flow(x) => x < p
  BY <1>0, <1>1, Taken DEF OrderInv, SortedInv
<1>3. LBForPacket(Flow(x)) = lb
  BY <1>2 DEF OrderInv, RoutedInv
<1>. HIDE DEF x
<1>4. /\ \A t \in Threads \ {lb} : /\ queue'[t] = queue[t] /\ hand'[t] = hand[t]
                                   /\ pc'[t] = pc[t]
      /\ queue'[lb] = Tail(queue[lb]) /\ hand'[lb] = x /\ pc'[lb] = "push"
  BY <1>0, <1>1
<1>5. \A p \in Ids, j \in Stops :
          At(p, j)' <=> \/ At(p, j) /\ ~(j = 1 /\ p = x)
                        \/ j = 1 + 1 /\ p = x
  <2>. SUFFICES ASSUME NEW p \in Ids, NEW j \in Stops
                PROVE  At(p, j)' <=> \/ At(p, j) /\ ~(j = 1 /\ p = x)
                                     \/ j = 1 + 1 /\ p = x
    OBVIOUS
  <2>. DEFINE f == LBForPacket(Flow(p))
              g == Home(Flow(p))
  <2>1. f \in LBs /\ g \in FPs
    BY Routes
  <2>2. p = x => f = lb
    BY <1>3
  <2>3. /\ f \in Threads /\ g \in Threads /\ g # lb /\ Output # lb
        /\ Output \in Threads
    BY <2>1, Apart
  <2>4. j \in {1, 2, 3, 4, 5, 6, 7}
    BY DEF Stops
  <2>5. pc[lb] = "pop" /\ hand'[lb] = x
    BY <1>0, <1>4
  <2>. HIDE DEF f, g
  <2>6. /\ At(p, 1)' <=> At(p, 1) /\ p # x
        /\ At(p, 2)' <=> At(p, 2) \/ p = x
        /\ At(p, 3)' <=> At(p, 3)
        /\ At(p, 4)' <=> At(p, 4)
        /\ At(p, 5)' <=> At(p, 5)
        /\ At(p, 6)' <=> At(p, 6)
        /\ At(p, 7)' <=> At(p, 7)
    BY <1>0, <1>2, <1>4, <2>2, <2>3, <2>5, Standing, StandingNext DEF f, g
  <2>. QED
    BY <2>4, <2>6
<1>6. Station' = [Station EXCEPT ![1] = @ \ {x}, ![1 + 1] = @ \cup {x}]
  BY <1>0, <1>2, <1>5, StationsMove
<1>7. x \in Station[1] /\ \A p \in Station[1] : Flow(p) = Flow(x) => x <= p
  <2>1. Station[1] = {p \in Ids : At(p, 1)} /\ Ids \subseteq Nat
    BY DEF Station, Stops, Ids
  <2>. SUFFICES ASSUME NEW p \in Ids, At(p, 1), Flow(p) = Flow(x) PROVE x <= p
    BY <1>2, <1>3, <2>1, Standing
  <2>2. p \in Range(queue[lb])
    BY <1>3, Standing
  <2>. QED
    BY <1>2, <2>1, <2>2
<1>8. RoutedInv'
  BY <1>0, <1>2, <1>3, <1>4, Apart, RoutedStep DEF OrderInv, RoutedInv
<1>9. SortedInv'
  BY <1>0, <1>1, <1>2, <1>4, SortedStep DEF OrderInv, SortedInv
<1>. QED
  BY <1>2, <1>6, <1>7, <1>8, <1>9 DEF Moves, x

\* A fast path pops: its packet goes from its queue to its hands.
LEMMA FPTakeMoves ==
    ASSUME TypeOK, OrderInv, NEW fp \in FPs, FPTake(fp)
    PROVE  /\ Head(queue[fp]) \in Ids /\ Moves(3, Head(queue[fp]))
           /\ RoutedInv' /\ SortedInv'
<1>. DEFINE x == Head(queue[fp])
<1>0. /\ pc[fp] = "pop" /\ queue[fp] # <<>>
      /\ hand' = [hand EXCEPT ![fp] = x]
      /\ queue' = [queue EXCEPT ![fp] = Tail(queue[fp])]
      /\ pc' = [pc EXCEPT ![fp] = "inspect"]
      /\ capture' = capture /\ written' = written
  BY DEF FPTake, Take, Goes, outputVars
<1>1. /\ queue \in [Threads -> Seq(Ids)] /\ hand \in [Threads -> Ids \cup {Nothing}]
      /\ pc \in [Threads -> Places] /\ fp \in Threads
  BY Apart DEF TypeOK, Places
<1>2. /\ x \in Ids /\ x \in Range(queue[fp])
      /\ Range(Tail(queue[fp])) = Range(queue[fp]) \ {x}
      /\ Sorted(Tail(queue[fp]))
      /\ \A p \in Range(Tail(queue[fp])) : Flow(p) = Flow(x) => x < p
  BY <1>0, <1>1, Taken DEF OrderInv, SortedInv
<1>3. Home(Flow(x)) = fp
  BY <1>2 DEF OrderInv, RoutedInv
<1>. HIDE DEF x
<1>4. /\ \A t \in Threads \ {fp} : /\ queue'[t] = queue[t] /\ hand'[t] = hand[t]
                                   /\ pc'[t] = pc[t]
      /\ queue'[fp] = Tail(queue[fp]) /\ hand'[fp] = x /\ pc'[fp] = "inspect"
  BY <1>0, <1>1
<1>5. \A p \in Ids, j \in Stops :
          At(p, j)' <=> \/ At(p, j) /\ ~(j = 3 /\ p = x)
                        \/ j = 3 + 1 /\ p = x
  <2>. SUFFICES ASSUME NEW p \in Ids, NEW j \in Stops
                PROVE  At(p, j)' <=> \/ At(p, j) /\ ~(j = 3 /\ p = x)
                                     \/ j = 3 + 1 /\ p = x
    OBVIOUS
  <2>. DEFINE f == LBForPacket(Flow(p))
              g == Home(Flow(p))
  <2>1. f \in LBs /\ g \in FPs
    BY Routes
  <2>2. p = x => g = fp
    BY <1>3
  <2>3. /\ f \in Threads /\ g \in Threads /\ f # fp /\ Output # fp
        /\ Output \in Threads
    BY <2>1, Apart
  <2>4. j \in {1, 2, 3, 4, 5, 6, 7}
    BY DEF Stops
  <2>5. pc[fp] = "pop" /\ hand'[fp] = x
    BY <1>0, <1>4
  <2>. HIDE DEF f, g
  <2>6. /\ At(p, 1)' <=> At(p, 1)
        /\ At(p, 2)' <=> At(p, 2)
        /\ At(p, 3)' <=> At(p, 3) /\ p # x
        /\ At(p, 4)' <=> At(p, 4) \/ p = x
        /\ At(p, 5)' <=> At(p, 5)
        /\ At(p, 6)' <=> At(p, 6)
        /\ At(p, 7)' <=> At(p, 7)
    BY <1>0, <1>2, <1>4, <2>2, <2>3, <2>5, Standing, StandingNext DEF f, g
  <2>. QED
    BY <2>4, <2>6
<1>6. Station' = [Station EXCEPT ![3] = @ \ {x}, ![3 + 1] = @ \cup {x}]
  BY <1>0, <1>2, <1>5, StationsMove
<1>7. x \in Station[3] /\ \A p \in Station[3] : Flow(p) = Flow(x) => x <= p
  <2>1. Station[3] = {p \in Ids : At(p, 3)} /\ Ids \subseteq Nat
    BY DEF Station, Stops, Ids
  <2>. SUFFICES ASSUME NEW p \in Ids, At(p, 3), Flow(p) = Flow(x) PROVE x <= p
    BY <1>2, <1>3, <2>1, Standing
  <2>2. p \in Range(queue[fp])
    BY <1>3, Standing
  <2>. QED
    BY <1>2, <2>1, <2>2
<1>8. RoutedInv'
  BY <1>0, <1>2, <1>3, <1>4, Apart, RoutedStep DEF OrderInv, RoutedInv
<1>9. SortedInv'
  BY <1>0, <1>1, <1>2, <1>4, SortedStep DEF OrderInv, SortedInv
<1>. QED
  BY <1>2, <1>6, <1>7, <1>8, <1>9 DEF Moves, x

\* The output thread pops: its packet goes from its queue to the file.
LEMMA OutputTakeMoves ==
    ASSUME TypeOK, OrderInv, OutputTake
    PROVE  /\ Head(queue[Output]) \in Ids /\ Moves(6, Head(queue[Output]))
           /\ RoutedInv' /\ SortedInv'
<1>. DEFINE x == Head(queue[Output])
<1>0. /\ pc[Output] = "pop" /\ queue[Output] # <<>>
      /\ hand' = hand
      /\ queue' = [queue EXCEPT ![Output] = Tail(queue[Output])]
      /\ pc' = [pc EXCEPT ![Output] = "loop"]
      /\ capture' = capture /\ written' = Append(written, x)
  BY DEF OutputTake, Goes
<1>1. /\ queue \in [Threads -> Seq(Ids)] /\ hand \in [Threads -> Ids \cup {Nothing}]
      /\ pc \in [Threads -> Places] /\ Output \in Threads
      /\ written \in Seq(Ids)
  BY Apart DEF TypeOK, Places
<1>2. /\ x \in Ids /\ x \in Range(queue[Output])
      /\ Range(Tail(queue[Output])) = Range(queue[Output]) \ {x}
      /\ Sorted(Tail(queue[Output]))
      /\ \A p \in Range(Tail(queue[Output])) : Flow(p) = Flow(x) => x < p
  BY <1>0, <1>1, Taken DEF OrderInv, SortedInv
<1>. HIDE DEF x
<1>3. x \in Station[6] /\ \A p \in Station[6] : Flow(p) = Flow(x) => x <= p
  <2>1. Station[6] = {p \in Ids : At(p, 6)} /\ Ids \subseteq Nat
    BY DEF Station, Stops, Ids
  <2>. SUFFICES ASSUME NEW p \in Ids, At(p, 6), Flow(p) = Flow(x) PROVE x <= p
    BY <1>2, <2>1, Standing
  <2>2. p \in Range(queue[Output])
    BY Standing
  <2>. QED
    BY <1>2, <2>1, <2>2
<1>4. /\ \A t \in Threads \ {Output} : queue'[t] = queue[t] /\ pc'[t] = pc[t]
      /\ queue'[Output] = Tail(queue[Output]) /\ pc'[Output] = "loop"
  BY <1>0, <1>1
<1>5. \A p \in Range(written) : Flow(p) = Flow(x) => p < x
  <2>. SUFFICES ASSUME NEW p \in Range(written), Flow(p) = Flow(x) PROVE p < x
    OBVIOUS
  <2>1. p \in Ids
    BY <1>1 DEF Range
  <2>2. p \in Station[7] /\ 6 \in Stops /\ 7 \in Stops /\ 6 < 7
    BY <2>1, Standing DEF Station, Stops
  <2>. QED
    BY <1>3, <2>2 DEF OrderInv, LineInv
<1>6. Range(written') = Range(written) \cup {x} /\ Sorted(written')
  BY <1>0, <1>1, <1>2, <1>5, Appended DEF OrderInv, SortedInv
<1>7. \A p \in Ids, j \in Stops :
          At(p, j)' <=> \/ At(p, j) /\ ~(j = 6 /\ p = x)
                        \/ j = 6 + 1 /\ p = x
  <2>. SUFFICES ASSUME NEW p \in Ids, NEW j \in Stops
                PROVE  At(p, j)' <=> \/ At(p, j) /\ ~(j = 6 /\ p = x)
                                     \/ j = 6 + 1 /\ p = x
    OBVIOUS
  <2>. DEFINE f == LBForPacket(Flow(p))
              g == Home(Flow(p))
  <2>1. f \in Threads /\ g \in Threads /\ f # Output /\ g # Output
    BY Routes, Apart
  <2>2. j \in {1, 2, 3, 4, 5, 6, 7}
    BY DEF Stops
  <2>. HIDE DEF f, g
  <2>3. /\ At(p, 1)' <=> At(p, 1)
        /\ At(p, 2)' <=> At(p, 2)
        /\ At(p, 3)' <=> At(p, 3)
        /\ At(p, 4)' <=> At(p, 4)
        /\ At(p, 5)' <=> At(p, 5)
        /\ At(p, 6)' <=> At(p, 6) /\ p # x
        /\ At(p, 7)' <=> At(p, 7) \/ p = x
    BY <1>0, <1>2, <1>4, <1>6, <2>1, Standing, StandingNext DEF f, g
  <2>. QED
    BY <2>2, <2>3
<1>8. Station' = [Station EXCEPT ![6] = @ \ {x}, ![6 + 1] = @ \cup {x}]
  BY <1>0, <1>2, <1>7, StationsMove
<1>9. RoutedInv'
  BY <1>0, <1>4, Apart, RoutedStep DEF OrderInv, RoutedInv
<1>10. SortedInv'
  BY <1>0, <1>1, <1>2, <1>4, <1>6, SortedStep DEF OrderInv, SortedInv
<1>. QED
  BY <1>2, <1>3, <1>8, <1>9, <1>10 DEF Moves, x

\* The reader puts the next packet in the queue of its load balancer, which
\* has not been shut down.
LEMMA ReadEnters ==
    ASSUME TypeOK, StopInv, OrderInv, Read
    PROVE  Enters(total + 1) /\ RoutedInv' /\ SortedInv'
<1>. DEFINE x == total + 1
            lb == LBForPacket(Flow(x))
<1>1. x \in Ids
  BY LegacyAssumption DEF Read, TypeOK, Ids
<1>2. lb \in LBs /\ lb \in Threads /\ lb # Output
  BY <1>1, Routes, Apart
<1>3. ~shut[lb]
  BY <1>2, ReaderFindsRoom DEF Read
<1>4. /\ queue' = [queue EXCEPT ![lb] = Append(queue[lb], x)]
      /\ capture' = capture /\ written' = written
      /\ pc' = pc /\ hand' = hand
  BY <1>3 DEF Read, Pushed, outputVars
<1>5. /\ queue \in [Threads -> Seq(Ids)] /\ written \in Seq(Ids)
      /\ total \in Nat /\ Ids \subseteq Nat
  BY DEF TypeOK, Places, Ids
<1>6. LBForPacket(Flow(x)) = lb
  OBVIOUS
<1>0. x = total + 1
  OBVIOUS
<1>. HIDE DEF x, lb
<1>7. \A p \in Range(queue[lb]) : p < x
  <2>. SUFFICES ASSUME NEW p \in Range(queue[lb]) PROVE p < x
    OBVIOUS
  <2>1. p \in Ids
    BY <1>2, <1>5 DEF Range
  <2>2. LBForPacket(Flow(p)) = lb
    BY <1>2 DEF OrderInv, RoutedInv
  <2>3. p \in Station[1] /\ 1 \in Stops
    BY <2>1, <2>2, Standing DEF Station, Stops
  <2>4. p <= total
    BY <2>3 DEF OrderInv, LineInv
  <2>. QED
    BY <1>0, <1>5, <2>1, <2>4
<1>8. /\ Range(Append(queue[lb], x)) = Range(queue[lb]) \cup {x}
      /\ Sorted(Append(queue[lb], x))
  BY <1>1, <1>2, <1>5, <1>7, Appended DEF OrderInv, SortedInv
<1>9. /\ \A t \in Threads \ {lb} : queue'[t] = queue[t]
      /\ queue'[lb] = Append(queue[lb], x)
  BY <1>2, <1>4, <1>5
<1>10. \A p \in Ids, j \in Stops :
           At(p, j)' <=> At(p, j) \/ (j = 1 /\ p = x)
  <2>. SUFFICES ASSUME NEW p \in Ids, NEW j \in Stops
                PROVE  At(p, j)' <=> At(p, j) \/ (j = 1 /\ p = x)
    OBVIOUS
  <2>. DEFINE f == LBForPacket(Flow(p))
              g == Home(Flow(p))
  <2>1. f \in Threads /\ g \in Threads /\ g # lb /\ Output # lb /\ Output \in Threads
    BY <1>2, Routes, Apart
  <2>2. j \in {1, 2, 3, 4, 5, 6, 7}
    BY DEF Stops
  <2>3. p = x => f = lb
    BY <1>6
  <2>. HIDE DEF f, g
  <2>4. /\ At(p, 1)' <=> At(p, 1) \/ p = x
        /\ At(p, 2)' <=> At(p, 2)
        /\ At(p, 3)' <=> At(p, 3)
        /\ At(p, 4)' <=> At(p, 4)
        /\ At(p, 5)' <=> At(p, 5)
        /\ At(p, 6)' <=> At(p, 6)
        /\ At(p, 7)' <=> At(p, 7)
    BY <1>4, <1>8, <1>9, <2>1, <2>3, Standing, StandingNext DEF f, g
  <2>. QED
    BY <2>2, <2>4
<1>11. Station' = [Station EXCEPT ![1] = @ \cup {x}]
  BY <1>1, <1>4, <1>10, StationsEnter
<1>12. RoutedInv'
  BY <1>1, <1>2, <1>4, <1>6, <1>8, <1>9, Apart, RoutedStep DEF OrderInv, RoutedInv
<1>13. SortedInv'
  BY <1>4, <1>5, <1>8, <1>9, SortedStep DEF OrderInv, SortedInv
<1>. QED
  BY <1>0, <1>1, <1>11, <1>12, <1>13 DEF Enters

\* A load balancer pushes: its packet goes from its hands to the queue of the
\* fast path of the flow, which has not been shut down.
LEMMA LBPushMoves ==
    ASSUME TypeOK, StageOrder, OrderInv, NEW lb \in LBs, LBPush(lb)
    PROVE  /\ hand[lb] \in Ids /\ Moves(2, hand[lb])
           /\ RoutedInv' /\ SortedInv'
<1>. DEFINE x == hand[lb]
            fp == SelectFP(lb, Flow(x))
<1>1. lb \in Threads /\ x \in Ids
  BY Apart DEF LBPush, Push, Goes, TypeOK
<1>2. LBForPacket(Flow(x)) = lb /\ Home(Flow(x)) = fp
  BY DEF LBPush, Push, Goes, OrderInv, RoutedInv, Home
<1>3. fp \in FPs /\ fp \in Threads /\ fp # lb /\ fp # Output
  BY <1>1, <1>2, Routes, Apart
<1>4. ~shut[fp]
  BY <1>3 DEF LBPush, Push, Goes, StageOrder
<1>5. /\ queue' = [queue EXCEPT ![fp] = Append(queue[fp], x)]
      /\ hand' = [hand EXCEPT ![lb] = Nothing]
      /\ pc' = [pc EXCEPT ![lb] = "loop"]
      /\ capture' = capture /\ written' = written /\ pc[lb] = "push"
  BY <1>4 DEF LBPush, Push, Goes, Pushed
<1>6. /\ queue \in [Threads -> Seq(Ids)] /\ hand \in [Threads -> Ids \cup {Nothing}]
      /\ pc \in [Threads -> Places] /\ Ids \subseteq Nat \ {Nothing}
  BY DEF TypeOK, Places, Ids, Nothing
<1>0. hand[lb] = x
  OBVIOUS
<1>. HIDE DEF x, fp
<1>7. x \in Station[2] /\ \A p \in Station[2] : Flow(p) = Flow(x) => x <= p
  <2>1. Station[2] = {p \in Ids : At(p, 2)}
    BY DEF Station, Stops
  <2>. SUFFICES ASSUME NEW p \in Ids, At(p, 2), Flow(p) = Flow(x) PROVE x <= p
    BY <1>0, <1>1, <1>2, <1>5, <2>1, Standing
  <2>2. p = x
    BY <1>0, <1>2, Standing
  <2>. QED
    BY <1>1, <1>6, <2>2
<1>8. \A p \in Range(queue[fp]) : Flow(p) = Flow(x) => p < x
  <2>. SUFFICES ASSUME NEW p \in Range(queue[fp]), Flow(p) = Flow(x) PROVE p < x
    OBVIOUS
  <2>1. p \in Ids
    BY <1>3, <1>6 DEF Range
  <2>2. p \in Station[3] /\ 2 \in Stops /\ 3 \in Stops /\ 2 < 3
    BY <1>2, <2>1, Standing DEF Station, Stops
  <2>. QED
    BY <1>7, <2>2 DEF OrderInv, LineInv
<1>9. /\ Range(Append(queue[fp], x)) = Range(queue[fp]) \cup {x}
      /\ Sorted(Append(queue[fp], x))
  BY <1>1, <1>3, <1>6, <1>8, Appended DEF OrderInv, SortedInv
<1>10. /\ \A t \in Threads \ {fp} : queue'[t] = queue[t]
       /\ \A t \in Threads \ {lb} : hand'[t] = hand[t] /\ pc'[t] = pc[t]
       /\ queue'[fp] = Append(queue[fp], x) /\ pc'[lb] = "loop"
  BY <1>1, <1>3, <1>5, <1>6
<1>11. \A p \in Ids, j \in Stops :
           At(p, j)' <=> \/ At(p, j) /\ ~(j = 2 /\ p = x)
                         \/ j = 2 + 1 /\ p = x
  <2>. SUFFICES ASSUME NEW p \in Ids, NEW j \in Stops
                PROVE  At(p, j)' <=> \/ At(p, j) /\ ~(j = 2 /\ p = x)
                                     \/ j = 2 + 1 /\ p = x
    OBVIOUS
  <2>. DEFINE f == LBForPacket(Flow(p))
              g == Home(Flow(p))
  <2>1. /\ f \in Threads /\ g \in Threads /\ f # fp /\ g # lb /\ g # Output
        /\ Output # lb /\ Output \in Threads
    BY <1>3, Routes, Apart
  <2>2. j \in {1, 2, 3, 4, 5, 6, 7}
    BY DEF Stops
  <2>3. p = x => f = lb /\ g = fp
    BY <1>2
  <2>. HIDE DEF f, g
  <2>4. /\ At(p, 1)' <=> At(p, 1)
        /\ At(p, 2)' <=> At(p, 2) /\ p # x
        /\ At(p, 3)' <=> At(p, 3) \/ p = x
        /\ At(p, 4)' <=> At(p, 4)
        /\ At(p, 5)' <=> At(p, 5)
        /\ At(p, 6)' <=> At(p, 6)
        /\ At(p, 7)' <=> At(p, 7)
    BY <1>0, <1>3, <1>5, <1>9, <1>10, <2>1, <2>3, Standing, StandingNext DEF f, g
  <2>. QED
    BY <2>2, <2>4
<1>12. Station' = [Station EXCEPT ![2] = @ \ {x}, ![2 + 1] = @ \cup {x}]
  <2>1. capture' = capture /\ 2 \in 1 .. 6 /\ x \in Ids
    BY <1>1, <1>5
  <2>. QED
    BY <1>11, <2>1, StationsMove
<1>13. RoutedInv'
  BY <1>1, <1>2, <1>3, <1>9, <1>10, <1>5, Apart, RoutedStep DEF OrderInv, RoutedInv
<1>14. SortedInv'
  BY <1>5, <1>6, <1>9, <1>10, SortedStep DEF OrderInv, SortedInv
<1>. QED
  BY <1>1, <1>7, <1>12, <1>13, <1>14 DEF Moves, x

\* The packet a fast path is to judge comes before all others of its flow that
\* are as far.
LEMMA UnderVerdict ==
    ASSUME TypeOK, OrderInv, NEW fp \in FPs, FPInspect(fp)
    PROVE  /\ hand[fp] \in Ids /\ Home(Flow(hand[fp])) = fp
           /\ hand[fp] \in Station[4]
           /\ \A p \in Station[4] :
                  Flow(p) = Flow(hand[fp]) => hand[fp] <= p
<1>. DEFINE x == hand[fp]
<1>1. fp \in Threads /\ x \in Ids
  BY Apart DEF FPInspect, TypeOK
<1>2. Home(Flow(x)) = fp
  BY DEF FPInspect, OrderInv, RoutedInv
<1>3. pc[fp] = "inspect" /\ Ids \subseteq Nat /\ hand[fp] = x
  BY DEF FPInspect, Ids
<1>. HIDE DEF x
<1>4. Station[4] = {p \in Ids : At(p, 4)}
  BY DEF Station, Stops
<1>5. ASSUME NEW p \in Ids, At(p, 4), Flow(p) = Flow(x) PROVE x <= p
  <2>1. p = x
    BY <1>2, <1>3, <1>5, Standing
  <2>. QED
    BY <1>1, <1>3, <2>1
<1>. QED
  BY <1>1, <1>2, <1>3, <1>4, <1>5, Standing DEF x

\* A fast path judges: its packet stays in its hands, to be pushed, or is
\* nowhere any more.
LEMMA FPInspectMoves ==
    ASSUME TypeOK, OrderInv, NEW fp \in FPs, Decides(fp)
    PROVE  /\ hand[fp] \in Ids
           /\ \/ Moves(4, hand[fp]) /\ pc' = [pc EXCEPT ![fp] = "push"]
              \/ Leaves(4, hand[fp]) /\ pc' = [pc EXCEPT ![fp] = "loop"]
           /\ RoutedInv' /\ SortedInv'
<1>. DEFINE x == hand[fp]
<1>1. fp \in Threads /\ fp # Output /\ x \in Ids
  BY Apart DEF Decides, FPInspect, TypeOK
<1>2. Home(Flow(x)) = fp
  BY UnderVerdict DEF Decides
<1>3. /\ queue' = queue /\ capture' = capture /\ written' = written
      /\ pc[fp] = "inspect"
  BY DEF Decides, FPInspect, outputVars
<1>4. \/ hand' = [hand EXCEPT ![fp] = Nothing] /\ pc' = [pc EXCEPT ![fp] = "loop"]
      \/ hand' = hand /\ pc' = [pc EXCEPT ![fp] = "push"]
  BY DEF Decides, FPDrop, FPForward, Goes
<1>5. /\ queue \in [Threads -> Seq(Ids)] /\ hand \in [Threads -> Ids \cup {Nothing}]
      /\ pc \in [Threads -> Places] /\ Ids \subseteq Nat \ {Nothing}
  BY DEF TypeOK, Places, Ids, Nothing
<1>0. hand[fp] = x
  OBVIOUS
<1>6. x \in Station[4] /\ \A p \in Station[4] : Flow(p) = Flow(x) => x <= p
  BY UnderVerdict DEF Decides
<1>. HIDE DEF x
<1>7. SortedInv'
  BY <1>3, SortedStep DEF OrderInv, SortedInv
<1>8. CASE hand' = [hand EXCEPT ![fp] = Nothing] /\ pc' = [pc EXCEPT ![fp] = "loop"]
  <2>1. /\ \A t \in Threads \ {fp} : hand'[t] = hand[t] /\ pc'[t] = pc[t]
        /\ pc'[fp] = "loop"
    BY <1>1, <1>5, <1>8
  <2>2. \A p \in Ids, j \in Stops : At(p, j)' <=> At(p, j) /\ ~(j = 4 /\ p = x)
    <3>. SUFFICES ASSUME NEW p \in Ids, NEW j \in Stops
                  PROVE  At(p, j)' <=> At(p, j) /\ ~(j = 4 /\ p = x)
      OBVIOUS
    <3>. DEFINE f == LBForPacket(Flow(p))
                g == Home(Flow(p))
    <3>1. f \in Threads /\ g \in Threads /\ f # fp
      BY Routes, Apart
    <3>2. j \in {1, 2, 3, 4, 5, 6, 7}
      BY DEF Stops
    <3>3. p = x => g = fp
      BY <1>2
    <3>. HIDE DEF f, g
    <3>4. /\ At(p, 1)' <=> At(p, 1)
          /\ At(p, 2)' <=> At(p, 2)
          /\ At(p, 3)' <=> At(p, 3)
          /\ At(p, 4)' <=> At(p, 4) /\ p # x
          /\ At(p, 5)' <=> At(p, 5)
          /\ At(p, 6)' <=> At(p, 6)
          /\ At(p, 7)' <=> At(p, 7)
      BY <1>0, <1>3, <2>1, <3>1, <3>3, Standing, StandingNext DEF f, g
    <3>. QED
      BY <3>2, <3>4
  <2>3. Station' = [Station EXCEPT ![4] = @ \ {x}]
    <3>1. capture' = capture /\ 4 \in Stops /\ x \in Ids
      BY <1>1, <1>3 DEF Stops
    <3>. QED
      BY <2>2, <3>1, StationsLeave
  <2>4. RoutedInv'
    BY <1>1, <1>3, <2>1, Apart, RoutedStep DEF OrderInv, RoutedInv
  <2>. QED
    BY <1>1, <1>6, <1>7, <1>8, <2>3, <2>4 DEF Leaves, x
<1>9. CASE hand' = hand /\ pc' = [pc EXCEPT ![fp] = "push"]
  <2>1. /\ \A t \in Threads \ {fp} : pc'[t] = pc[t]
        /\ pc'[fp] = "push"
    BY <1>1, <1>5, <1>9
  <2>2. \A p \in Ids, j \in Stops :
            At(p, j)' <=> \/ At(p, j) /\ ~(j = 4 /\ p = x)
                          \/ j = 4 + 1 /\ p = x
    <3>. SUFFICES ASSUME NEW p \in Ids, NEW j \in Stops
                  PROVE  At(p, j)' <=> \/ At(p, j) /\ ~(j = 4 /\ p = x)
                                       \/ j = 4 + 1 /\ p = x
      OBVIOUS
    <3>. DEFINE f == LBForPacket(Flow(p))
                g == Home(Flow(p))
    <3>1. f \in Threads /\ g \in Threads /\ f # fp
      BY Routes, Apart
    <3>2. j \in {1, 2, 3, 4, 5, 6, 7}
      BY DEF Stops
    <3>3. p = x => g = fp
      BY <1>2
    <3>. HIDE DEF f, g
    <3>4. /\ At(p, 1)' <=> At(p, 1)
          /\ At(p, 2)' <=> At(p, 2)
          /\ At(p, 3)' <=> At(p, 3)
          /\ At(p, 4)' <=> At(p, 4) /\ p # x
          /\ At(p, 5)' <=> At(p, 5) \/ p = x
          /\ At(p, 6)' <=> At(p, 6)
          /\ At(p, 7)' <=> At(p, 7)
      BY <1>0, <1>3, <1>9, <2>1, <3>1, <3>3, Standing, StandingNext DEF f, g
    <3>. QED
      BY <3>2, <3>4
  <2>3. Station' = [Station EXCEPT ![4] = @ \ {x}, ![4 + 1] = @ \cup {x}]
    <3>1. capture' = capture /\ 4 \in 1 .. 6 /\ x \in Ids
      BY <1>1, <1>3
    <3>. QED
      BY <2>2, <3>1, StationsMove
  <2>4. RoutedInv'
    BY <1>1, <1>3, <1>0, <1>2, <1>9, <2>1, Apart, RoutedStep DEF OrderInv, RoutedInv
  <2>. QED
    BY <1>1, <1>6, <1>7, <1>9, <2>3, <2>4 DEF Moves, x
<1>. QED
  BY <1>4, <1>8, <1>9

\* A fast path pushes: its packet goes from its hands to the queue of the
\* output thread, which has not been shut down.
LEMMA FPPushMoves ==
    ASSUME TypeOK, StageOrder, OrderInv, NEW fp \in FPs, FPPush(fp)
    PROVE  /\ hand[fp] \in Ids /\ Moves(5, hand[fp])
           /\ RoutedInv' /\ SortedInv'
<1>. DEFINE x == hand[fp]
<1>1. fp \in Threads /\ x \in Ids /\ fp # Output /\ Output \in Threads
  BY Apart DEF FPPush, Push, Goes, TypeOK
<1>2. Home(Flow(x)) = fp
  BY DEF FPPush, Push, Goes, OrderInv, RoutedInv
<1>3. ~shut[Output]
  BY DEF FPPush, Push, Goes, StageOrder
<1>4. /\ queue' = [queue EXCEPT ![Output] = Append(queue[Output], x)]
      /\ hand' = [hand EXCEPT ![fp] = Nothing]
      /\ pc' = [pc EXCEPT ![fp] = "loop"]
      /\ capture' = capture /\ written' = written /\ pc[fp] = "push"
  BY <1>3 DEF FPPush, Push, Goes, Pushed, outputVars
<1>5. /\ queue \in [Threads -> Seq(Ids)] /\ hand \in [Threads -> Ids \cup {Nothing}]
      /\ pc \in [Threads -> Places] /\ Ids \subseteq Nat \ {Nothing}
  BY DEF TypeOK, Places, Ids, Nothing
<1>0. hand[fp] = x
  OBVIOUS
<1>. HIDE DEF x
<1>6. x \in Station[5] /\ \A p \in Station[5] : Flow(p) = Flow(x) => x <= p
  <2>1. Station[5] = {p \in Ids : At(p, 5)}
    BY DEF Station, Stops
  <2>. SUFFICES ASSUME NEW p \in Ids, At(p, 5), Flow(p) = Flow(x) PROVE x <= p
    BY <1>0, <1>1, <1>2, <1>4, <2>1, Standing
  <2>2. p = x
    BY <1>0, <1>2, Standing
  <2>. QED
    BY <1>1, <1>5, <2>2
<1>7. \A p \in Range(queue[Output]) : Flow(p) = Flow(x) => p < x
  <2>. SUFFICES ASSUME NEW p \in Range(queue[Output]), Flow(p) = Flow(x)
                PROVE  p < x
    OBVIOUS
  <2>1. p \in Ids
    BY <1>1, <1>5 DEF Range
  <2>2. p \in Station[6] /\ 5 \in Stops /\ 6 \in Stops /\ 5 < 6
    BY <2>1, Standing DEF Station, Stops
  <2>. QED
    BY <1>6, <2>2 DEF OrderInv, LineInv
<1>8. /\ Range(Append(queue[Output], x)) = Range(queue[Output]) \cup {x}
      /\ Sorted(Append(queue[Output], x))
  BY <1>1, <1>5, <1>7, Appended DEF OrderInv, SortedInv
<1>9. /\ \A t \in Threads \ {Output} : queue'[t] = queue[t]
      /\ \A t \in Threads \ {fp} : hand'[t] = hand[t] /\ pc'[t] = pc[t]
      /\ queue'[Output] = Append(queue[Output], x) /\ pc'[fp] = "loop"
  BY <1>1, <1>4, <1>5
<1>10. \A p \in Ids, j \in Stops :
           At(p, j)' <=> \/ At(p, j) /\ ~(j = 5 /\ p = x)
                         \/ j = 5 + 1 /\ p = x
  <2>. SUFFICES ASSUME NEW p \in Ids, NEW j \in Stops
                PROVE  At(p, j)' <=> \/ At(p, j) /\ ~(j = 5 /\ p = x)
                                     \/ j = 5 + 1 /\ p = x
    OBVIOUS
  <2>. DEFINE f == LBForPacket(Flow(p))
              g == Home(Flow(p))
  <2>1. /\ f \in Threads /\ g \in Threads /\ f # Output /\ g # Output
        /\ f # fp
    BY Routes, Apart
  <2>2. j \in {1, 2, 3, 4, 5, 6, 7}
    BY DEF Stops
  <2>3. p = x => g = fp
    BY <1>2
  <2>. HIDE DEF f, g
  <2>4. /\ At(p, 1)' <=> At(p, 1)
        /\ At(p, 2)' <=> At(p, 2)
        /\ At(p, 3)' <=> At(p, 3)
        /\ At(p, 4)' <=> At(p, 4)
        /\ At(p, 5)' <=> At(p, 5) /\ p # x
        /\ At(p, 6)' <=> At(p, 6) \/ p = x
        /\ At(p, 7)' <=> At(p, 7)
    BY <1>0, <1>1, <1>4, <1>8, <1>9, <2>1, <2>3, Standing, StandingNext DEF f, g
  <2>. QED
    BY <2>2, <2>4
<1>11. Station' = [Station EXCEPT ![5] = @ \ {x}, ![5 + 1] = @ \cup {x}]
  <2>1. capture' = capture /\ 5 \in 1 .. 6 /\ x \in Ids
    BY <1>1, <1>4
  <2>. QED
    BY <1>10, <2>1, StationsMove
<1>12. RoutedInv'
  BY <1>1, <1>4, <1>8, <1>9, Apart, RoutedStep DEF OrderInv, RoutedInv
<1>13. SortedInv'
  BY <1>4, <1>5, <1>8, <1>9, SortedStep DEF OrderInv, SortedInv
<1>. QED
  BY <1>1, <1>6, <1>11, <1>12, <1>13 DEF Moves, x

\* A step that touches neither queues nor packets in hand keeps everything.
LEMMA IdleStays ==
    ASSUME TypeOK, OrderInv, Idle
    PROVE  Station' = Station /\ RoutedInv' /\ SortedInv'
<1>1. /\ queue' = queue /\ hand' = hand /\ capture' = capture
      /\ written' = written
  BY DEF Idle
<1>2. \A t \in Threads :
          \/ pc'[t] = pc[t]
          \/ pc[t] \notin {"push", "inspect"} /\ pc'[t] \notin {"push", "inspect"}
  BY DEF Idle, TypeOK
<1>3. \A p \in Ids, j \in Stops : At(p, j)' <=> At(p, j)
  <2>. SUFFICES ASSUME NEW p \in Ids, NEW j \in Stops
                PROVE  At(p, j)' <=> At(p, j)
    OBVIOUS
  <2>. DEFINE f == LBForPacket(Flow(p))
              g == Home(Flow(p))
  <2>1. f \in Threads /\ g \in Threads
    BY Routes, Apart
  <2>2. j \in {1, 2, 3, 4, 5, 6, 7}
    BY DEF Stops
  <2>. HIDE DEF f, g
  <2>3. /\ At(p, 1)' <=> At(p, 1)
        /\ At(p, 2)' <=> At(p, 2)
        /\ At(p, 3)' <=> At(p, 3)
        /\ At(p, 4)' <=> At(p, 4)
        /\ At(p, 5)' <=> At(p, 5)
        /\ At(p, 6)' <=> At(p, 6)
        /\ At(p, 7)' <=> At(p, 7)
    BY <1>1, <1>2, <2>1, Standing, StandingNext DEF f, g
  <2>. QED
    BY <2>2, <2>3
<1>4. Station' = Station
  <2>1. Ids' = Ids
    BY <1>1 DEF Ids
  <2>2. Station' = [j \in Stops |-> {p \in Ids : At(p, j)'}]
    BY <2>1 DEF Station
  <2>3. ASSUME NEW j \in Stops
        PROVE  {p \in Ids : At(p, j)'} = {p \in Ids : At(p, j)}
    BY <1>3
  <2>. QED
    BY <2>2, <2>3 DEF Station
<1>5. RoutedInv'
  BY <1>1, <1>2, Apart, RoutedStep DEF OrderInv, RoutedInv
<1>6. SortedInv'
  BY <1>1, SortedStep DEF OrderInv, SortedInv
<1>. QED
  BY <1>4, <1>5, <1>6

\* Every step of every thread keeps the order.
LEMMA OrderNext ==
    ASSUME TypeOK, StopInv, OrderInv, [Next]_vars
    PROVE  OrderInv'
<1>0. LineInv /\ StageOrder
  BY StopImpliesOrder DEF OrderInv
<1>1. CASE Read
  <2>1. capture' = capture /\ total' = total + 1
    BY <1>1 DEF Read
  <2>. QED
    BY <1>0, <1>1, <2>1, ReadEnters, LineKept DEF OrderInv
<1>2. ASSUME NEW lb \in LBs, LBTake(lb) PROVE OrderInv'
  <2>1. capture' = capture /\ UNCHANGED total /\ 1 \in 1 .. 6
    BY <1>2 DEF LBTake
  <2>2. \E k \in 1 .. 6, x \in Ids : Moves(k, x)
    BY <1>2, <2>1, LBTakeMoves
  <2>. QED
    BY <1>0, <1>2, <2>1, <2>2, LBTakeMoves, LineKept DEF OrderInv
<1>3. ASSUME NEW lb \in LBs, LBPush(lb) PROVE OrderInv'
  <2>1. capture' = capture /\ UNCHANGED total /\ 2 \in 1 .. 6
    BY <1>3 DEF LBPush
  <2>2. \E k \in 1 .. 6, x \in Ids : Moves(k, x)
    BY <1>0, <1>3, <2>1, LBPushMoves
  <2>. QED
    BY <1>0, <1>3, <2>1, <2>2, LBPushMoves, LineKept DEF OrderInv
<1>4. ASSUME NEW fp \in FPs, FPTake(fp) PROVE OrderInv'
  <2>1. capture' = capture /\ UNCHANGED total /\ 3 \in 1 .. 6
    BY <1>4 DEF FPTake
  <2>2. \E k \in 1 .. 6, x \in Ids : Moves(k, x)
    BY <1>4, <2>1, FPTakeMoves
  <2>. QED
    BY <1>0, <1>4, <2>1, <2>2, FPTakeMoves, LineKept DEF OrderInv
<1>5. ASSUME NEW fp \in FPs, Decides(fp) PROVE OrderInv'
  <2>1. capture' = capture /\ UNCHANGED total /\ 4 \in 1 .. 6 /\ 4 \in Stops
    BY <1>5 DEF Decides, FPInspect, Stops
  <2>2. \/ \E k \in 1 .. 6, x \in Ids : Moves(k, x)
        \/ \E k \in Stops, x \in Ids : Leaves(k, x)
    BY <1>5, <2>1, FPInspectMoves
  <2>. QED
    BY <1>0, <1>5, <2>1, <2>2, FPInspectMoves, LineKept DEF OrderInv
<1>6. ASSUME NEW fp \in FPs, FPPush(fp) PROVE OrderInv'
  <2>1. capture' = capture /\ UNCHANGED total /\ 5 \in 1 .. 6
    BY <1>6 DEF FPPush
  <2>2. \E k \in 1 .. 6, x \in Ids : Moves(k, x)
    BY <1>0, <1>6, <2>1, FPPushMoves
  <2>. QED
    BY <1>0, <1>6, <2>1, <2>2, FPPushMoves, LineKept DEF OrderInv
<1>7. CASE OutputTake
  <2>1. capture' = capture /\ UNCHANGED total /\ 6 \in 1 .. 6
    BY <1>7 DEF OutputTake, Goes, countVars
  <2>2. \E k \in 1 .. 6, x \in Ids : Moves(k, x)
    BY <1>7, <2>1, OutputTakeMoves
  <2>. QED
    BY <1>0, <1>7, <2>1, <2>2, OutputTakeMoves, LineKept DEF OrderInv
<1>8. CASE Idle
  <2>1. capture' = capture /\ UNCHANGED total
    BY <1>8 DEF Idle, countVars
  <2>. QED
    BY <1>0, <1>8, <2>1, IdleStays, LineKept DEF OrderInv
<1>. QED
  BY <1>1, <1>2, <1>3, <1>4, <1>5, <1>6, <1>7, <1>8, StepsSorted

\* At the start no packet is anywhere.
LEMMA OrderInit == Init => TypeOK /\ OrderInv
<1>. SUFFICES ASSUME Init PROVE TypeOK /\ OrderInv
  OBVIOUS
<1>1. TypeOK
  BY TypeInit
<1>2. /\ \A t \in Threads : queue[t] = <<>> /\ pc[t] = "loop"
      /\ written = <<>>
  BY DEF Init
<1>3. Range(<<>>) = {} /\ DOMAIN <<>> = {}
  BY DEF Range
<1>4. RoutedInv
  BY <1>2, <1>3, Apart DEF RoutedInv
<1>5. SortedInv
  BY <1>2, <1>3 DEF SortedInv, Sorted
<1>6. \A p \in Ids, j \in Stops : ~At(p, j)
  <2>. SUFFICES ASSUME NEW p \in Ids, NEW j \in Stops PROVE ~At(p, j)
    OBVIOUS
  <2>1. LBForPacket(Flow(p)) \in Threads /\ Home(Flow(p)) \in Threads
    BY <1>1, Routes, Apart
  <2>. QED
    BY <1>2, <1>3, <2>1, Apart DEF At
<1>7. \A j \in Stops : Station[j] = {}
  BY <1>6 DEF Station
<1>. QED
  BY <1>1, <1>4, <1>5, <1>7 DEF OrderInv, LineInv

\* How far stop() has come and where the packets are.
LEMMA OrderHolds == Spec => [](StopInv /\ OrderInv)
<1>1. TypeOK /\ StopInv /\ OrderInv /\ [Next]_vars => OrderInv'
  BY OrderNext
<1>2. TypeOK /\ StopInv /\ [Next]_vars => StopInv'
  BY StopNext
<1>. QED
  BY <1>1, <1>2, OrderInit, StopInit, TypeCorrect, PTL DEF Spec

\* The packets of a flow reach the file in the order of the capture, for any
\* hash and number of threads.
THEOREM FlowsInOrder == Spec => []FlowOrder
<1>1. OrderInv => FlowOrder
  BY DEF OrderInv, SortedInv, Sorted, FlowOrder
<1>. QED
  BY <1>1, OrderHolds, PTL

-----------------------------------------------------------------------------
(* A flow that was cut stays cut.  Every packet is either still to be judged  *)
(* or past the fast path's verdict, and a flow's packets are judged in the    *)
(* order of the capture.  So the table's entry for a flow that was cut is     *)
(* blocked, unless a packet after the one that was dropped closed it.         *)

\* Packet p has not been judged yet.
Pending(p) == p > total \/ \E k \in 1 .. 4 : p \in Station[k]

\* Packet p was judged and forwarded.
Past(p) == \E k \in 5 .. 7 : p \in Station[k]

\* Packet k closes its connection, if there is one.
Closes(k) ==
    /\ Flow(k) \in TcpTuples
    /\ \/ "RST" \in capture[k].flags
       \/ /\ "ACK" \in capture[k].flags
          /\ \E j \in 1 .. k : Flow(j) = Flow(k) /\ "FIN" \in capture[j].flags

\* Packet p has changed its flow's entry: it was judged, or its fast path is
\* asking for the rules.
Seen(p) ==
    \/ ~Pending(p)
    \/ lock[Home(Flow(p))] # "none" /\ hand[Home(Flow(p))] = p

\* A packet of flow f with a FIN was seen.
FinSeen(f) ==
    \E j \in Ids : Flow(j) = f /\ Seen(j) /\ "FIN" \in capture[j].flags

\* The entry of flow f is blocked.
Blocked(f) == f \in DOMAIN conns[Home(f)] /\ conns[Home(f)][f].state = "BLOCKED"

\* A packet of p's flow after p was seen and closes it.
ClosedSince(p) ==
    \E k \in Ids : p < k /\ Flow(k) = Flow(p) /\ Seen(k) /\ Closes(k)

\* A packet of p's flow after p, q at the latest, closes it.
ClosedBy(p, q) == \E k \in p + 1 .. q : Flow(k) = Flow(p) /\ Closes(k)

\* The packets of a flow are judged in the order of the capture.
JudgedInv ==
    \A p, q \in Ids :
        Pending(p) /\ ~Pending(q) /\ Flow(p) = Flow(q) => q < p

\* A connection is in the table of its flow's fast path, and remembers a FIN
\* only if one was seen.
EntryInv ==
    \A fp \in FPs : \A t \in DOMAIN conns[fp] :
        Home(t) = fp /\ (conns[fp][t].fin => FinSeen(t))

\* A packet that was dropped left its flow blocked, unless one that closes it
\* was seen since, and whatever got past the verdict later has such a packet
\* before it.
CutInv ==
    Cardinality(Tuples) <= MaxConnections =>
        \A p \in cut :
            /\ ~Pending(p)
            /\ Blocked(Flow(p)) \/ ClosedSince(p)
            /\ \A q \in Ids :
                   Past(q) /\ Flow(p) = Flow(q) /\ p < q => ClosedBy(p, q)

\* What a step that keeps the capture leaves as it is.
LEMMA CaptureKept ==
    ASSUME capture' = capture
    PROVE  /\ Ids' = Ids
           /\ \A k : Flow(k)' = Flow(k)
           /\ \A f : Home(f)' = Home(f)
           /\ \A k : Closes(k)' <=> Closes(k)
           /\ \A p, q : ClosedBy(p, q)' <=> ClosedBy(p, q)
<1>1. Ids' = Ids /\ \A k : Flow(k)' = Flow(k)
  BY DEF Ids, Flow
<1>2. \A f : Home(f)' = Home(f)
  BY DEF Home, SelectFP, LBForPacket
<1>3. \A k : Closes(k)' <=> Closes(k)
  BY DEF Closes, Flow
<1>4. \A p, q : ClosedBy(p, q)' <=> ClosedBy(p, q)
  BY <1>1, <1>3 DEF ClosedBy
<1>. QED
  BY <1>1, <1>2, <1>3, <1>4

\* Packets that are read, or go to a station on the same side of the verdict,
\* are pending as before.
LEMMA MovesQuiet ==
    ASSUME TypeOK,
           \/ /\ total' = total
              /\ \E k \in {1, 2, 3, 5, 6}, x \in Ids : Moves(k, x)
           \/ total' = total + 1 /\ Enters(total + 1)
           \/ total' = total /\ Station' = Station,
           NEW p \in Ids
    PROVE  (Pending(p)' <=> Pending(p)) /\ (Past(p)' => Past(p))
<1>0. /\ DOMAIN Station = 1 .. 7 /\ total \in Nat /\ p \in Nat
      /\ Pending(p)' <=> (p > total' \/ \E k \in 1 .. 4 : p \in Station'[k])
      /\ Past(p)' <=> \E k \in 5 .. 7 : p \in Station'[k]
  BY DEF Station, Stops, TypeOK, Ids, Pending, Past
<1>1. CASE total' = total /\ \E k \in {1, 2, 3, 5, 6}, x \in Ids : Moves(k, x)
  <2>1. PICK k \in {1, 2, 3, 5, 6}, x \in Ids : Moves(k, x)
    BY <1>1
  <2>2. /\ x \in Station[k]
        /\ Station'[k] = Station[k] \ {x}
        /\ Station'[k + 1] = Station[k + 1] \cup {x}
        /\ \A j \in 1 .. 7 : j # k /\ j # k + 1 => Station'[j] = Station[j]
    BY <1>0, <2>1 DEF Moves
  <2>3. CASE k \in {1, 2, 3}
    <3>1. /\ k \in 1 .. 4 /\ k + 1 \in 1 .. 4 /\ k # k + 1
          /\ \A j \in 1 .. 4 : j \in 1 .. 7
          /\ \A j \in 5 .. 7 : j \in 1 .. 7 /\ j # k /\ j # k + 1
      BY <2>3
    <3>2. Past(p)' => Past(p)
      BY <1>0, <2>2, <3>1 DEF Past
    <3>3. (\E j \in 1 .. 4 : p \in Station'[j]) <=> (\E j \in 1 .. 4 : p \in Station[j])
      BY <2>2, <3>1
    <3>. QED
      BY <1>0, <1>1, <3>2, <3>3 DEF Pending
  <2>4. CASE k \in {5, 6}
    <3>1. /\ k \in 5 .. 7 /\ k + 1 \in 5 .. 7
          /\ \A j \in 1 .. 4 : j \in 1 .. 7 /\ j # k /\ j # k + 1
          /\ \A j \in 5 .. 7 : j \in 1 .. 7
      BY <2>4
    <3>2. Past(p)' => Past(p)
      BY <1>0, <2>2, <3>1 DEF Past
    <3>3. (\E j \in 1 .. 4 : p \in Station'[j]) <=> (\E j \in 1 .. 4 : p \in Station[j])
      BY <2>2, <3>1
    <3>. QED
      BY <1>0, <1>1, <3>2, <3>3 DEF Pending
  <2>. QED
    BY <2>3, <2>4
<1>2. CASE total' = total + 1 /\ Enters(total + 1)
  <2>1. /\ Station'[1] = Station[1] \cup {total + 1}
        /\ \A j \in 2 .. 7 : Station'[j] = Station[j]
    BY <1>0, <1>2 DEF Enters
  <2>2. Past(p)' => Past(p)
    <3>1. \A j \in 5 .. 7 : j \in 2 .. 7
      OBVIOUS
    <3>. QED
      BY <1>0, <2>1, <3>1 DEF Past
  <2>3. \A j \in 1 .. 4 : j = 1 \/ j \in 2 .. 7
    OBVIOUS
  <2>4. (\E j \in 1 .. 4 : p \in Station'[j]) <=>
            (p = total + 1 \/ \E j \in 1 .. 4 : p \in Station[j])
    BY <2>1, <2>3
  <2>. QED
    BY <1>0, <1>2, <2>2, <2>4 DEF Pending
<1>3. CASE total' = total /\ Station' = Station
  BY <1>0, <1>3 DEF Pending, Past
<1>. QED
  BY <1>1, <1>2, <1>3

\* A fast path that waits in vain forgets the connections that are closed.
Cleaned ==
    \E fp \in FPs :
        conns' = [conns EXCEPT ![fp] = Tracker(fp)!Without(Tracker(fp)!Gone)]

\* No other step but those of a verdict touches the tables.
LEMMA QuietTables ==
    ASSUME [Next]_vars, \A fp \in FPs : ~FPInspect(fp)
    PROVE  conns' = conns \/ Cleaned
<1>. USE DEF vars, threadVars, tableVars
<1>1. ASSUME NEW t, LoopTest(t) \/ PopNothing(t)
      PROVE  conns' = conns \/ Cleaned
  BY <1>1 DEF LoopTest, PopNothing, Cleaned
<1>2. ASSUME NEW lb \in LBs, LBTake(lb) \/ LBPush(lb) PROVE conns' = conns
  BY <1>2 DEF LBTake, LBPush
<1>3. ASSUME NEW fp \in FPs, FPTake(fp) \/ FPPush(fp) PROVE conns' = conns
  BY <1>3 DEF FPTake, FPPush
<1>4. OutputTake \/ MainStep \/ ChangeRules \/ Finished \/ UNCHANGED vars
          => conns' = conns
  BY DEF OutputTake, MainStep, Read, WaitForCompletion, StopEngine, ClearFlag,
     ShutQueue, Join, MainGoes, ChangeRules, Finished
<1>. QED
  BY <1>1, <1>2, <1>3, <1>4 DEF Next, LBStep, FPStep, OutputStep

\* A fast path that asks for the rules is left alone by all other steps.
LEMMA ChecksStay ==
    ASSUME TypeOK, LockInv, [Next]_vars, \A fp \in FPs : ~FPInspect(fp),
           NEW g \in FPs, lock[g] # "none"
    PROVE  lock'[g] = lock[g] /\ hand'[g] = hand[g]
<1>. DEFINE Goal == lock'[g] = lock[g] /\ hand'[g] = hand[g]
<1>. USE DEF vars, threadVars, tableVars
<1>0. pc[g] = "inspect" /\ g \in Threads /\ DOMAIN hand = Threads
  BY Shape DEF LockInv, TypeOK
<1>1. ASSUME NEW t, LoopTest(t) \/ PopNothing(t) PROVE Goal
  BY <1>1 DEF LoopTest, PopNothing
<1>2. ASSUME NEW lb \in LBs, LBTake(lb) \/ LBPush(lb) PROVE Goal
  <2>1. lb # g
    BY Apart
  <2>. QED
    BY <1>0, <1>2, <2>1 DEF LBTake, LBPush, Take, Push
<1>3. ASSUME NEW fp \in FPs, FPTake(fp) \/ FPPush(fp) PROVE Goal
  <2>1. fp # g /\ UNCHANGED lock
    BY <1>0, <1>3 DEF FPTake, FPPush, Take, Push, Goes
  <2>. QED
    BY <1>0, <1>3, <2>1 DEF FPTake, FPPush, Take, Push
<1>4. OutputTake \/ MainStep \/ ChangeRules \/ Finished \/ UNCHANGED vars => Goal
  BY DEF OutputTake, MainStep, Read, WaitForCompletion, StopEngine, ClearFlag,
     ShutQueue, Join, MainGoes, ChangeRules, Finished
<1>. HIDE DEF Goal
<1>5. Goal
  BY <1>1, <1>2, <1>3, <1>4 DEF Next, LBStep, FPStep, OutputStep
<1>. QED
  BY <1>5 DEF Goal

\* Only a fast path's verdict makes a difference to what is pending, dropped or
\* blocked: other steps at most forget connections that are closed.
LEMMA QuietStep ==
    ASSUME TypeOK, StopInv, OrderInv, LockInv, [Next]_vars,
           \A fp \in FPs : ~FPInspect(fp)
    PROVE  /\ capture' = capture /\ cut' = cut
           /\ conns' = conns \/ Cleaned
           /\ \A p \in Ids : /\ Pending(p)' <=> Pending(p)
                             /\ Past(p)' => Past(p)
                             /\ Seen(p) => Seen(p)'
<1>0. StageOrder
  BY StopImpliesOrder
<1>. DEFINE Quiet == capture' = capture /\ cut' = cut
            Same == \/ /\ total' = total
                       /\ \E k \in {1, 2, 3, 5, 6}, x \in Ids : Moves(k, x)
                    \/ total' = total + 1 /\ Enters(total + 1)
                    \/ total' = total /\ Station' = Station
            Kept == \A p \in Ids :
                        (Pending(p)' <=> Pending(p)) /\ (Past(p)' => Past(p))
<1>1. ASSUME Read PROVE Quiet /\ Same
  <2>1. Quiet /\ total' = total + 1
    BY <1>1 DEF Read
  <2>. QED
    BY <1>1, <2>1, ReadEnters
<1>2. ASSUME NEW lb \in LBs, LBTake(lb) PROVE Quiet /\ Same
  <2>1. Quiet /\ total' = total
    BY <1>2 DEF LBTake
  <2>. QED
    BY <1>2, <2>1, LBTakeMoves
<1>3. ASSUME NEW lb \in LBs, LBPush(lb) PROVE Quiet /\ Same
  <2>1. Quiet /\ total' = total
    BY <1>3 DEF LBPush
  <2>. QED
    BY <1>0, <1>3, <2>1, LBPushMoves
<1>4. ASSUME NEW fp \in FPs, FPTake(fp) PROVE Quiet /\ Same
  <2>1. Quiet /\ total' = total
    BY <1>4 DEF FPTake
  <2>. QED
    BY <1>4, <2>1, FPTakeMoves
<1>5. ASSUME NEW fp \in FPs, FPPush(fp) PROVE Quiet /\ Same
  <2>1. Quiet /\ total' = total
    BY <1>5 DEF FPPush
  <2>. QED
    BY <1>0, <1>5, <2>1, FPPushMoves
<1>6. ASSUME OutputTake PROVE Quiet /\ Same
  <2>1. Quiet /\ total' = total
    BY <1>6 DEF OutputTake, countVars
  <2>. QED
    BY <1>6, <2>1, OutputTakeMoves
<1>7. ASSUME Idle PROVE Quiet /\ Same
  <2>1. Quiet /\ total' = total
    BY <1>7 DEF Idle, countVars
  <2>. QED
    BY <1>7, <2>1, IdleStays
<1>8. Same => Kept
  BY MovesQuiet
<1>. HIDE DEF Quiet, Same
<1>9. \/ \E lb \in LBs : LBTake(lb) \/ LBPush(lb)
      \/ \E fp \in FPs : FPTake(fp) \/ FPPush(fp)
      \/ Read \/ OutputTake \/ Idle
  BY StepsSorted DEF Decides
<1>10. Quiet /\ Same
  BY <1>1, <1>2, <1>3, <1>4, <1>5, <1>6, <1>7, <1>9
<1>11. Quiet /\ Kept
  BY <1>8, <1>10
<1>12. ASSUME NEW p \in Ids, Seen(p) PROVE Seen(p)'
  <2>. DEFINE g == Home(Flow(p))
  <2>1. g \in FPs /\ Home(Flow(p))' = g
    BY <1>11, Routes, CaptureKept DEF Quiet
  <2>2. CASE ~Pending(p)
    BY <1>11, <2>2 DEF Seen
  <2>3. CASE lock[g] # "none" /\ hand[g] = p
    <3>1. lock'[g] = lock[g] /\ hand'[g] = hand[g]
      BY <2>1, <2>3, ChecksStay
    <3>. HIDE DEF g
    <3>2. lock'[g] # "none" /\ hand'[g] = p
      BY <2>3, <3>1
    <3>. QED
      BY <2>1, <3>2 DEF Seen
  <2>. QED
    BY <1>12, <2>2, <2>3 DEF Seen
<1>13. conns' = conns \/ Cleaned
  BY QuietTables
<1>. QED
  BY <1>11, <1>12, <1>13 DEF Quiet

\* The cleanup only forgets: what stays is as it was, and what is blocked
\* stays.
LEMMA CleanedTable ==
    ASSUME TypeOK, conns' = conns \/ Cleaned, NEW fp \in FPs
    PROVE  /\ \A t \in DOMAIN conns'[fp] :
                  t \in DOMAIN conns[fp] /\ conns'[fp][t] = conns[fp][t]
           /\ \A t \in DOMAIN conns[fp] :
                  conns[fp][t].state = "BLOCKED" => t \in DOMAIN conns'[fp]
<1>1. DOMAIN conns = FPs
  BY DEF TypeOK
<1>2. CASE conns' = conns
  BY <1>2
<1>3. ASSUME NEW g \in FPs, NEW gone, gone = Tracker(g)!Gone,
             NEW c, c = Tracker(g)!Without(gone),
             conns' = [conns EXCEPT ![g] = c]
      PROVE  /\ \A t \in DOMAIN conns'[fp] :
                    t \in DOMAIN conns[fp] /\ conns'[fp][t] = conns[fp][t]
             /\ \A t \in DOMAIN conns[fp] :
                    conns[fp][t].state = "BLOCKED" => t \in DOMAIN conns'[fp]
  <2>1. /\ DOMAIN c = DOMAIN conns[g] \ gone
        /\ \A u \in DOMAIN c : c[u] = conns[g][u]
    BY <1>3 DEF Tracker!Without, Tracker!Restrict
  <2>2. ASSUME NEW t \in DOMAIN conns[g], t \in gone
        PROVE  conns[g][t].state # "BLOCKED"
    <3>1. conns[g][t] \in Entries
      BY TablesFit DEF Table
    <3>2. conns[g][t].lastSeen \in 0 .. 0
      BY <3>1 DEF Entries
    <3>3. ~(0 - conns[g][t].lastSeen > 0)
      BY <3>2
    <3>. QED
      BY <1>3, <2>2, <3>3 DEF Tracker!Gone
  <2>3. conns'[fp] = IF fp = g THEN c ELSE conns[fp]
    BY <1>1, <1>3
  <2>. QED
    BY <2>1, <2>2, <2>3
<1>. QED
  BY <1>2, <1>3 DEF Cleaned

\* Such a step keeps what is known of the flows that were cut.
LEMMA QuietCut ==
    ASSUME TypeOK, StopInv, OrderInv, LockInv, [Next]_vars,
           \A fp \in FPs : ~FPInspect(fp),
           JudgedInv, EntryInv, CutInv
    PROVE  JudgedInv' /\ EntryInv' /\ CutInv'
<1>1. /\ capture' = capture /\ cut' = cut
      /\ conns' = conns \/ Cleaned
      /\ \A p \in Ids : /\ Pending(p)' <=> Pending(p)
                        /\ Past(p)' => Past(p)
                        /\ Seen(p) => Seen(p)'
  BY QuietStep
<1>2. /\ Ids' = Ids
      /\ \A k : Flow(k)' = Flow(k)
      /\ \A f : Home(f)' = Home(f)
      /\ \A k : Closes(k)' <=> Closes(k)
      /\ \A p, q : ClosedBy(p, q)' <=> ClosedBy(p, q)
  BY <1>1, CaptureKept
<1>3. JudgedInv'
  BY <1>1, <1>2 DEF JudgedInv
<1>4. \A f : FinSeen(f) => FinSeen(f)'
  BY <1>1, <1>2 DEF FinSeen
<1>5. EntryInv'
  <2>1. \A fp \in FPs : \A t \in DOMAIN conns'[fp] :
            t \in DOMAIN conns[fp] /\ conns'[fp][t] = conns[fp][t]
    BY <1>1, CleanedTable
  <2>2. \A fp \in FPs : \A t \in DOMAIN conns'[fp] :
            Home(t) = fp /\ (conns'[fp][t].fin => FinSeen(t))
    BY <2>1 DEF EntryInv
  <2>. QED
    BY <1>2, <1>4, <2>2 DEF EntryInv
<1>6. ASSUME NEW p \in Ids, Blocked(Flow(p)) PROVE Blocked(Flow(p))'
  <2>. DEFINE f == Flow(p)
  <2>1. Home(f) \in FPs
    BY Routes
  <2>2. f \in DOMAIN conns[Home(f)] /\ conns[Home(f)][f].state = "BLOCKED"
    BY <1>6 DEF Blocked
  <2>3. f \in DOMAIN conns'[Home(f)] /\ conns'[Home(f)][f].state = "BLOCKED"
    BY <1>1, <2>1, <2>2, CleanedTable
  <2>4. Flow(p)' = f /\ Home(f)' = Home(f)
    BY <1>2
  <2>. HIDE DEF f
  <2>. QED
    BY <2>3, <2>4, <1>1 DEF Blocked, Home, SelectFP, LBForPacket
<1>7. \A p : ClosedSince(p) => ClosedSince(p)'
  BY <1>1, <1>2 DEF ClosedSince
<1>8. CutInv'
  <2>1. cut \subseteq Ids
    BY DEF TypeOK
  <2>. SUFFICES ASSUME Cardinality(Tuples) <= MaxConnections, NEW p \in cut
                PROVE  /\ ~Pending(p)'
                       /\ Blocked(Flow(p))' \/ ClosedSince(p)'
                       /\ \A q \in Ids : Past(q)' /\ Flow(p) = Flow(q) /\ p < q
                                             => ClosedBy(p, q)'
    BY <1>1, <1>2 DEF CutInv
  <2>2. p \in Ids
    BY <2>1
  <2>. QED
    BY <1>1, <1>2, <1>6, <1>7, <2>2 DEF CutInv
<1>. QED
  BY <1>3, <1>5, <1>8

\* A verdict is on the first packet of its flow that is pending, and on
\* nothing else.  Its first step has seen the packet.
LEMMA Judging ==
    ASSUME TypeOK, OrderInv, LockInv, JudgedInv, NEW fp \in FPs, FPInspect(fp),
           NEW x, x = hand[fp]
    PROVE  /\ x \in Ids /\ Pending(x)
           /\ \A p \in Ids : Flow(p) = Flow(x) =>
                  /\ Pending(p) => x <= p
                  /\ ~Pending(p) => p < x
                  /\ Past(p) => p < x
                  /\ Seen(p) => p <= x
           /\ \A p \in Ids : Pending(p)' => Pending(p)
           /\ \A p \in Ids : ~Pending(p)' => ~Pending(p) \/ (p = x /\ ~Pending(x)')
           /\ FPDrop(fp) => ~Pending(x)'
           /\ \A p \in Ids : Past(p)' => Past(p) \/ (p = x /\ FPForward(fp))
           /\ \A p \in Ids : Seen(p) => Seen(p)'
           /\ Seen(x)'
<1>0. /\ DOMAIN Station = 1 .. 7 /\ pc \in [Threads -> Places] /\ fp \in Threads
      /\ total' = total /\ capture' = capture
  BY Apart DEF FPInspect, TypeOK, Places, Station, Stops
<1>1. /\ x \in Ids /\ x \in Station[4] /\ Home(Flow(x)) = fp
      /\ \A p \in Station[4] : Flow(p) = Flow(x) => x <= p
  BY UnderVerdict
<1>2. \/ Moves(4, x) /\ FPForward(fp) /\ ~FPDrop(fp)
      \/ Leaves(4, x)
      \/ Station' = Station /\ FPUndecided(fp) /\ ~FPDrop(fp)
  <2>1. CASE FPUndecided(fp)
    <3>1. Idle
      <4>1. UNCHANGED <<capture, queue, hand, written, countVars>>
        BY <2>1 DEF FPInspect, FPUndecided, countVars, fpCounts, outputVars
      <4>2. pc' = pc
        BY <2>1 DEF FPUndecided, Goes, TypeOK
      <4>. QED
        BY <4>1, <4>2 DEF Idle
    <3>2. pc'[fp] = "inspect"
      BY <1>0, <2>1 DEF FPUndecided, Goes
    <3>3. ~FPDrop(fp)
      BY <1>0, <3>2 DEF FPDrop, Goes
    <3>. QED
      BY <2>1, <3>1, <3>3, IdleStays
  <2>2. CASE FPDrop(fp) \/ FPForward(fp)
    <3>1. \/ Moves(4, x) /\ pc' = [pc EXCEPT ![fp] = "push"]
          \/ Leaves(4, x) /\ pc' = [pc EXCEPT ![fp] = "loop"]
      BY <2>2, FPInspectMoves DEF Decides
    <3>2. CASE pc' = [pc EXCEPT ![fp] = "push"] /\ Moves(4, x)
      <4>1. ~FPDrop(fp)
        BY <1>0, <3>2 DEF FPDrop, Goes
      <4>. QED
        BY <2>2, <3>2, <4>1
    <3>. QED
      BY <3>1, <3>2
  <2>. QED
    BY <2>1, <2>2, Verdicts
<1>3. /\ \A j \in 1 .. 7 : j # 4 /\ j # 5 => Station'[j] = Station[j]
      /\ Station'[4] \subseteq Station[4] /\ Station[4] \ {x} \subseteq Station'[4]
      /\ Station'[5] \subseteq Station[5] \cup {x}
      /\ FPDrop(fp) => x \notin Station'[4]
      /\ ~FPForward(fp) => Station'[5] = Station[5]
  <2>1. CASE Moves(4, x) /\ FPForward(fp) /\ ~FPDrop(fp)
    BY <1>0, <2>1 DEF Moves
  <2>2. CASE Leaves(4, x)
    BY <1>0, <2>2 DEF Leaves
  <2>3. CASE Station' = Station /\ FPUndecided(fp) /\ ~FPDrop(fp)
    BY <2>3
  <2>. QED
    BY <1>2, <2>1, <2>2, <2>3
<1>4. /\ \A a, b \in 1 .. 7 : \A p \in Station[a], q \in Station[b] :
             a < b /\ Flow(p) = Flow(q) => q < p
      /\ \A a \in 1 .. 7 : \A p \in Station[a] : p <= total
      /\ \A a \in 1 .. 7 : Station[a] \subseteq Ids
      /\ Ids \subseteq Nat /\ total \in Nat
  BY DEF OrderInv, LineInv, Station, Stops, TypeOK, Ids
<1>5. x \in Nat /\ x <= total /\ ~(x < x)
  BY <1>1, <1>4
<1>6. Pending(x)
  BY <1>1 DEF Pending
<1>7. \A j \in 1 .. 3 : x \notin Station[j]
  BY <1>1, <1>4, <1>5
<1>8. ASSUME NEW p \in Ids, Flow(p) = Flow(x) PROVE Pending(p) => x <= p
  <2>1. p \in Nat
    BY <1>4
  <2>2. CASE p > total
    BY <1>4, <1>5, <2>1, <2>2
  <2>3. ASSUME NEW j \in 1 .. 4, p \in Station[j] PROVE x <= p
    <3>1. CASE j = 4
      BY <1>1, <1>8, <2>3, <3>1
    <3>2. CASE j # 4
      <4>1. j \in 1 .. 7 /\ j < 4
        BY <3>2
      <4>2. x < p
        BY <1>1, <1>4, <1>8, <2>3, <4>1
      <4>. QED
        BY <1>5, <2>1, <4>2
    <3>. QED
      BY <3>1, <3>2
  <2>. QED
    BY <2>2, <2>3 DEF Pending
<1>9. ASSUME NEW p \in Ids, Flow(p) = Flow(x) PROVE ~Pending(p) => p < x
  BY <1>1, <1>6, <1>9 DEF JudgedInv
<1>10. ASSUME NEW p \in Ids, Flow(p) = Flow(x) PROVE Past(p) => p < x
  <2>1. ASSUME NEW k \in 5 .. 7, p \in Station[k] PROVE p < x
    <3>1. k \in 1 .. 7 /\ 4 < k
      OBVIOUS
    <3>. QED
      BY <1>1, <1>4, <1>10, <2>1, <3>1
  <2>. QED
    BY <2>1 DEF Past
<1>11. ASSUME NEW p \in Ids, Flow(p) = Flow(x) PROVE Seen(p) => p <= x
  <2>1. CASE ~Pending(p)
    <3>1. p < x
      BY <1>9, <1>11, <2>1
    <3>. QED
      BY <1>4, <1>5, <3>1
  <2>2. CASE hand[Home(Flow(p))] = p
    BY <1>1, <1>5, <1>11, <2>2
  <2>. QED
    BY <2>1, <2>2 DEF Seen
<1>12. ASSUME NEW p \in Ids
       PROVE  /\ Pending(p)' => Pending(p)
              /\ ~Pending(p)' => ~Pending(p) \/ p = x
  <2>1. /\ \A j \in 1 .. 3 : Station'[j] = Station[j]
        /\ \A j \in 1 .. 4 : j = 4 \/ j \in 1 .. 3
        /\ \A j \in 1 .. 3 : j \in 1 .. 4
    BY <1>3
  <2>2. /\ (\E k \in 1 .. 4 : p \in Station'[k]) => \E k \in 1 .. 4 : p \in Station[k]
        /\ (\E k \in 1 .. 4 : p \in Station[k]) /\ p # x
               => \E k \in 1 .. 4 : p \in Station'[k]
    BY <1>3, <2>1
  <2>. QED
    BY <1>0, <2>2 DEF Pending
<1>13. FPDrop(fp) => ~Pending(x)'
  <2>1. \A j \in 1 .. 4 : j = 4 \/ (j \in 1 .. 3 /\ Station'[j] = Station[j])
    BY <1>3
  <2>2. FPDrop(fp) => \A j \in 1 .. 4 : x \notin Station'[j]
    BY <1>3, <1>7, <2>1
  <2>3. ~(x > total)
    BY <1>4, <1>5
  <2>. QED
    BY <1>0, <2>2, <2>3 DEF Pending
<1>14. ASSUME NEW p \in Ids, Past(p)', ~Past(p) PROVE p = x /\ FPForward(fp)
  <2>1. PICK k \in 5 .. 7 : p \in Station'[k] /\ p \notin Station[k]
    BY <1>14 DEF Past
  <2>2. k = 5
    BY <1>3, <2>1
  <2>. QED
    BY <1>3, <2>1, <2>2
<1>15. Seen(x)'
  <2>1. Home(Flow(x))' = fp
    BY <1>0, <1>1, CaptureKept
  <2>2. CASE FPUndecided(fp)
    <3>1. lock'[fp] # "none"
      <4>1. PICK y \in Ids, f \in Tuples, e \in Entries :
                \E c \in Tracker(fp)!Looked(f) : Outcome(fp, y, f, e, c)
        BY Inspection
      <4>2. pc'[fp] = "inspect"
        BY <1>0, <2>2 DEF FPUndecided, Goes
      <4>3. ~FPDrop(fp) /\ ~FPForward(fp)
        BY <1>0, <4>2 DEF FPDrop, FPForward, Goes
      <4>. QED
        BY <4>1, <4>3 DEF Outcome
    <3>2. hand'[fp] = x
      BY <2>2 DEF FPUndecided
    <3>. QED
      BY <2>1, <3>1, <3>2 DEF Seen
  <2>3. CASE ~FPUndecided(fp)
    <3>1. x \notin Station'[4]
      <4>1. CASE Moves(4, x)
        BY <1>0, <4>1 DEF Moves
      <4>2. CASE Leaves(4, x)
        BY <1>0, <4>2 DEF Leaves
      <4>. QED
        BY <1>2, <2>3, <4>1, <4>2
    <3>2. \A j \in 1 .. 4 : j = 4 \/ (j \in 1 .. 3 /\ Station'[j] = Station[j])
      BY <1>3
    <3>3. \A j \in 1 .. 4 : x \notin Station'[j]
      BY <1>7, <3>1, <3>2
    <3>4. ~(x > total)
      BY <1>4, <1>5
    <3>5. ~Pending(x)'
      BY <1>0, <3>3, <3>4 DEF Pending
    <3>. QED
      BY <3>5 DEF Seen
  <2>. QED
    BY <2>2, <2>3
<1>16. ASSUME NEW p \in Ids, Seen(p) PROVE Seen(p)'
  <2>. DEFINE g == Home(Flow(p))
  <2>0. g \in FPs /\ Home(Flow(p))' = g
    BY <1>0, Routes, CaptureKept
  <2>1. CASE ~Pending(p)
    BY <1>12, <2>1 DEF Seen
  <2>2. CASE lock[g] # "none" /\ hand[g] = p /\ g = fp
    BY <1>15, <2>2
  <2>3. CASE lock[g] # "none" /\ hand[g] = p /\ g # fp
    <3>1. lock'[g] = lock[g]
      BY <2>0, <2>3, Inspection DEF Outcome
    <3>2. hand'[g] = hand[g]
      BY <2>0, <2>3, Verdicts, Apart DEF FPDrop, FPForward, FPUndecided, TypeOK
    <3>. HIDE DEF g
    <3>3. lock'[g] # "none" /\ hand'[g] = p
      BY <2>3, <3>1, <3>2
    <3>. QED
      BY <2>0, <3>3 DEF Seen
  <2>. QED
    BY <1>16, <2>1, <2>2, <2>3 DEF Seen
<1>. QED
  BY <1>1, <1>6, <1>8, <1>9, <1>10, <1>11, <1>12, <1>13, <1>14, <1>15, <1>16

\* So the verdicts stay in the order of the capture.
LEMMA JudgedNext ==
    ASSUME TypeOK, OrderInv, LockInv, JudgedInv, NEW fp \in FPs, FPInspect(fp)
    PROVE  JudgedInv'
<1>0. PICK x : x = hand[fp]
  OBVIOUS
<1>1. /\ x \in Ids
      /\ \A p \in Ids : Flow(p) = Flow(x) => (Pending(p) => x <= p)
      /\ \A p \in Ids : Pending(p)' => Pending(p)
      /\ \A p \in Ids : ~Pending(p)' => ~Pending(p) \/ (p = x /\ ~Pending(x)')
  BY <1>0, Judging
<1>2. Ids \subseteq Nat
  BY DEF Ids
<1>3. Ids' = Ids /\ \A k : Flow(k)' = Flow(k)
  <2>1. capture' = capture
    BY DEF FPInspect
  <2>. QED
    BY <2>1, CaptureKept
<1>4. ASSUME NEW p \in Ids, NEW q \in Ids, Pending(p)', ~Pending(q)',
             Flow(p) = Flow(q)
      PROVE  q < p
  <2>1. Pending(p)
    BY <1>1, <1>4
  <2>2. CASE q = x /\ p # x
    <3>1. x <= p
      BY <1>1, <1>4, <2>1, <2>2
    <3>. QED
      BY <1>1, <1>2, <2>1, <2>2, <3>1
  <2>4. CASE p = x /\ q = x
    BY <1>4, <2>4
  <2>3. CASE q # x
    BY <1>1, <1>4, <2>1, <2>3 DEF JudgedInv
  <2>. QED
    BY <2>2, <2>3, <2>4
<1>. QED
  BY <1>3, <1>4 DEF JudgedInv

\* What a step of a verdict on packet x, of flow f, does to the tables: the
\* flow's entry, old before or new, becomes e, and all but those kept are lost.
Judgement(fp, x, f, e, old, kept) ==
    /\ x = hand[fp] /\ f = Flow(x) /\ Home(f) = fp
    /\ \A g \in FPs \ {fp} : conns'[g] = conns[g]
    /\ DOMAIN conns'[fp] = kept \cup {f} /\ conns'[fp][f] = e
    /\ \A u \in kept \ {f} : /\ u \in DOMAIN conns[fp]
                             /\ conns'[fp][u] = conns[fp][u]
    /\ f \in DOMAIN conns[fp] => old = conns[fp][f]
    /\ f \notin DOMAIN conns[fp] => ~old.fin
    /\ Cardinality(Tuples) <= MaxConnections => DOMAIN conns[fp] \subseteq kept
    /\ FPDrop(fp) => e.state = "BLOCKED"
    /\ e.fin => old.fin \/ "FIN" \in capture[x].flags
    /\ old.state = "BLOCKED" /\ ~Closing(old, capture[x]) => FPDrop(fp)

\* Every step of a verdict is one of those.
LEMMA Verdict ==
    ASSUME TypeOK, OrderInv, LockInv, NEW fp \in FPs, FPInspect(fp)
    PROVE  \E x \in Ids, f \in Tuples, e \in Entries :
           \E old \in Entries, kept \in SUBSET Tuples :
               Judgement(fp, x, f, e, old, kept)
<1>1. PICK x \in Ids, f \in Tuples, e \in Entries :
          \E c \in Tracker(fp)!Looked(f) : Outcome(fp, x, f, e, c)
  BY Inspection
<1>2. PICK c \in Tracker(fp)!Looked(f) : Outcome(fp, x, f, e, c)
  BY <1>1
<1>3. /\ Table(c) /\ f \in DOMAIN c
      /\ f \in DOMAIN conns[fp] => c = conns[fp]
      /\ f \notin DOMAIN conns[fp] => ~c[f].fin
      /\ DOMAIN c \subseteq DOMAIN conns[fp] \cup {f}
      /\ \A u \in DOMAIN c \ {f} : c[u] = conns[fp][u]
      /\ Cardinality(Tuples) <= MaxConnections =>
             DOMAIN conns[fp] \subseteq DOMAIN c
  BY LookedTable
<1>. DEFINE old == c[f]
            kept == DOMAIN c
            d == [c EXCEPT ![f] = e]
<1>4. /\ x = hand[fp] /\ f = Flow(x) /\ pc[fp] = "inspect"
      /\ old \in Entries
      /\ conns'[fp] = d /\ \A g \in FPs \ {fp} : conns'[g] = conns[g]
      /\ e.fin => old.fin \/ "FIN" \in capture[x].flags
      /\ old.state = "BLOCKED" /\ ~Closing(old, capture[x]) => FPDrop(fp)
  BY <1>2 DEF Outcome
<1>5. FPDrop(fp) => e.state = "BLOCKED"
  <2>1. FPDrop(fp) => ~FPForward(fp) /\ ~FPUndecided(fp)
    BY Apart DEF FPDrop, FPForward, FPUndecided, Goes, TypeOK
  <2>. QED
    BY <1>2, <2>1 DEF Outcome
<1>6. /\ DOMAIN d = kept /\ d[f] = e
      /\ \A u \in kept \ {f} : d[u] = c[u]
  BY <1>3
<1>7. Home(f) = fp
  BY <1>4 DEF OrderInv, RoutedInv
<1>8. kept \in SUBSET Tuples /\ kept \cup {f} = kept
  BY <1>3 DEF Table
<1>9. /\ f \in DOMAIN conns[fp] => old = conns[fp][f]
      /\ f \notin DOMAIN conns[fp] => ~old.fin
      /\ Cardinality(Tuples) <= MaxConnections =>
             DOMAIN conns[fp] \subseteq kept
      /\ \A u \in kept \ {f} : u \in DOMAIN conns[fp] /\ c[u] = conns[fp][u]
  BY <1>3
<1>. HIDE DEF old, kept, d
<1>10. /\ DOMAIN conns'[fp] = kept \cup {f} /\ conns'[fp][f] = e
       /\ \A u \in kept \ {f} : /\ u \in DOMAIN conns[fp]
                                /\ conns'[fp][u] = conns[fp][u]
  BY <1>4, <1>6, <1>8, <1>9
<1>11. Judgement(fp, x, f, e, old, kept)
  BY <1>4, <1>5, <1>7, <1>9, <1>10 DEF Judgement
<1>. QED
  BY <1>4, <1>8, <1>11

\* A FIN that an entry remembers was seen.
LEMMA EntryNext ==
    ASSUME TypeOK, OrderInv, LockInv, JudgedInv, EntryInv, NEW fp \in FPs,
           FPInspect(fp)
    PROVE  EntryInv'
<1>1. PICK x \in Ids, f \in Tuples, e \in Entries :
          \E old \in Entries, kept \in SUBSET Tuples :
              Judgement(fp, x, f, e, old, kept)
  BY Verdict
<1>2. PICK old \in Entries, kept \in SUBSET Tuples :
          Judgement(fp, x, f, e, old, kept)
  BY <1>1
<1>3. (\A p \in Ids : Seen(p) => Seen(p)') /\ Seen(x)'
  BY <1>2, Judging DEF Judgement
<1>4. /\ Ids' = Ids /\ capture' = capture
      /\ \A k : Flow(k)' = Flow(k)
      /\ \A u : Home(u)' = Home(u)
  <2>1. capture' = capture
    BY DEF FPInspect
  <2>. QED
    BY <2>1, CaptureKept
<1>5. \A u : FinSeen(u) => FinSeen(u)'
  BY <1>3, <1>4 DEF FinSeen
<1>6. "FIN" \in capture[x].flags => FinSeen(f)'
  BY <1>2, <1>3, <1>4 DEF FinSeen, Judgement
<1>7. \A g \in FPs : \A t \in DOMAIN conns[g] :
          Home(t) = g /\ (conns[g][t].fin => FinSeen(t))
  BY DEF EntryInv
<1>8. ASSUME NEW g \in FPs, NEW t \in DOMAIN conns'[g]
      PROVE  Home(t) = g /\ (conns'[g][t].fin => FinSeen(t)')
  <2>1. CASE g # fp
    BY <1>2, <1>5, <1>7, <2>1 DEF Judgement
  <2>2. CASE g = fp /\ t # f
    BY <1>2, <1>5, <1>7, <2>2 DEF Judgement
  <2>3. CASE g = fp /\ t = f
    <3>1. old.fin => FinSeen(f)
      BY <1>2, <1>7 DEF Judgement
    <3>. QED
      BY <1>2, <1>5, <1>6, <2>3, <3>1 DEF Judgement
  <2>. QED
    BY <2>1, <2>2, <2>3
<1>. QED
  BY <1>4, <1>8 DEF EntryInv

\* A verdict keeps what is known of the flows that were cut: a packet of a
\* blocked flow is dropped unless it closes the flow.
LEMMA CutNext ==
    ASSUME TypeOK, OrderInv, LockInv, JudgedInv, EntryInv, CutInv,
           NEW fp \in FPs, FPInspect(fp)
    PROVE  CutInv'
<1>. SUFFICES ASSUME Cardinality(Tuples) <= MaxConnections PROVE CutInv'
  BY DEF CutInv
<1>1. PICK x \in Ids, f \in Tuples, e \in Entries :
          \E old \in Entries, kept \in SUBSET Tuples :
              Judgement(fp, x, f, e, old, kept)
  BY Verdict
<1>2. PICK old \in Entries, kept \in SUBSET Tuples :
          Judgement(fp, x, f, e, old, kept)
  BY <1>1
<1>. DEFINE drop == FPDrop(fp)
<1>0. /\ x = hand[fp] /\ f = Flow(x) /\ Home(f) = fp
      /\ \A g \in FPs \ {fp} : conns'[g] = conns[g]
      /\ DOMAIN conns'[fp] = kept \cup {f} /\ conns'[fp][f] = e
      /\ \A u \in kept \ {f} : /\ u \in DOMAIN conns[fp]
                               /\ conns'[fp][u] = conns[fp][u]
      /\ f \in DOMAIN conns[fp] => old = conns[fp][f]
      /\ DOMAIN conns[fp] \subseteq kept
      /\ drop => e.state = "BLOCKED"
      /\ old.state = "BLOCKED" /\ ~Closing(old, capture[x]) => drop
  BY <1>2 DEF Judgement
<1>3. /\ Pending(x)
      /\ \A p \in Ids : Flow(p) = Flow(x) =>
             /\ ~Pending(p) => p < x
             /\ Past(p) => p < x
             /\ Seen(p) => p <= x
      /\ \A p \in Ids : Pending(p)' => Pending(p)
      /\ drop => ~Pending(x)'
      /\ \A p \in Ids : Past(p)' => Past(p) \/ (p = x /\ FPForward(fp))
      /\ \A p \in Ids : Seen(p) => Seen(p)'
      /\ Seen(x)'
  BY <1>0, Judging
<1>4. capture' = capture
  BY DEF FPInspect
<1>5. /\ Ids' = Ids /\ Ids \subseteq Nat
      /\ \A k : Flow(k)' = Flow(k)
      /\ \A u : Home(u)' = Home(u)
      /\ \A k : Closes(k)' <=> Closes(k)
      /\ \A p, q : ClosedBy(p, q)' <=> ClosedBy(p, q)
  BY <1>4, CaptureKept DEF Ids
<1>6. /\ cut \subseteq Ids
      /\ drop => cut' = cut \cup {x}
      /\ ~drop => cut' = cut
  BY <1>0, Verdicts DEF TypeOK, FPDrop, FPForward, FPUndecided
<1>7. \A p \in cut :
          /\ ~Pending(p)
          /\ Blocked(Flow(p)) \/ ClosedSince(p)
          /\ \A q \in Ids :
                 Past(q) /\ Flow(p) = Flow(q) /\ p < q => ClosedBy(p, q)
  BY DEF CutInv
<1>. HIDE DEF drop
<1>8. \A p \in Ids : ClosedSince(p) => ClosedSince(p)'
  BY <1>3, <1>5 DEF ClosedSince
\* The table after the step.
<1>9. ASSUME NEW u \in Tuples, u # f, Home(u) \in FPs, Blocked(u)
      PROVE  Blocked(u)'
  <2>1. u \in DOMAIN conns[Home(u)] /\ conns[Home(u)][u].state = "BLOCKED"
    BY <1>9 DEF Blocked
  <2>2. u \in DOMAIN conns'[Home(u)] /\ conns'[Home(u)][u].state = "BLOCKED"
    <3>1. CASE Home(u) = fp
      BY <1>0, <1>9, <2>1, <3>1
    <3>2. CASE Home(u) # fp
      BY <1>0, <1>9, <2>1, <3>2
    <3>. QED
      BY <3>1, <3>2
  <2>. QED
    BY <1>5, <2>2 DEF Blocked
<1>10. drop => Blocked(f)'
  BY <1>0, <1>5 DEF Blocked
\* A blocked flow goes on only with a packet that closes it.
<1>11. ASSUME Blocked(f), ~drop PROVE Closes(x)
  <2>1. /\ f \in DOMAIN conns[fp] /\ old = conns[fp][f]
        /\ old.state = "BLOCKED"
    BY <1>0, <1>11 DEF Blocked
  <2>2. Closing(old, capture[x])
    BY <1>0, <1>11, <2>1
  <2>3. /\ Flow(x) \in TcpTuples
        /\ \/ "RST" \in capture[x].flags
           \/ "ACK" \in capture[x].flags
              /\ ("FIN" \in capture[x].flags \/ old.fin)
    BY <2>2 DEF Closing, Flow
  <2>4. old.fin => \E j \in 1 .. x : Flow(j) = Flow(x) /\ "FIN" \in capture[j].flags
    <3>. SUFFICES ASSUME old.fin
                  PROVE  \E j \in 1 .. x :
                             Flow(j) = Flow(x) /\ "FIN" \in capture[j].flags
      OBVIOUS
    <3>1. FinSeen(f)
      BY <2>1 DEF EntryInv
    <3>2. PICK j \in Ids : Flow(j) = f /\ Seen(j) /\ "FIN" \in capture[j].flags
      BY <3>1 DEF FinSeen
    <3>3. j <= x
      BY <1>0, <1>3, <3>2
    <3>4. j \in 1 .. x
      BY <3>3 DEF Ids
    <3>. QED
      BY <1>0, <3>2, <3>4
  <2>5. x \in 1 .. x
    BY DEF Ids
  <2>. QED
    BY <2>3, <2>4, <2>5 DEF Closes
\* The three conjuncts.
<1>12. ASSUME NEW p \in cut', Flow(p) = f, ~drop
       PROVE  /\ p \in cut /\ p < x
              /\ \E k \in Ids : /\ p < k /\ k <= x /\ Flow(k) = f /\ Closes(k)
                                /\ Seen(k) \/ k = x
  <2>1. p \in cut /\ p \in Ids /\ ~Pending(p)
    BY <1>6, <1>7, <1>12
  <2>2. p < x
    BY <1>0, <1>3, <1>12, <2>1
  <2>3. CASE Blocked(f)
    <3>1. x <= x
      BY <1>5
    <3>. QED
      BY <1>0, <1>11, <1>12, <2>1, <2>2, <2>3, <3>1
  <2>4. CASE ClosedSince(p)
    <3>1. PICK k \in Ids :
              p < k /\ Flow(k) = Flow(p) /\ Seen(k) /\ Closes(k)
      BY <2>4 DEF ClosedSince
    <3>2. k <= x
      BY <1>0, <1>3, <1>12, <3>1
    <3>. QED
      BY <1>12, <2>1, <2>2, <3>1, <3>2
  <2>. QED
    BY <1>7, <1>12, <2>1, <2>3, <2>4
<1>13. ASSUME NEW p \in cut' PROVE ~Pending(p)' /\ p \in Ids
  BY <1>3, <1>6, <1>7
<1>14. ASSUME NEW p \in cut' PROVE Blocked(Flow(p))' \/ ClosedSince(p)'
  <2>0. p \in Ids /\ Flow(p)' = Flow(p) /\ Flow(p) \in Tuples /\ Home(Flow(p)) \in FPs
    BY <1>5, <1>13, Routes, PacketType
  <2>1. CASE Flow(p) = f /\ drop
    <3>1. Blocked(f)'
      BY <1>10, <2>1
    <3>. QED
      BY <1>5, <2>0, <2>1, <3>1 DEF Blocked
  <2>2. CASE Flow(p) = f /\ ~drop
    <3>1. PICK k \in Ids : /\ p < k /\ Flow(k) = f /\ Closes(k)
                           /\ Seen(k) \/ k = x
      BY <1>12, <2>2
    <3>2. Seen(k)'
      BY <1>3, <3>1
    <3>. QED
      BY <1>5, <2>2, <3>1, <3>2 DEF ClosedSince
  <2>3. CASE Flow(p) # f
    <3>1. p \in cut
      BY <1>0, <1>6, <2>3
    <3>2. CASE Blocked(Flow(p))
      <4>. DEFINE u == Flow(p)
      <4>1. Blocked(u)'
        BY <1>9, <2>0, <2>3, <3>2
      <4>. QED
        BY <1>5, <2>0, <4>1 DEF Blocked
    <3>3. CASE ClosedSince(p)
      BY <1>8, <2>0, <3>3
    <3>. QED
      BY <1>7, <3>1, <3>2, <3>3
  <2>. QED
    BY <2>1, <2>2, <2>3
<1>15. ASSUME NEW p \in cut', NEW q \in Ids, Past(q)', Flow(p) = Flow(q), p < q
       PROVE  ClosedBy(p, q)
  <2>1. CASE p \in cut /\ Past(q)
    BY <1>7, <1>15, <2>1
  <2>2. CASE q = x /\ ~drop
    <3>1. PICK k \in Ids : p < k /\ k <= x /\ Flow(k) = f /\ Closes(k)
      BY <1>0, <1>12, <1>15, <2>2
    <3>0. p \in Nat /\ k \in Nat /\ q \in Nat
      BY <1>5, <1>13
    <3>2. k \in p + 1 .. q
      BY <2>2, <3>0, <3>1
    <3>. QED
      BY <1>0, <1>15, <2>2, <3>1, <3>2 DEF ClosedBy
  <2>3. CASE p = x /\ Past(q)
    <3>1. q < x
      BY <1>3, <1>15, <2>3
    <3>. QED
      BY <1>5, <1>15, <2>3, <3>1
  <2>4. CASE p = x /\ q = x
    BY <1>5, <1>15, <2>4
  <2>5. Past(q) \/ (q = x /\ ~drop)
    <3>1. FPForward(fp) => ~drop
      BY DEF drop, FPForward, FPDrop, TypeOK
    <3>. QED
      BY <1>3, <1>15, <3>1
  <2>6. p \in cut \/ (p = x /\ drop)
    BY <1>6
  <2>. QED
    BY <1>6, <2>1, <2>2, <2>3, <2>5, <2>6
<1>. QED
  BY <1>5, <1>13, <1>14, <1>15 DEF CutInv

\* At the start nothing was judged.
LEMMA CutInit == Init => JudgedInv /\ EntryInv /\ CutInv
<1>. SUFFICES ASSUME Init PROVE JudgedInv /\ EntryInv /\ CutInv
  OBVIOUS
<1>1. total = 0 /\ cut = {} /\ \A fp \in FPs : conns[fp] = <<>>
  BY DEF Init
<1>2. \A p \in Ids : Pending(p)
  BY <1>1 DEF Pending, Ids
<1>. QED
  BY <1>1, <1>2 DEF JudgedInv, EntryInv, CutInv

\* The tables, the order of the verdicts and the cuts, in every state.
LEMMA TablesAndCuts == Spec => [](JudgedInv /\ EntryInv /\ CutInv)
<1>1. ASSUME TypeOK, StopInv, OrderInv, LockInv, JudgedInv, EntryInv, CutInv,
             [Next]_vars
      PROVE  JudgedInv' /\ EntryInv' /\ CutInv'
  <2>1. CASE \E fp \in FPs : FPInspect(fp)
    BY <1>1, <2>1, JudgedNext, EntryNext, CutNext
  <2>2. CASE \A fp \in FPs : ~FPInspect(fp)
    BY <1>1, <2>2, QuietCut
  <2>. QED
    BY <2>1, <2>2
<1>. QED
  BY <1>1, CutInit, OrderHolds, LocksHold, TypeCorrect, PTL DEF Spec

\* Whatever the API does to the rules and however the packets are spread over
\* the threads, a flow that was cut stays out of the file until one of its
\* packets closes it, if every table has room for every flow.
THEOREM CutsHold == Spec => []CutUntilClosed
<1>1. TypeOK /\ CutInv => CutUntilClosed
  <2>. SUFFICES ASSUME TypeOK, CutInv, Cardinality(Tuples) <= MaxConnections,
                       NEW p \in cut, NEW i \in DOMAIN written,
                       Flow(p) = Flow(written[i]), p < written[i]
                PROVE  \E k \in p + 1 .. written[i] : Flow(k) = Flow(p) /\ Closes(k)
    BY DEF CutUntilClosed, Closes
  <2>. DEFINE q == written[i]
  <2>1. q \in Ids /\ q \in Range(written)
    BY DEF TypeOK, Range
  <2>2. Past(q)
    <3>1. At(q, 7) /\ 7 \in 5 .. 7 /\ 7 \in Stops
      BY <2>1, Standing DEF Stops
    <3>2. q \in Station[7]
      BY <2>1, <3>1 DEF Station
    <3>. QED
      BY <3>1, <3>2 DEF Past
  <2>. HIDE DEF q
  <2>3. ClosedBy(p, q)
    BY <2>1, <2>2 DEF CutInv, q
  <2>. QED
    BY <2>3 DEF ClosedBy, q
<1>. QED
  BY <1>1, TablesAndCuts, TypeCorrect, PTL

-----------------------------------------------------------------------------
(* Every packet is accounted for: the counters of the report and the        *)
(* packets in queues, in hands and in the file (Accounting).                *)

\* Sums of finitely many natural numbers.
Cells(f) == UNION {{x} \X (1 .. f[x]) : x \in DOMAIN f}

\* The cells of a sum are finitely many, f[x] of them for each x.
LEMMA SumFinite ==
    ASSUME NEW S, IsFiniteSet(S), NEW f \in [S -> Nat]
    PROVE  /\ IsFiniteSet(Cells(f)) /\ Sum(f) = Cardinality(Cells(f))
           /\ Sum(f) \in Nat
           /\ \A x, i : <<x, i>> \in Cells(f) <=> x \in S /\ i \in 1 .. f[x]
<1>. DEFINE cell == [x \in S |-> {x} \X (1 .. f[x])]
            All == {cell[x] : x \in S}
<1>1. DOMAIN f = S
  OBVIOUS
<1>2. IsFiniteSet(All)
  <2>1. cell \in Surjection(S, All)
    BY DEF Surjection
  <2>. QED
    BY <2>1, FS_Surjection
<1>3. ASSUME NEW x \in S PROVE IsFiniteSet(cell[x])
  <2>1. f[x] \in Int /\ IsFiniteSet(1 .. f[x])
    BY FS_Interval
  <2>2. IsFiniteSet({x})
    BY FS_Singleton
  <2>. QED
    BY <2>1, <2>2, FS_Product
<1>4. IsFiniteSet(UNION All)
  BY <1>2, <1>3, FS_UNION
<1>5. Cells(f) = UNION All
  BY <1>1 DEF Cells
<1>6. Sum(f) = Cardinality(Cells(f))
  BY DEF Sum, Cells
<1>7. \A x, i : <<x, i>> \in Cells(f) <=> x \in S /\ i \in 1 .. f[x]
  BY <1>1 DEF Cells
<1>. QED
  BY <1>4, <1>5, <1>6, <1>7, FS_CardinalityType

\* One more at x is one more in the sum.
LEMMA SumUp ==
    ASSUME NEW S, IsFiniteSet(S), NEW f \in [S -> Nat], NEW x \in S
    PROVE  Sum([f EXCEPT ![x] = @ + 1]) = Sum(f) + 1
<1>. DEFINE g == [f EXCEPT ![x] = @ + 1]
            c == <<x, f[x] + 1>>
<1>1. g \in [S -> Nat] /\ f[x] \in Nat /\ g[x] = f[x] + 1
      /\ \A y \in S \ {x} : g[y] = f[y]
  OBVIOUS
<1>. HIDE DEF g
<1>0. /\ \A y, i : <<y, i>> \in Cells(f) <=> y \in S /\ i \in 1 .. f[y]
      /\ IsFiniteSet(Cells(f)) /\ Sum(f) = Cardinality(Cells(f))
  BY SumFinite
<1>00. /\ \A y, i : <<y, i>> \in Cells(g) <=> y \in S /\ i \in 1 .. g[y]
       /\ Sum(g) = Cardinality(Cells(g))
  BY <1>1, SumFinite
<1>2. \A y, i : <<y, i>> \in Cells(g) <=> <<y, i>> \in Cells(f) \/ (y = x /\ i = f[x] + 1)
  <2>1. \A i : i \in 1 .. g[x] <=> i \in 1 .. f[x] \/ i = f[x] + 1
    BY <1>1
  <2>. QED
    BY <1>0, <1>00, <1>1, <2>1
<1>3. \A z : z \in Cells(f) \/ z \in Cells(g) => \E y, i : z = <<y, i>>
  BY DEF Cells
<1>4. Cells(g) = Cells(f) \cup {c}
  BY <1>2, <1>3
<1>5. c \notin Cells(f)
  BY <1>0, <1>1
<1>6. Cardinality(Cells(g)) = Cardinality(Cells(f)) + 1
  <2>. DEFINE A == Cells(f)
  <2>1. IsFiniteSet(A) /\ c \notin A
    BY <1>0, <1>5
  <2>. HIDE DEF A, c
  <2>2. Cardinality(A \cup {c}) = Cardinality(A) + 1
    BY <2>1, FS_AddElement
  <2>. QED
    BY <1>4, <2>2 DEF A
<1>. QED
  BY <1>0, <1>00, <1>6 DEF g

\* One less at x is one less in the sum.
LEMMA SumDown ==
    ASSUME NEW S, IsFiniteSet(S), NEW f \in [S -> Nat], NEW x \in S, f[x] > 0
    PROVE  Sum([f EXCEPT ![x] = @ - 1]) = Sum(f) - 1
<1>. DEFINE g == [f EXCEPT ![x] = @ - 1]
<1>1. g \in [S -> Nat] /\ f = [g EXCEPT ![x] = @ + 1]
  <2>1. f[x] \in Nat /\ f[x] - 1 \in Nat /\ f[x] - 1 + 1 = f[x]
    OBVIOUS
  <2>2. /\ g \in [S -> Nat] /\ g[x] = f[x] - 1
        /\ \A y \in S \ {x} : g[y] = f[y]
    BY <2>1
  <2>. HIDE DEF g
  <2>3. \A y \in S : f[y] = [g EXCEPT ![x] = @ + 1][y]
    BY <2>1, <2>2
  <2>. QED
    BY <2>2, <2>3
<1>. HIDE DEF g
<1>2. Sum(f) = Sum(g) + 1
  BY <1>1, SumUp
<1>3. Sum(g) \in Nat
  BY <1>1, SumFinite
<1>. QED
  BY <1>2, <1>3 DEF g

\* A sum of zeros is zero.
LEMMA SumZero ==
    ASSUME NEW S, IsFiniteSet(S)
    PROVE  Sum([x \in S |-> 0]) = 0
<1>. DEFINE f == [x \in S |-> 0]
<1>1. f \in [S -> Nat] /\ \A x \in S : f[x] = 0
  OBVIOUS
<1>. HIDE DEF f
<1>2. Cells(f) = {}
  <2>1. \A z \in Cells(f) : \E x, i : z = <<x, i>>
    BY DEF Cells
  <2>. QED
    BY <1>1, <2>1, SumFinite
<1>. QED
  BY <1>1, <1>2, SumFinite, FS_EmptySet DEF f

\* What the packets in queues and in hands come to.
InQueues(T) == Sum([t \in T |-> Len(queue[t])])
\* The threads at a place.
Holders(T, place) == {t \in T : pc[t] = place}
\* How many they are.
Holding(T, place) == Cardinality(Holders(T, place))

\* There are finitely many threads.
LEMMA FiniteThreads ==
    /\ IsFiniteSet(Threads) /\ IsFiniteSet(LBs) /\ IsFiniteSet(FPs)
    /\ FPs \subseteq Threads /\ LBs \subseteq Threads
  BY Shape, LegacyAssumption, FS_Interval DEF Threads, LBs, FPs, Output

\* One packet more, or one less, in a queue.
LEMMA QueueChange ==
    ASSUME TypeOK, NEW t \in Threads, NEW T \in SUBSET Threads,
           NEW x \in Ids
    PROVE  /\ InQueues(T) \in Nat
           /\ queue' = [queue EXCEPT ![t] = Append(queue[t], x)]
              => /\ InQueues(T)' = InQueues(T) + (IF t \in T THEN 1 ELSE 0)
                 /\ Len(queue'[t]) = Len(queue[t]) + 1
           /\ queue[t] # <<>> /\ queue' = [queue EXCEPT ![t] = Tail(queue[t])]
              => /\ InQueues(T)' = InQueues(T) - (IF t \in T THEN 1 ELSE 0)
                 /\ Len(queue'[t]) = Len(queue[t]) - 1
<1>. DEFINE f == [u \in T |-> Len(queue[u])]
            g == [u \in T |-> Len(queue'[u])]
<1>1. queue \in [Threads -> Seq(Ids)]
  BY DEF TypeOK
<1>2. f \in [T -> Nat] /\ IsFiniteSet(T)
  <2>1. IsFiniteSet(T)
    BY FiniteThreads, FS_Subset
  <2>. QED
    BY <1>1, <2>1
<1>3. InQueues(T) = Sum(f) /\ InQueues(T)' = Sum(g)
  BY DEF InQueues, Sum
<1>4. Sum(f) \in Nat
  BY <1>2, SumFinite
<1>5. ASSUME queue' = [queue EXCEPT ![t] = Append(queue[t], x)]
      PROVE  /\ Sum(g) = Sum(f) + (IF t \in T THEN 1 ELSE 0)
             /\ Len(queue'[t]) = Len(queue[t]) + 1
  <2>1. Len(queue'[t]) = Len(queue[t]) + 1 /\ \A u \in T \ {t} : queue'[u] = queue[u]
    BY <1>1, <1>5
  <2>2. CASE t \in T
    <3>1. g = [f EXCEPT ![t] = @ + 1]
      BY <2>1, <2>2
    <3>. HIDE DEF f, g
    <3>. QED
      BY <1>2, <2>1, <2>2, <3>1, SumUp
  <2>3. CASE t \notin T
    <3>1. g = f
      BY <2>1, <2>3
    <3>. QED
      BY <1>4, <2>1, <2>3, <3>1
  <2>. QED
    BY <2>2, <2>3
<1>6. ASSUME queue[t] # <<>>, queue' = [queue EXCEPT ![t] = Tail(queue[t])]
      PROVE  /\ Sum(g) = Sum(f) - (IF t \in T THEN 1 ELSE 0)
             /\ Len(queue'[t]) = Len(queue[t]) - 1
  <2>1. /\ Len(queue'[t]) = Len(queue[t]) - 1 /\ Len(queue[t]) > 0
        /\ \A u \in T \ {t} : queue'[u] = queue[u]
    BY <1>1, <1>6
  <2>2. CASE t \in T
    <3>1. g = [f EXCEPT ![t] = @ - 1] /\ f[t] > 0
      BY <2>1, <2>2
    <3>. HIDE DEF f, g
    <3>. QED
      BY <1>2, <2>1, <2>2, <3>1, SumDown
  <2>3. CASE t \notin T
    <3>1. g = f
      BY <2>1, <2>3
    <3>. QED
      BY <1>4, <2>1, <2>3, <3>1
  <2>. QED
    BY <2>2, <2>3
<1>. HIDE DEF f, g
<1>. QED
  BY <1>3, <1>4, <1>5, <1>6

\* Only t goes elsewhere.
OnlyMoves(t) == \A u \in Threads \ {t} : pc'[u] = pc[u]

\* One thread goes from one place to another.
LEMMA PlaceChange ==
    ASSUME TypeOK, NEW t \in Threads, NEW T \in SUBSET Threads, NEW place,
           OnlyMoves(t)
    PROVE  /\ Holding(T, place) \in Nat
           /\ Holding(T, place)' =
                  Holding(T, place)
                  + (IF t \in T /\ pc'[t] = place THEN 1 ELSE 0)
                  - (IF t \in T /\ pc[t] = place THEN 1 ELSE 0)
<1>. DEFINE A == Holders(T, place)
            B == {u \in T : pc'[u] = place}
<1>1. IsFiniteSet(T) /\ IsFiniteSet(A) /\ Cardinality(A) \in Nat
  <2>1. IsFiniteSet(T)
    BY FiniteThreads, FS_Subset
  <2>2. A \subseteq T
    BY DEF Holders
  <2>. QED
    BY <2>1, <2>2, FS_Subset, FS_CardinalityType
<1>2. Holding(T, place) = Cardinality(A) /\ Holding(T, place)' = Cardinality(B)
  BY DEF Holding, Holders
<1>3. t \in A <=> t \in T /\ pc[t] = place
  BY DEF Holders
<1>4. \A u \in T \ {t} : u \in B <=> u \in A
  BY DEF Holders, OnlyMoves
<1>5. t \in B <=> t \in T /\ pc'[t] = place
  OBVIOUS
<1>6. A \subseteq T /\ B \subseteq T
  BY DEF Holders
<1>. HIDE DEF A, B
<1>7. CASE t \in B /\ t \notin A
  <2>1. B = A \cup {t}
    BY <1>4, <1>6, <1>7
  <2>2. Cardinality(B) = Cardinality(A) + 1
    BY <1>1, <1>7, <2>1, FS_AddElement
  <2>. QED
    BY <1>1, <1>2, <1>3, <1>5, <1>7, <2>2
<1>8. CASE t \in A /\ t \notin B
  <2>1. B = A \ {t}
    BY <1>4, <1>6, <1>8
  <2>2. Cardinality(B) = Cardinality(A) - 1
    BY <1>1, <1>8, <2>1, FS_RemoveElement
  <2>. QED
    BY <1>1, <1>2, <1>3, <1>5, <1>8, <2>2
<1>9. CASE t \in A <=> t \in B
  <2>1. B = A
    BY <1>4, <1>6, <1>9
  <2>. QED
    BY <1>1, <1>2, <1>3, <1>5, <1>9, <2>1
<1>. QED
  BY <1>7, <1>8, <1>9

\* The amounts: packets in the queues of the load balancers, the fast paths and
\* the output thread, in the hands of load balancers, of fast paths that judge
\* and of those that push, and in the file; and the totals of the counters.
ToLBs == InQueues(LBs)
ToFPs == InQueues(FPs)
ToOutput == Len(queue[Output])
AtLBs == Holding(LBs, "push")
UnderReview == Holding(FPs, "inspect")
Outgoing == Holding(FPs, "push")
InFile == Len(written)
Received == Sum(received)
Dispatched == Sum(dispatched)
Processed == Sum(processed)
FpForwarded == Sum(fpForwarded)
FpDropped == Sum(fpDropped)

\* Accounting, and what the counters of the fast paths add up to.
CountInv ==
    /\ total = Received + ToLBs
    /\ Received = Dispatched + AtLBs
    /\ Dispatched = Processed + ToFPs
    /\ Processed = forwarded + dropped + UnderReview
    /\ forwarded = InFile + ToOutput + Outgoing
    /\ FpDropped = dropped
    /\ forwarded = FpForwarded + Outgoing

\* The equations between the amounts imply Accounting.
LEMMA CountIsAccounting == CountInv => Accounting
  BY DEF CountInv, Accounting, InQueues, Holding, Holders, ToLBs, ToFPs,
         ToOutput, AtLBs, UnderReview, Outgoing, InFile, Received, Dispatched,
         Processed

\* Every amount is a natural number.
LEMMA Amounts ==
    ASSUME TypeOK
    PROVE  /\ total \in Nat /\ dropped \in Nat /\ forwarded \in Nat
           /\ InFile \in Nat /\ ToOutput \in Nat
           /\ ToLBs \in Nat /\ ToFPs \in Nat
           /\ AtLBs \in Nat /\ UnderReview \in Nat /\ Outgoing \in Nat
           /\ Received \in Nat /\ Dispatched \in Nat /\ Processed \in Nat
           /\ FpForwarded \in Nat /\ FpDropped \in Nat
<1>1. /\ \A t \in Threads : Len(queue[t]) \in Nat
      /\ InFile \in Nat /\ total \in Nat /\ dropped \in Nat
      /\ forwarded \in Nat
  BY DEF TypeOK, InFile
<1>2. ToLBs \in Nat /\ ToFPs \in Nat
  <2>1. /\ [t \in LBs |-> Len(queue[t])] \in [LBs -> Nat]
        /\ [t \in FPs |-> Len(queue[t])] \in [FPs -> Nat]
    BY <1>1, FiniteThreads
  <2>. QED
    BY <2>1, FiniteThreads, SumFinite DEF InQueues, ToLBs, ToFPs
<1>3. ASSUME NEW place
      PROVE  Holding(LBs, place) \in Nat /\ Holding(FPs, place) \in Nat
  <2>1. Holders(LBs, place) \subseteq LBs /\ Holders(FPs, place) \subseteq FPs
    BY DEF Holders
  <2>. QED
    BY <2>1, FiniteThreads, FS_Subset, FS_CardinalityType DEF Holding
<1>4. /\ received \in [LBs -> Nat] /\ dispatched \in [LBs -> Nat]
      /\ processed \in [FPs -> Nat] /\ fpForwarded \in [FPs -> Nat]
      /\ fpDropped \in [FPs -> Nat]
  BY DEF TypeOK
<1>5. /\ Received \in Nat /\ Dispatched \in Nat /\ Processed \in Nat
      /\ FpForwarded \in Nat /\ FpDropped \in Nat
  BY <1>4, FiniteThreads, SumFinite
  DEF Received, Dispatched, Processed, FpForwarded, FpDropped
<1>6. ToOutput \in Nat
  BY <1>1, Shape DEF ToOutput
<1>7. AtLBs \in Nat /\ UnderReview \in Nat /\ Outgoing \in Nat
  BY <1>3 DEF AtLBs, UnderReview, Outgoing
<1>. QED
  BY <1>1, <1>2, <1>5, <1>6, <1>7

\* The amounts that depend on nothing that a step changes stay.
LEMMA AmountsStay ==
    /\ UNCHANGED queue =>
           ToLBs' = ToLBs /\ ToFPs' = ToFPs /\ ToOutput' = ToOutput
    /\ UNCHANGED pc => /\ AtLBs' = AtLBs /\ UnderReview' = UnderReview
                       /\ Outgoing' = Outgoing
    /\ UNCHANGED written => InFile' = InFile
    /\ UNCHANGED received => Received' = Received
    /\ UNCHANGED dispatched => Dispatched' = Dispatched
    /\ UNCHANGED processed => Processed' = Processed
    /\ UNCHANGED fpForwarded => FpForwarded' = FpForwarded
    /\ UNCHANGED fpDropped => FpDropped' = FpDropped
  BY DEF InQueues, Holding, Holders, Sum, ToLBs, ToFPs, ToOutput, AtLBs,
         UnderReview, Outgoing, InFile, Received, Dispatched, Processed,
         FpForwarded, FpDropped

\* A thread's counter that goes up takes its total with it.
LEMMA TotalUp ==
    ASSUME TypeOK
    PROVE  /\ \A lb \in LBs :
                /\ received' = [received EXCEPT ![lb] = @ + 1]
                       => Received' = Received + 1
                /\ dispatched' = [dispatched EXCEPT ![lb] = @ + 1]
                       => Dispatched' = Dispatched + 1
           /\ \A fp \in FPs :
                /\ processed' = [processed EXCEPT ![fp] = @ + 1]
                       => Processed' = Processed + 1
                /\ fpForwarded' = [fpForwarded EXCEPT ![fp] = @ + 1]
                       => FpForwarded' = FpForwarded + 1
                /\ fpDropped' = [fpDropped EXCEPT ![fp] = @ + 1]
                       => FpDropped' = FpDropped + 1
<1>1. /\ received \in [LBs -> Nat] /\ dispatched \in [LBs -> Nat]
      /\ processed \in [FPs -> Nat] /\ fpForwarded \in [FPs -> Nat]
      /\ fpDropped \in [FPs -> Nat]
  BY DEF TypeOK
<1>2. /\ Received' = Sum(received') /\ Dispatched' = Sum(dispatched')
      /\ Processed' = Sum(processed') /\ FpForwarded' = Sum(fpForwarded')
      /\ FpDropped' = Sum(fpDropped')
  BY DEF Sum, Received, Dispatched, Processed, FpForwarded, FpDropped
<1>3. ASSUME NEW lb \in LBs
      PROVE  /\ Sum([received EXCEPT ![lb] = @ + 1]) = Sum(received) + 1
             /\ Sum([dispatched EXCEPT ![lb] = @ + 1]) = Sum(dispatched) + 1
  BY <1>1, FiniteThreads, SumUp
<1>4. ASSUME NEW fp \in FPs
      PROVE  /\ Sum([processed EXCEPT ![fp] = @ + 1]) = Sum(processed) + 1
             /\ Sum([fpForwarded EXCEPT ![fp] = @ + 1]) = Sum(fpForwarded) + 1
             /\ Sum([fpDropped EXCEPT ![fp] = @ + 1]) = Sum(fpDropped) + 1
  BY <1>1, FiniteThreads, SumUp
<1>. QED
  BY <1>2, <1>3, <1>4 DEF Received, Dispatched, Processed, FpForwarded, FpDropped

\* The amounts in hands after a thread went from one place to another.
LEMMA HandsChange ==
    ASSUME TypeOK, NEW t \in Threads,
           OnlyMoves(t)
    PROVE  /\ t \in LBs => AtLBs' =
                  AtLBs + (IF pc'[t] = "push" THEN 1 ELSE 0)
                        - (IF pc[t] = "push" THEN 1 ELSE 0)
           /\ t \notin LBs => AtLBs' = AtLBs
           /\ t \in FPs => UnderReview' =
                  UnderReview + (IF pc'[t] = "inspect" THEN 1 ELSE 0)
                              - (IF pc[t] = "inspect" THEN 1 ELSE 0)
           /\ t \notin FPs => UnderReview' = UnderReview
           /\ t \in FPs => Outgoing' =
                  Outgoing + (IF pc'[t] = "push" THEN 1 ELSE 0)
                           - (IF pc[t] = "push" THEN 1 ELSE 0)
           /\ t \notin FPs => Outgoing' = Outgoing
<1>0. ASSUME NEW T \in SUBSET Threads, NEW place \in {"push", "inspect"}
      PROVE  Holding(T, place)' =
                 Holding(T, place)
                 + (IF t \in T /\ pc'[t] = place THEN 1 ELSE 0)
                 - (IF t \in T /\ pc[t] = place THEN 1 ELSE 0)
  BY PlaceChange
<1>1. LBs \in SUBSET Threads /\ FPs \in SUBSET Threads
  BY FiniteThreads
<1>2. AtLBs' = AtLBs + (IF t \in LBs /\ pc'[t] = "push" THEN 1 ELSE 0)
                     - (IF t \in LBs /\ pc[t] = "push" THEN 1 ELSE 0)
  BY <1>0, <1>1 DEF AtLBs
<1>3. UnderReview' =
          UnderReview + (IF t \in FPs /\ pc'[t] = "inspect" THEN 1 ELSE 0)
                      - (IF t \in FPs /\ pc[t] = "inspect" THEN 1 ELSE 0)
  BY <1>0, <1>1 DEF UnderReview
<1>4. Outgoing' = Outgoing + (IF t \in FPs /\ pc'[t] = "push" THEN 1 ELSE 0)
                           - (IF t \in FPs /\ pc[t] = "push" THEN 1 ELSE 0)
  BY <1>0, <1>1 DEF Outgoing
<1>5. Outgoing \in Nat /\ UnderReview \in Nat /\ AtLBs \in Nat
  BY Amounts
<1>. QED
  BY <1>2, <1>3, <1>4, <1>5

\* The amounts in queues after a push to t.
LEMMA PushChange ==
    ASSUME TypeOK, NEW t \in Threads, NEW x \in Ids,
           queue' = [queue EXCEPT ![t] = Append(queue[t], x)]
    PROVE  /\ t \in LBs => ToLBs' = ToLBs + 1
           /\ t \notin LBs => ToLBs' = ToLBs
           /\ t \in FPs => ToFPs' = ToFPs + 1
           /\ t \notin FPs => ToFPs' = ToFPs
           /\ t = Output => ToOutput' = ToOutput + 1
           /\ t # Output => ToOutput' = ToOutput
<1>1. LBs \in SUBSET Threads /\ FPs \in SUBSET Threads /\ Output \in Threads
  BY FiniteThreads, Shape
<1>2. ToLBs' = ToLBs + (IF t \in LBs THEN 1 ELSE 0)
  BY <1>1, QueueChange DEF ToLBs
<1>3. ToFPs' = ToFPs + (IF t \in FPs THEN 1 ELSE 0)
  BY <1>1, QueueChange DEF ToFPs
<1>4. ToLBs \in Nat /\ ToFPs \in Nat
  BY Amounts
<1>5. t = Output => ToOutput' = ToOutput + 1
  BY <1>1, QueueChange DEF ToOutput
<1>6. t # Output => queue'[Output] = queue[Output]
  BY <1>1 DEF TypeOK
<1>. QED
  BY <1>2, <1>3, <1>4, <1>5, <1>6 DEF ToOutput

\* The amounts in queues after t popped.
LEMMA PopChange ==
    ASSUME TypeOK, NEW t \in Threads, queue[t] # <<>>,
           queue' = [queue EXCEPT ![t] = Tail(queue[t])]
    PROVE  /\ t \in LBs => ToLBs' = ToLBs - 1
           /\ t \notin LBs => ToLBs' = ToLBs
           /\ t \in FPs => ToFPs' = ToFPs - 1
           /\ t \notin FPs => ToFPs' = ToFPs
           /\ t = Output => ToOutput' = ToOutput - 1
           /\ t # Output => ToOutput' = ToOutput
<1>1. LBs \in SUBSET Threads /\ FPs \in SUBSET Threads /\ Output \in Threads
  BY FiniteThreads, Shape
<1>0. Head(queue[t]) \in Ids
  BY DEF TypeOK
<1>2. ToLBs' = ToLBs - (IF t \in LBs THEN 1 ELSE 0)
  BY <1>0, <1>1, QueueChange DEF ToLBs
<1>3. ToFPs' = ToFPs - (IF t \in FPs THEN 1 ELSE 0)
  BY <1>0, <1>1, QueueChange DEF ToFPs
<1>4. ToLBs \in Nat /\ ToFPs \in Nat
  BY Amounts
<1>5. t = Output => ToOutput' = ToOutput - 1
  BY <1>0, <1>1, QueueChange DEF ToOutput
<1>6. t # Output => queue'[Output] = queue[Output]
  BY <1>1 DEF TypeOK
<1>. QED
  BY <1>2, <1>3, <1>4, <1>5, <1>6 DEF ToOutput

\* The reader reads a packet and queues it for its load balancer.
LEMMA CountRead ==
    ASSUME TypeOK, StopInv, CountInv, Read
    PROVE  CountInv'
<1>. DEFINE x == total + 1
            lb == LBForPacket(Flow(x))
<1>1. x \in Ids
  BY LegacyAssumption DEF Read, TypeOK, Ids
<1>2. lb \in LBs /\ lb \in Threads /\ lb # Output /\ lb \notin FPs
  BY <1>1, Routes, Apart
<1>3. ~shut[lb]
  BY <1>2, ReaderFindsRoom DEF Read
<1>4. /\ queue' = [queue EXCEPT ![lb] = Append(queue[lb], x)] /\ total' = x
      /\ UNCHANGED <<pc, received, dispatched, processed, fpForwarded,
                     fpDropped, written, dropped, forwarded>>
  BY <1>3 DEF Read, Pushed, lbCounts, fpCounts, outputVars
<1>5. ToLBs' = ToLBs + 1 /\ ToFPs' = ToFPs /\ ToOutput' = ToOutput
  <2>. HIDE DEF lb, x
  <2>. QED
    BY <1>1, <1>2, <1>4, PushChange
<1>6. /\ AtLBs' = AtLBs /\ UnderReview' = UnderReview /\ Outgoing' = Outgoing
      /\ InFile' = InFile /\ Received' = Received
      /\ Dispatched' = Dispatched /\ Processed' = Processed
      /\ FpForwarded' = FpForwarded /\ FpDropped' = FpDropped
  BY <1>4, AmountsStay
<1>7. total' = total + 1 /\ dropped' = dropped /\ forwarded' = forwarded
  BY <1>4
<1>. QED
  BY <1>5, <1>6, <1>7, Amounts DEF CountInv

\* A load balancer takes a packet from its queue, or hands it on.
LEMMA CountLB ==
    ASSUME TypeOK, StageOrder, CountInv, NEW lb \in LBs,
           LBTake(lb) \/ LBPush(lb)
    PROVE  CountInv'
<1>1. lb \in Threads /\ lb # Output /\ lb \notin FPs
  BY Apart
<1>2. /\ UNCHANGED <<processed, fpForwarded, fpDropped, written>>
      /\ total' = total /\ dropped' = dropped /\ forwarded' = forwarded
  BY DEF LBTake, LBPush, fpCounts, outputVars
<1>3. /\ Processed' = Processed /\ FpForwarded' = FpForwarded
      /\ FpDropped' = FpDropped /\ InFile' = InFile
  BY <1>2, AmountsStay
<1>4. CASE LBTake(lb)
  <2>1. /\ pc[lb] = "pop" /\ pc' = [pc EXCEPT ![lb] = "push"]
        /\ queue[lb] # <<>> /\ queue' = [queue EXCEPT ![lb] = Tail(queue[lb])]
        /\ received' = [received EXCEPT ![lb] = @ + 1]
        /\ dispatched' = dispatched
    BY <1>4 DEF LBTake, Take, Goes
  <2>2. ToLBs' = ToLBs - 1 /\ ToFPs' = ToFPs /\ ToOutput' = ToOutput
    BY <1>1, <2>1, PopChange
  <2>3. pc[lb] = "pop" /\ pc'[lb] = "push" /\ OnlyMoves(lb)
    BY <1>1, <2>1 DEF TypeOK, OnlyMoves
  <2>4. /\ AtLBs' = AtLBs + 1 - 0
        /\ UnderReview' = UnderReview /\ Outgoing' = Outgoing
    BY <1>1, <2>3, HandsChange
  <2>5. Received' = Received + 1 /\ Dispatched' = Dispatched
    BY <2>1, TotalUp, AmountsStay
  <2>. QED
    BY <1>2, <1>3, <2>2, <2>4, <2>5, Amounts DEF CountInv
<1>5. CASE LBPush(lb)
  <2>. DEFINE x == hand[lb]
              fp == SelectFP(lb, Flow(x))
  <2>1. x \in Ids /\ fp \in FPs /\ fp \in Threads /\ fp # Output /\ fp \notin LBs
    <3>1. x \in Ids
      BY <1>1, <1>5 DEF LBPush, Push, Goes, TypeOK
    <3>. QED
      BY <3>1, PacketType, Routing, Apart
  <2>2. ~shut[fp] /\ pc[lb] = "push"
    BY <1>5, <2>1 DEF LBPush, Push, Goes, StageOrder
  <2>3. /\ queue' = [queue EXCEPT ![fp] = Append(queue[fp], x)]
        /\ pc' = [pc EXCEPT ![lb] = "loop"]
        /\ dispatched' = [dispatched EXCEPT ![lb] = @ + 1]
        /\ received' = received
    BY <1>5, <2>2 DEF LBPush, Push, Goes, Pushed
  <2>. HIDE DEF x, fp
  <2>4. ToLBs' = ToLBs /\ ToFPs' = ToFPs + 1 /\ ToOutput' = ToOutput
    BY <2>1, <2>3, PushChange
  <2>5. pc[lb] = "push" /\ pc'[lb] = "loop" /\ OnlyMoves(lb)
    BY <1>1, <2>2, <2>3 DEF TypeOK, OnlyMoves
  <2>6. /\ AtLBs' = AtLBs + 0 - 1
        /\ UnderReview' = UnderReview /\ Outgoing' = Outgoing
    BY <1>1, <2>5, HandsChange
  <2>7. Received' = Received /\ Dispatched' = Dispatched + 1
    BY <2>3, TotalUp, AmountsStay
  <2>. QED
    BY <1>2, <1>3, <2>4, <2>6, <2>7, Amounts DEF CountInv
<1>. QED
  BY <1>4, <1>5

\* A fast path takes a packet from its queue, or hands it on.
LEMMA CountFP ==
    ASSUME TypeOK, StageOrder, CountInv, NEW fp \in FPs,
           FPTake(fp) \/ FPPush(fp)
    PROVE  CountInv'
<1>1. /\ fp \in Threads /\ fp # Output /\ fp \notin LBs
      /\ Output \in Threads /\ Output \notin LBs /\ Output \notin FPs
  BY Apart
<1>2. /\ UNCHANGED <<received, dispatched, fpDropped, written>>
      /\ total' = total /\ dropped' = dropped /\ forwarded' = forwarded
  BY DEF FPTake, FPPush, lbCounts, outputVars
<1>3. /\ Received' = Received /\ Dispatched' = Dispatched
      /\ FpDropped' = FpDropped /\ InFile' = InFile
  BY <1>2, AmountsStay
<1>4. CASE FPTake(fp)
  <2>1. /\ pc[fp] = "pop" /\ pc' = [pc EXCEPT ![fp] = "inspect"]
        /\ queue[fp] # <<>> /\ queue' = [queue EXCEPT ![fp] = Tail(queue[fp])]
        /\ processed' = [processed EXCEPT ![fp] = @ + 1]
        /\ fpForwarded' = fpForwarded
    BY <1>4 DEF FPTake, Take, Goes
  <2>2. ToLBs' = ToLBs /\ ToFPs' = ToFPs - 1 /\ ToOutput' = ToOutput
    BY <1>1, <2>1, PopChange
  <2>3. pc[fp] = "pop" /\ pc'[fp] = "inspect" /\ OnlyMoves(fp)
    BY <1>1, <2>1 DEF TypeOK, OnlyMoves
  <2>4. /\ AtLBs' = AtLBs
        /\ UnderReview' = UnderReview + 1 - 0
        /\ Outgoing' = Outgoing + 0 - 0
    BY <1>1, <2>3, HandsChange
  <2>5. Processed' = Processed + 1 /\ FpForwarded' = FpForwarded
    BY <2>1, TotalUp, AmountsStay
  <2>. QED
    BY <1>2, <1>3, <2>2, <2>4, <2>5, Amounts DEF CountInv
<1>5. CASE FPPush(fp)
  <2>. DEFINE x == hand[fp]
  <2>1. x \in Ids
    BY <1>1, <1>5 DEF FPPush, Push, Goes, TypeOK
  <2>2. ~shut[Output] /\ pc[fp] = "push"
    BY <1>5 DEF FPPush, Push, Goes, StageOrder
  <2>3. /\ queue' = [queue EXCEPT ![Output] = Append(queue[Output], x)]
        /\ pc' = [pc EXCEPT ![fp] = "loop"]
        /\ fpForwarded' = [fpForwarded EXCEPT ![fp] = @ + 1]
        /\ processed' = processed
    BY <1>5, <2>2 DEF FPPush, Push, Goes, Pushed
  <2>. HIDE DEF x
  <2>4. ToLBs' = ToLBs /\ ToFPs' = ToFPs /\ ToOutput' = ToOutput + 1
    BY <1>1, <2>1, <2>3, PushChange
  <2>5. pc[fp] = "push" /\ pc'[fp] = "loop" /\ OnlyMoves(fp)
    BY <1>1, <2>2, <2>3 DEF TypeOK, OnlyMoves
  <2>6. /\ AtLBs' = AtLBs
        /\ UnderReview' = UnderReview + 0 - 0
        /\ Outgoing' = Outgoing + 0 - 1
    BY <1>1, <2>5, HandsChange
  <2>7. Processed' = Processed /\ FpForwarded' = FpForwarded + 1
    BY <2>3, TotalUp, AmountsStay
  <2>. QED
    BY <1>2, <1>3, <2>4, <2>6, <2>7, Amounts DEF CountInv
<1>. QED
  BY <1>4, <1>5

\* A verdict counts the packet once: dropped, by the fast path too, or
\* forwarded, which the fast path counts when it has pushed the packet.
LEMMA CountInspect ==
    ASSUME TypeOK, CountInv, NEW fp \in FPs, Decides(fp)
    PROVE  CountInv'
<1>1. fp \in Threads /\ fp # Output /\ fp \notin LBs
  BY Apart
<1>2. pc[fp] = "inspect" /\ (FPDrop(fp) \/ FPForward(fp))
  BY DEF Decides, FPInspect
<1>3. /\ UNCHANGED <<queue, received, dispatched, processed, fpForwarded, written>>
      /\ total' = total
  BY DEF Decides, FPInspect, lbCounts, outputVars
<1>4. /\ ToLBs' = ToLBs /\ ToFPs' = ToFPs /\ ToOutput' = ToOutput
      /\ Received' = Received /\ Dispatched' = Dispatched
      /\ Processed' = Processed /\ FpForwarded' = FpForwarded
      /\ InFile' = InFile
  BY <1>3, AmountsStay
<1>5. CASE FPDrop(fp)
  <2>1. /\ dropped' = dropped + 1 /\ forwarded' = forwarded
        /\ pc' = [pc EXCEPT ![fp] = "loop"]
        /\ fpDropped' = [fpDropped EXCEPT ![fp] = @ + 1]
    BY <1>5 DEF FPDrop, Goes
  <2>2. pc[fp] = "inspect" /\ pc'[fp] = "loop" /\ OnlyMoves(fp)
    BY <1>1, <1>2, <2>1 DEF TypeOK, OnlyMoves
  <2>3. /\ AtLBs' = AtLBs
        /\ UnderReview' = UnderReview + 0 - 1
        /\ Outgoing' = Outgoing + 0 - 0
    BY <1>1, <2>2, HandsChange
  <2>4. FpDropped' = FpDropped + 1
    BY <2>1, TotalUp
  <2>5. dropped' = dropped + 1 /\ forwarded' = forwarded
    BY <2>1
  <2>. QED
    BY <1>3, <1>4, <2>3, <2>4, <2>5, Amounts DEF CountInv
<1>6. CASE FPForward(fp)
  <2>1. /\ dropped' = dropped /\ forwarded' = forwarded + 1
        /\ pc' = [pc EXCEPT ![fp] = "push"] /\ fpDropped' = fpDropped
    BY <1>6 DEF FPForward, Goes
  <2>2. pc[fp] = "inspect" /\ pc'[fp] = "push" /\ OnlyMoves(fp)
    BY <1>1, <1>2, <2>1 DEF TypeOK, OnlyMoves
  <2>3. /\ AtLBs' = AtLBs
        /\ UnderReview' = UnderReview + 0 - 1
        /\ Outgoing' = Outgoing + 1 - 0
    BY <1>1, <2>2, HandsChange
  <2>4. FpDropped' = FpDropped
    BY <2>1, AmountsStay
  <2>5. dropped' = dropped /\ forwarded' = forwarded + 1
    BY <2>1
  <2>. QED
    BY <1>3, <1>4, <2>3, <2>4, <2>5, Amounts DEF CountInv
<1>. QED
  BY <1>2, <1>5, <1>6

\* The output thread moves a packet from its queue to the file.
LEMMA CountOutput ==
    ASSUME TypeOK, CountInv, OutputTake
    PROVE  CountInv'
<1>1. Output \in Threads /\ Output \notin FPs /\ Output \notin LBs
  BY Apart
<1>2. /\ UNCHANGED <<received, dispatched, processed, fpForwarded, fpDropped>>
      /\ total' = total /\ dropped' = dropped /\ forwarded' = forwarded
      /\ pc[Output] = "pop" /\ pc' = [pc EXCEPT ![Output] = "loop"]
      /\ queue[Output] # <<>>
      /\ queue' = [queue EXCEPT ![Output] = Tail(queue[Output])]
  BY DEF OutputTake, Goes, countVars, lbCounts, fpCounts
<1>3. /\ Received' = Received /\ Dispatched' = Dispatched
      /\ Processed' = Processed /\ FpForwarded' = FpForwarded
      /\ FpDropped' = FpDropped
  BY <1>2, AmountsStay
<1>4. InFile' = InFile + 1
  BY DEF OutputTake, TypeOK, InFile
<1>5. ToLBs' = ToLBs /\ ToFPs' = ToFPs /\ ToOutput' = ToOutput - 1
  BY <1>1, <1>2, PopChange
<1>6. pc[Output] = "pop" /\ pc'[Output] = "loop" /\ OnlyMoves(Output)
  BY <1>1, <1>2 DEF TypeOK, OnlyMoves
<1>7. AtLBs' = AtLBs /\ UnderReview' = UnderReview /\ Outgoing' = Outgoing
  BY <1>1, <1>6, HandsChange
<1>8. total' = total /\ dropped' = dropped /\ forwarded' = forwarded
  BY <1>2
<1>. QED
  BY <1>3, <1>4, <1>5, <1>7, <1>8, Amounts DEF CountInv

\* The other steps move no packet.
LEMMA CountIdle ==
    ASSUME TypeOK, CountInv, Idle
    PROVE  CountInv'
<1>1. /\ UNCHANGED <<queue, received, dispatched, processed, fpForwarded,
                     fpDropped, written>>
      /\ total' = total /\ dropped' = dropped /\ forwarded' = forwarded
  BY DEF Idle, countVars, lbCounts, fpCounts
<1>2. /\ Received' = Received /\ Dispatched' = Dispatched
      /\ Processed' = Processed /\ FpForwarded' = FpForwarded
      /\ FpDropped' = FpDropped /\ InFile' = InFile
      /\ ToLBs' = ToLBs /\ ToFPs' = ToFPs /\ ToOutput' = ToOutput
  BY <1>1, AmountsStay
<1>3. AtLBs' = AtLBs /\ UnderReview' = UnderReview /\ Outgoing' = Outgoing
  <2>1. CASE UNCHANGED pc
    BY <2>1, AmountsStay
  <2>2. ASSUME NEW t \in Threads, NEW a \in {"loop", "pop", "exit"},
               NEW b \in {"loop", "pop", "exit"},
               pc[t] = a, pc' = [pc EXCEPT ![t] = b]
        PROVE  AtLBs' = AtLBs /\ UnderReview' = UnderReview /\ Outgoing' = Outgoing
    <3>1. /\ pc[t] \notin {"push", "inspect"} /\ pc'[t] \notin {"push", "inspect"}
          /\ OnlyMoves(t)
      BY <2>2 DEF TypeOK, OnlyMoves
    <3>2. /\ AtLBs' = AtLBs + 0 - 0 \/ AtLBs' = AtLBs
          /\ UnderReview' = UnderReview + 0 - 0 \/ UnderReview' = UnderReview
          /\ Outgoing' = Outgoing + 0 - 0 \/ Outgoing' = Outgoing
      BY <3>1, HandsChange
    <3>. QED
      BY <3>2, Amounts
  <2>. QED
    BY <2>1, <2>2 DEF Idle
<1>. QED
  BY <1>1, <1>2, <1>3, Amounts DEF CountInv

\* Every step keeps the equations.
LEMMA CountNext ==
    ASSUME TypeOK, StopInv, CountInv, [Next]_vars
    PROVE  CountInv'
  BY StopImpliesOrder, StepsSorted, CountRead, CountLB, CountFP, CountInspect,
     CountOutput, CountIdle

\* At the start every amount is zero.
LEMMA CountInit == Init => CountInv
<1>. SUFFICES ASSUME Init PROVE CountInv
  OBVIOUS
<1>1. /\ total = 0 /\ dropped = 0 /\ forwarded = 0 /\ InFile = 0
      /\ ToOutput = 0
  BY FiniteThreads, Shape DEF Init, InFile, ToOutput
<1>2. /\ Received = 0 /\ Dispatched = 0 /\ Processed = 0
      /\ FpForwarded = 0 /\ FpDropped = 0
  BY FiniteThreads, SumZero
  DEF Init, Received, Dispatched, Processed, FpForwarded, FpDropped
<1>3. ToLBs = 0 /\ ToFPs = 0
  <2>1. ASSUME NEW T \in SUBSET Threads, IsFiniteSet(T)
        PROVE  InQueues(T) = 0
    <3>1. [t \in T |-> Len(queue[t])] = [t \in T |-> 0]
      BY DEF Init
    <3>. QED
      BY <2>1, <3>1, SumZero DEF InQueues
  <2>. QED
    BY <2>1, FiniteThreads DEF ToLBs, ToFPs
<1>4. AtLBs = 0 /\ UnderReview = 0 /\ Outgoing = 0
  <2>1. ASSUME NEW T \in SUBSET Threads, NEW place \in {"push", "inspect"}
        PROVE  Holding(T, place) = 0
    <3>1. Holders(T, place) = {}
      BY DEF Init, Holders
    <3>. QED
      BY <3>1, FS_EmptySet DEF Holding
  <2>. QED
    BY <2>1, FiniteThreads DEF AtLBs, UnderReview, Outgoing
<1>. QED
  BY <1>1, <1>2, <1>3, <1>4 DEF CountInv

\* The equations hold in every state.
LEMMA CountHolds == Spec => []CountInv
<1>1. TypeOK /\ StopInv /\ CountInv /\ [Next]_vars => CountInv'
  BY CountNext
<1>2. Spec => []StopInv
  BY StopInit, StopNext, TypeCorrect, PTL DEF Spec
<1>. QED
  BY <1>1, <1>2, CountInit, TypeCorrect, PTL DEF Spec

\* No packet is lost between the stages, for every number of threads and size
\* of queue: what one stage counted and the next did not is in the queue
\* between them or in the hands of a thread, also while stop() runs.
THEOREM PacketsAccounted == Spec => []Accounting
  BY CountHolds, CountIsAccounting, PTL

\* A thread that has left goes nowhere, and pushes nothing.
OthersStay(t) ==
    /\ pc[t] # "exit"
    /\ \A u \in Threads \ {t} : pc'[u] = pc[u]
    /\ leftEarly' = leftEarly

\* An output thread that did not leave early left an empty queue behind, and
\* every fast path was gone.
LeftInv ==
    pc[Output] = "exit" /\ ~leftEarly =>
        queue[Output] = <<>> /\ \A fp \in FPs : pc[fp] = "exit"

\* A step of a thread before the output thread that leaves its queue alone.
LEMMA LeftOther ==
    ASSUME TypeOK, LeftInv, NEW t \in Threads, t # Output, OthersStay(t),
           t \in FPs \/ queue'[Output] = queue[Output]
    PROVE  LeftInv'
<1>1. pc'[Output] = pc[Output] /\ Output \in Threads
  BY Apart DEF OthersStay
<1>2. CASE t \in FPs
  BY <1>1, <1>2 DEF LeftInv, OthersStay
<1>3. CASE t \notin FPs /\ queue'[Output] = queue[Output]
  <2>1. \A fp \in FPs : pc'[fp] = pc[fp]
    BY <1>3, Shape DEF OthersStay
  <2>. QED
    BY <1>1, <1>3, <2>1 DEF LeftInv, OthersStay
<1>. QED
  BY <1>2, <1>3

\* A thread that looks at its flag keeps the invariant.
LEMMA LeftLoop ==
    ASSUME TypeOK, LeftInv, NEW t \in Threads, LoopTest(t)
    PROVE  LeftInv'
<1>1. /\ pc[t] = "loop" /\ queue' = queue
      /\ pc' = [pc EXCEPT ![t] = IF Stays(t) THEN "pop" ELSE "exit"]
  BY DEF LoopTest, Goes
<1>2. \A u \in Threads \ {t} : pc'[u] = pc[u]
  BY <1>1 DEF TypeOK
<1>3. CASE t # Output
  <2>1. leftEarly' = leftEarly
    BY <1>3 DEF LoopTest, TypeOK
  <2>2. OthersStay(t)
    BY <1>1, <1>2, <2>1 DEF OthersStay
  <2>. QED
    BY <1>1, <1>3, <2>2, LeftOther
<1>4. CASE t = Output
  <2>1. SUFFICES ASSUME pc'[Output] = "exit", ~leftEarly'
                 PROVE  queue'[Output] = <<>> /\ \A fp \in FPs : pc'[fp] = "exit"
    BY DEF LeftInv
  <2>2. ~Stays(Output)
    BY <1>1, <1>4, <2>1 DEF TypeOK
  <2>3. queue'[Output] = <<>>
    BY <1>1, <2>2 DEF Stays
  <2>4. \A fp \in FPs : pc[fp] = "exit"
    BY <1>4, <2>1, <2>2 DEF LoopTest
  <2>. QED
    BY <1>2, <1>4, <2>3, <2>4, Apart, Shape
<1>. QED
  BY <1>3, <1>4

\* Every step keeps it: nothing is pushed to the output thread once the fast
\* paths have left.
LEMMA LeftNext == TypeOK /\ LeftInv /\ [Next]_vars => LeftInv'
<1>. SUFFICES ASSUME TypeOK, LeftInv, [Next]_vars PROVE LeftInv'
  OBVIOUS
<1>1. ASSUME NEW t \in Threads, LoopTest(t) PROVE LeftInv'
  BY <1>1, LeftLoop
<1>2. ASSUME NEW lb \in LBs, LBStep(lb) PROVE LeftInv'
  <2>1. lb \in Threads /\ lb # Output /\ lb \notin FPs
    BY Apart, Shape
  <2>2. CASE LoopTest(lb)
    BY <1>1, <2>1, <2>2
  <2>3. CASE PopNothing(lb)
    <3>1. OthersStay(lb) /\ queue' = queue
      BY <2>3 DEF PopNothing, Goes, OthersStay, TypeOK, outputVars
    <3>. QED
      BY <2>1, <3>1, LeftOther
  <2>4. CASE LBTake(lb)
    <3>1. OthersStay(lb) /\ queue'[Output] = queue[Output]
      BY <2>1, <2>4, Apart
      DEF LBTake, Take, Goes, OthersStay, TypeOK, outputVars
    <3>. QED
      BY <2>1, <3>1, LeftOther
  <2>5. CASE LBPush(lb)
    <3>. DEFINE fp == SelectFP(lb, Flow(hand[lb]))
    <3>1. fp \in FPs /\ fp # Output
      <4>1. hand[lb] \in Ids
        BY <2>1, <2>5 DEF LBPush, TypeOK
      <4>. QED
        BY <4>1, Routing, Apart, PacketType
    <3>2. Push(lb, fp) /\ leftEarly' = leftEarly
      BY <2>5 DEF LBPush
    <3>. HIDE DEF fp
    <3>3. OthersStay(lb) /\ queue'[Output] = queue[Output]
      BY <2>1, <3>1, <3>2, Apart
      DEF Push, Pushed, Goes, OthersStay, TypeOK
    <3>. QED
      BY <2>1, <3>3, LeftOther
  <2>. QED
    BY <1>2, <2>2, <2>3, <2>4, <2>5 DEF LBStep
<1>3. ASSUME NEW fp \in FPs, FPStep(fp) PROVE LeftInv'
  <2>1. fp \in Threads /\ fp # Output
    BY Apart
  <2>2. CASE LoopTest(fp)
    BY <1>1, <2>1, <2>2
  <2>3. CASE ~LoopTest(fp)
    <3>1. OthersStay(fp)
      <4>1. CASE PopNothing(fp)
        BY <4>1 DEF PopNothing, Goes, OthersStay, TypeOK, outputVars
      <4>2. CASE FPTake(fp)
        BY <4>2 DEF FPTake, Take, Goes, OthersStay, TypeOK, outputVars
      <4>3. CASE FPInspect(fp)
        BY <4>3, Verdicts
        DEF FPInspect, FPDrop, FPForward, FPUndecided, Goes, OthersStay,
            TypeOK, outputVars
      <4>4. CASE FPPush(fp)
        BY <4>4 DEF FPPush, Push, Goes, OthersStay, TypeOK, outputVars
      <4>. QED
        BY <1>3, <2>3, <4>1, <4>2, <4>3, <4>4 DEF FPStep
    <3>. QED
      BY <2>1, <3>1, LeftOther
  <2>. QED
    BY <2>2, <2>3
<1>4. CASE OutputStep
  <2>1. Output \in Threads
    BY Apart
  <2>2. CASE PopNothing(Output) \/ OutputTake
    <3>1. pc'[Output] = "loop"
      BY <2>1, <2>2 DEF PopNothing, OutputTake, Goes, TypeOK
    <3>. QED
      BY <3>1 DEF LeftInv
  <2>. QED
    BY <1>1, <1>4, <2>1, <2>2 DEF OutputStep
<1>5. CASE Read
  <2>1. pc' = pc /\ leftEarly' = leftEarly
    BY <1>5 DEF Read, outputVars
  <2>2. queue'[Output] = queue[Output]
    <3>. DEFINE lb == LBForPacket(Flow(total + 1))
    <3>1. lb \in LBs /\ lb # Output
      <4>1. total + 1 \in Ids
        BY <1>5 DEF Read, TypeOK, Ids
      <4>. QED
        BY <4>1, Routes, Apart, PacketType
    <3>2. queue' = Pushed(lb, total + 1)
      BY <1>5 DEF Read
    <3>. HIDE DEF lb
    <3>. QED
      BY <3>1, <3>2, Apart DEF Pushed, TypeOK
  <2>. QED
    BY <2>1, <2>2 DEF LeftInv
<1>6. CASE MainStep /\ ~Read
  BY <1>6
  DEF MainStep, WaitForCompletion, StopEngine, ClearFlag, ShutQueue, Join,
      MainGoes, LeftInv, outputVars
<1>7. CASE ChangeRules \/ Finished \/ UNCHANGED vars
  BY <1>7 DEF ChangeRules, Finished, vars, threadVars, outputVars, LeftInv
<1>. QED
  BY <1>2, <1>3, <1>4, <1>5, <1>6, <1>7 DEF Next

\* The counters of the report: every fast path has left when they are printed,
\* with nothing in its hands, and a connection is only in the table of the
\* fast path its tuple is dispatched to.  What was forwarded was written or is
\* in the output queue, which is empty if the output thread outlived the fast
\* paths.
THEOREM ReportAddsUp == Spec => []ReportAgrees
<1>1. TypeOK /\ StopInv /\ CountInv /\ EntryInv /\ LeftInv => ReportAgrees
  <2>. SUFFICES ASSUME TypeOK, StopInv, CountInv, EntryInv, LeftInv
                PROVE  ReportAgrees
    OBVIOUS
  <2>1. ASSUME NEW a \in FPs, NEW b \in FPs, a # b
        PROVE  DOMAIN conns[a] \cap DOMAIN conns[b] = {}
    BY <2>1 DEF EntryInv
  <2>2. ASSUME mainPc = "done"
        PROVE  /\ FpDropped = dropped /\ FpForwarded = forwarded
               /\ forwarded = InFile + ToOutput
               /\ ~leftEarly => forwarded = InFile
    <3>1. \A fp \in FPs : pc[fp] = "exit"
      <4>1. \A fp \in FPs : fp \in Threads /\ fp < Output
        BY Shape, LegacyAssumption DEF FPs, Output
      <4>. QED
        BY <2>2, <4>1 DEF StopInv
    <3>2. Holders(FPs, "push") = {}
      BY <3>1 DEF Holders
    <3>3. Outgoing = 0
      BY <3>2, FS_EmptySet DEF Outgoing, Holding
    <3>4. ASSUME ~leftEarly PROVE ToOutput = 0
      <4>1. queue[Output] = <<>>
        BY <2>2, <3>4 DEF StopInv, LeftInv
      <4>. QED
        BY <4>1 DEF ToOutput
    <3>. QED
      BY <3>3, <3>4, Amounts DEF CountInv
  <2>. QED
    BY <2>1, <2>2 DEF ReportAgrees, FpDropped, FpForwarded, InFile, ToOutput
<1>2. Spec => []EntryInv
  BY TablesAndCuts, PTL
<1>3. Spec => []StopInv
  BY StopInit, StopNext, TypeCorrect, PTL DEF Spec
<1>4. Init => LeftInv
  BY Apart DEF Init, LeftInv
<1>5. Spec => []LeftInv
  BY <1>4, LeftNext, TypeCorrect, PTL DEF Spec
<1>. QED
  BY <1>1, <1>2, <1>3, <1>5, CountHolds, TypeCorrect, PTL

=============================================================================
