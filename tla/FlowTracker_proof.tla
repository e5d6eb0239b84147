-------------------------- MODULE FlowTracker_proof --------------------------
(***************************************************************************)
(* Theorems about one fast path and its connection table.                  *)
(***************************************************************************)
EXTENDS FlowTracker, FiniteSetTheorems, TLAPS

\* What the lookup of a tuple leaves behind: a table with that tuple, still
\* within its bound, and with the other entries as they were.
LEMMA LookedTable ==
    ASSUME TypeOK, NEW t \in Tuples, NEW table \in Looked(t)
    PROVE  /\ t \in DOMAIN table
           /\ DOMAIN table \subseteq Tuples
           /\ IsFiniteSet(DOMAIN table)
           /\ Cardinality(DOMAIN table) <= MaxConnections
           /\ table \in [DOMAIN table -> Connection]
           /\ \A u \in DOMAIN table : table[u].lastSeen <= clock
           /\ t \in DOMAIN conns => table = conns
           /\ \A u \in DOMAIN table \ {t} :
                  u \in DOMAIN conns /\ table[u] = conns[u]
<1>. USE TableAssumption, PacketAssumption
<1>1. CASE t \in DOMAIN conns
  BY <1>1 DEF Looked, TypeOK
<1>2. CASE t \notin DOMAIN conns
  <2>1. NewConnection \in Connection /\ NewConnection.lastSeen <= clock
    BY DEF NewConnection, Connection, States, TypeOK
  <2>2. PICK kept : /\ table = With(kept, t)
                    /\ \/ ~Full /\ kept = conns
                       \/ Full /\ \E o \in Oldest : kept = Without({o})
    BY <1>2 DEF Looked
  <2>3. /\ DOMAIN kept \subseteq DOMAIN conns
        /\ \A u \in DOMAIN kept : kept[u] = conns[u]
        /\ IsFiniteSet(DOMAIN kept)
        /\ Cardinality(DOMAIN kept) \in Nat
        /\ Cardinality(DOMAIN kept) < MaxConnections
    <3>0. Cardinality(DOMAIN conns) \in Nat
      BY FS_CardinalityType DEF TypeOK
    <3>1. CASE ~Full /\ kept = conns
      BY <3>0, <3>1 DEF Full, TypeOK
    <3>2. CASE Full /\ \E o \in Oldest : kept = Without({o})
      <4>1. PICK o \in Oldest : kept = Without({o})
        BY <3>2
      <4>2. o \in DOMAIN conns /\ DOMAIN kept = DOMAIN conns \ {o}
        BY <4>1 DEF Oldest, Without, Restrict
      <4>3. \A u \in DOMAIN kept : kept[u] = conns[u]
        BY <4>1, <4>2 DEF Without, Restrict
      <4>4. /\ IsFiniteSet(DOMAIN kept)
            /\ Cardinality(DOMAIN kept) = Cardinality(DOMAIN conns) - 1
        BY <4>2, FS_RemoveElement DEF TypeOK
      <4>5. Cardinality(DOMAIN conns) <= MaxConnections
        BY DEF TypeOK
      <4>6. /\ Cardinality(DOMAIN kept) \in Nat
            /\ Cardinality(DOMAIN kept) < MaxConnections
        <5>. HIDE DEF TypeOK
        <5>. DEFINE n == Cardinality(DOMAIN conns)
                    k == Cardinality(DOMAIN kept)
        <5>1. k \in Nat /\ n \in Nat /\ k = n - 1 /\ n <= MaxConnections
          BY <3>0, <4>4, <4>5, FS_CardinalityType
        <5>. HIDE DEF n, k
        <5>2. k < MaxConnections
          BY <5>1
        <5>. QED
          BY <5>1, <5>2 DEF k
      <4>. QED
        BY <4>2, <4>3, <4>4, <4>6
    <3>. QED
      BY <2>2, <3>1, <3>2
  <2>4. /\ DOMAIN table = DOMAIN kept \cup {t}
        /\ t \notin DOMAIN kept
        /\ table[t] = NewConnection
        /\ \A u \in DOMAIN kept : table[u] = conns[u]
    BY <1>2, <2>2, <2>3 DEF With
  <2>5. /\ IsFiniteSet(DOMAIN table)
        /\ Cardinality(DOMAIN table) <= MaxConnections
    <3>. DEFINE k == Cardinality(DOMAIN kept)
    <3>1. IsFiniteSet(DOMAIN table) /\ Cardinality(DOMAIN table) = k + 1
      BY <2>3, <2>4, FS_AddElement
    <3>2. k \in Nat /\ k < MaxConnections
      BY <2>3
    <3>. HIDE DEF k
    <3>3. k + 1 <= MaxConnections
      BY <3>2
    <3>. QED
      BY <3>1, <3>3
  <2>6. /\ table \in [DOMAIN table -> Connection]
        /\ \A u \in DOMAIN table : table[u].lastSeen <= clock
    <3>1. table = [u \in DOMAIN table |-> table[u]]
      BY <2>2 DEF With
    <3>2. \A u \in DOMAIN table :
             table[u] \in Connection /\ table[u].lastSeen <= clock
      BY <2>1, <2>3, <2>4 DEF TypeOK
    <3>. QED
      BY <3>1, <3>2
  <2>. QED
    BY <1>2, <2>3, <2>4, <2>5, <2>6 DEF TypeOK
<1>. QED
  BY <1>1, <1>2

\* updateTCPState: it leaves the application and the name alone, and moves the
\* state only to CLOSED, for a packet that closes, or from NEW.
LEMMA TouchedEntry ==
    ASSUME TypeOK, NEW c \in Connection, NEW p \in Packets
    PROVE  /\ Touched(c, p) \in Connection
           /\ Touched(c, p).lastSeen = clock
           /\ Touched(c, p).sni = c.sni
           /\ Touched(c, p).app = c.app
           /\ \/ Touched(c, p).state = c.state
              \/ Touched(c, p).state = "ESTABLISHED" /\ c.state = "NEW"
              \/ /\ Touched(c, p).state = "CLOSED"
                 /\ p.tuple \in TcpTuples
                 /\ \/ "RST" \in p.flags
                    \/ "ACK" \in p.flags /\ ("FIN" \in p.flags \/ c.fin)
<1>. DEFINE now == [c EXCEPT !.lastSeen = clock]
            flagged == [now EXCEPT
                !.syn = @ \/ ("SYN" \in p.flags /\ "ACK" \notin p.flags),
                !.synAck = @ \/ {"SYN", "ACK"} \subseteq p.flags,
                !.fin = @ \/ "FIN" \in p.flags]
            closes == "RST" \in p.flags \/ (flagged.fin /\ "ACK" \in p.flags)
            state == IF closes THEN "CLOSED"
                     ELSE IF Opens(flagged, p.flags)
                     THEN "ESTABLISHED" ELSE flagged.state
<1>1. /\ now \in Connection /\ now.state = c.state /\ now.fin = c.fin
      /\ now.sni = c.sni /\ now.app = c.app /\ now.lastSeen = clock
  BY DEF Connection, TypeOK
<1>2. /\ flagged \in Connection
      /\ flagged.state = c.state /\ flagged.sni = c.sni
      /\ flagged.app = c.app /\ flagged.lastSeen = clock
      /\ flagged.fin <=> (c.fin \/ "FIN" \in p.flags)
  BY <1>1 DEF Connection
<1>3. /\ state \in States
      /\ \/ state = c.state
         \/ state = "ESTABLISHED" /\ c.state = "NEW"
         \/ state = "CLOSED" /\ closes
  BY <1>2 DEF Connection, States, Opens
<1>4. closes => \/ "RST" \in p.flags
                \/ "ACK" \in p.flags /\ ("FIN" \in p.flags \/ c.fin)
  BY <1>2
<1>5. Touched(c, p) = IF p.tuple \in TcpTuples
                      THEN [flagged EXCEPT !.state = state] ELSE now
  BY DEF Touched, TcpUpdated
<1>. HIDE DEF state, closes, flagged, now
<1>6. /\ [flagged EXCEPT !.state = state] \in Connection
      /\ [flagged EXCEPT !.state = state].state = state
      /\ [flagged EXCEPT !.state = state].sni = c.sni
      /\ [flagged EXCEPT !.state = state].app = c.app
      /\ [flagged EXCEPT !.state = state].lastSeen = clock
  BY <1>2, <1>3 DEF Connection
<1>. QED
  BY <1>1, <1>3, <1>4, <1>5, <1>6

\* What inspectPayload makes of a connection: the same, or a classified one.
LEMMA InspectedEntry ==
    ASSUME NEW c \in Connection, NEW p \in Packets
    PROVE  /\ Inspected(c, p) \in Connection
           /\ Inspected(c, p).lastSeen = c.lastSeen
           /\ \/ Inspected(c, p) = c
              \/ /\ c.state \notin {"BLOCKED", "CLASSIFIED"}
                 /\ Inspected(c, p).state = "CLASSIFIED"
<1>. USE PacketAssumption
<1>1. CASE MayInspect(c, p) /\ Findings(p) # {}
  <2>1. PICK f \in Findings(p) :
           Inspected(c, p) = [c EXCEPT !.state = "CLASSIFIED",
                                       !.app = f[1], !.sni = f[2]]
    BY <1>1 DEF Inspected
  <2>2. f[1] \in AppTypes /\ f[2] \in Names
    BY DEF Findings, Packet, Payload
  <2>. QED
    BY <1>1, <2>1, <2>2 DEF Connection, States, MayInspect
<1>2. CASE ~(MayInspect(c, p) /\ Findings(p) # {})
  BY <1>2 DEF Inspected
<1>. QED
  BY <1>1, <1>2

-----------------------------------------------------------------------------
(* A packet arrives. *)

\* What a packet leaves in the table for its flow: a connection last seen now,
\* blocked if it was blocked and is not closed by the packet.
LEMMA Received ==
    ASSUME TypeOK, NEW p \in Packets, Receive(p)
    PROVE  \E table \in Looked(p.tuple), c \in Connection, e \in Connection :
              /\ p.tuple \in DOMAIN table
              /\ conns' = [table EXCEPT ![p.tuple] = e]
              /\ c = Touched(table[p.tuple], p)
              /\ e = Inspected(c, p)
              /\ e.lastSeen = clock
              /\ ToRules(p, c)
              /\ e.state = "BLOCKED" <=> c.state = "BLOCKED"
              /\ /\ p.tuple \in DOMAIN conns
                 /\ conns[p.tuple].state = "BLOCKED"
                 /\ ~Closes(p)
                 => c.state = "BLOCKED"
<1>1. p.tuple \in Tuples
  BY PacketAssumption DEF Packet
<1>2. PICK table \in Looked(p.tuple) :
        /\ conns' = [table EXCEPT
              ![p.tuple] = Inspected(Touched(table[p.tuple], p), p)]
        /\ ToRules(p, Touched(table[p.tuple], p))
  BY DEF Receive
<1>3. /\ p.tuple \in DOMAIN table
      /\ table[p.tuple] \in Connection
      /\ p.tuple \in DOMAIN conns => table = conns
  BY <1>1, LookedTable
<1>. DEFINE c == Touched(table[p.tuple], p)
            e == Inspected(c, p)
<1>4. /\ c \in Connection /\ c.lastSeen = clock
      /\ \/ c.state = table[p.tuple].state
         \/ c.state = "ESTABLISHED" /\ table[p.tuple].state = "NEW"
         \/ /\ c.state = "CLOSED"
            /\ p.tuple \in TcpTuples
            /\ \/ "RST" \in p.flags
               \/ "ACK" \in p.flags
                  /\ ("FIN" \in p.flags \/ table[p.tuple].fin)
  BY <1>3, TouchedEntry
<1>5. /\ conns' = [table EXCEPT ![p.tuple] = e]
      /\ ToRules(p, c)
  BY <1>2
<1>. HIDE DEF c
<1>6. /\ e \in Connection /\ e.lastSeen = clock
      /\ e.state = "BLOCKED" <=> c.state = "BLOCKED"
  BY <1>4, InspectedEntry
<1>7. /\ p.tuple \in DOMAIN conns
      /\ conns[p.tuple].state = "BLOCKED"
      /\ ~Closes(p)
      => c.state = "BLOCKED"
  BY <1>3, <1>4 DEF Closes
<1>8. c = Touched(table[p.tuple], p)
  BY DEF c
<1>. QED
  BY <1>3, <1>4, <1>5, <1>6, <1>7, <1>8

\* An entry that a lookup loses was among the oldest of a full table, and
\* belongs to another flow than the new one.
LEMMA EvictedIsOldest ==
    ASSUME NEW t, NEW table \in Looked(t), NEW o \in DOMAIN conns,
           o \notin DOMAIN table
    PROVE  t \notin DOMAIN conns /\ Full /\ o \in Oldest
<1>1. t \notin DOMAIN conns
  BY DEF Looked
<1>2. PICK kept : /\ table = With(kept, t)
                  /\ \/ kept = conns
                     \/ Full /\ \E q \in Oldest : kept = Without({q})
  BY <1>1 DEF Looked
<1>3. o \notin DOMAIN kept
  BY <1>2 DEF With
<1>4. PICK q \in Oldest : Full /\ kept = Without({q})
  BY <1>2, <1>3
<1>5. o = q
  BY <1>3, <1>4 DEF Without, Restrict
<1>. QED
  BY <1>1, <1>4, <1>5

-----------------------------------------------------------------------------
(* Type correctness and the capacity of the table. *)

\* The table,
TableOK ==
    /\ DOMAIN conns \subseteq Tuples
    /\ IsFiniteSet(DOMAIN conns)
    /\ Cardinality(DOMAIN conns) <= MaxConnections
    /\ conns \in [DOMAIN conns -> Connection]
    /\ clock \in 0 .. MaxClock
    /\ \A t \in DOMAIN conns : conns[t].lastSeen <= clock

\* the counters,
CountersOK ==
    /\ seen \in Nat
    /\ classifiedCount \in Nat
    /\ blockedCount \in Nat
    /\ extractions \in Nat
    /\ forwarded \in Nat
    /\ dropped \in Nat

\* the packet in hand,
JobOK ==
    /\ rules \subseteq AllRules
    /\ job = {} \/ \E p \in Packets : job = {p} /\ p.tuple \in DOMAIN conns
    /\ lock \in IF job = {} THEN {"none"} ELSE Locks
    /\ reset \in BOOLEAN
    /\ steady \subseteq rules

\* and what is remembered of the flows.
FlowsOK ==
    /\ cut \subseteq Tuples
    /\ DOMAIN last \subseteq Tuples
    /\ IsFiniteSet(DOMAIN last)
    /\ last \in [DOMAIN last -> 0 .. clock]
    /\ ended \subseteq Tuples

\* TypeOK in parts.
LEMMA TypeParts == TypeOK <=> TableOK /\ CountersOK /\ JobOK /\ FlowsOK
  BY DEF TypeOK, TableOK, CountersOK, JobOK, FlowsOK
\* The parts after a step.
LEMMA TypePartsNext ==
    TypeOK' <=> TableOK' /\ CountersOK' /\ JobOK' /\ FlowsOK'
  BY DEF TypeOK, TableOK, CountersOK, JobOK, FlowsOK

\* The table is empty at the start.
LEMMA TypeInit == Init => TypeOK
<1>. SUFFICES ASSUME Init PROVE TypeOK
  OBVIOUS
<1>. USE TableAssumption
<1>1. IsFiniteSet({}) /\ Cardinality({}) = 0
  BY FS_EmptySet
<1>2. DOMAIN conns = {} /\ conns \in [DOMAIN conns -> Connection]
  BY DEF Init
<1>3. TableOK
  BY <1>1, <1>2 DEF Init, TableOK
<1>4. CountersOK
  BY DEF Init, CountersOK
<1>5. JobOK
  BY DEF Init, JobOK
<1>6. DOMAIN last = {} /\ last \in [DOMAIN last -> 0 .. clock]
  BY DEF Init
<1>7. FlowsOK
  BY <1>1, <1>6 DEF Init, FlowsOK
<1>. QED
  BY <1>3, <1>4, <1>5, <1>7, TypeParts

\* A packet arrives.
LEMMA TypeReceive ==
    ASSUME TypeOK, NEW p \in Packets, Receive(p)
    PROVE  TypeOK'
<1>. USE TypeParts
<1>1. p.tuple \in Tuples
  BY PacketAssumption DEF Packet
<1>2. PICK table \in Looked(p.tuple), c \in Connection, e \in Connection :
        /\ conns' = [table EXCEPT ![p.tuple] = e]
        /\ e.lastSeen = clock
        /\ ToRules(p, c)
  BY Received
<1>3. /\ p.tuple \in DOMAIN table
      /\ DOMAIN table \subseteq Tuples
      /\ IsFiniteSet(DOMAIN table)
      /\ Cardinality(DOMAIN table) <= MaxConnections
      /\ table \in [DOMAIN table -> Connection]
      /\ \A u \in DOMAIN table : table[u].lastSeen <= clock
  BY <1>1, LookedTable
<1>4. clock' = clock /\ clock \in 0 .. MaxClock /\ rules' = rules
  BY DEF Receive, TableOK
<1>5. /\ DOMAIN conns' = DOMAIN table
      /\ conns' \in [DOMAIN conns' -> Connection]
      /\ \A u \in DOMAIN conns' : conns'[u].lastSeen <= clock
  BY <1>2, <1>3, <1>4
<1>6. TableOK'
  BY <1>3, <1>4, <1>5 DEF TableOK
<1>7. /\ dropped' \in Nat /\ forwarded' \in Nat /\ cut' \subseteq Tuples
  BY <1>1, <1>2 DEF ToRules, Drop, CountersOK, FlowsOK
<1>8. CountersOK'
  BY <1>7 DEF Receive, CountersOK
<1>9. JobOK'
  <2>1. job = {} /\ lock = "none"
    BY DEF Receive, JobOK
  <2>2. rules' \subseteq AllRules /\ p.tuple \in DOMAIN conns'
    BY <1>3, <1>4, <1>5 DEF JobOK
  <2>. QED
    BY <1>2, <1>4, <2>1, <2>2 DEF ToRules, jobVars, JobOK, Locks
<1>10. FlowsOK'
  <2>1. /\ DOMAIN last' = DOMAIN last \cup {p.tuple}
        /\ \A u \in DOMAIN last' :
               last'[u] = IF u = p.tuple THEN clock ELSE last[u]
        /\ last' = [u \in DOMAIN last' |-> last'[u]]
        /\ ended' = ended \ {p.tuple}
    BY DEF Receive
  <2>2. \A u \in DOMAIN last' : last'[u] \in 0 .. clock
    BY <1>4, <2>1 DEF FlowsOK
  <2>3. IsFiniteSet(DOMAIN last')
    BY <2>1, FS_AddElement DEF FlowsOK
  <2>. QED
    BY <1>1, <1>4, <1>7, <2>1, <2>2, <2>3 DEF FlowsOK
<1>. QED
  BY <1>6, <1>8, <1>9, <1>10, TypePartsNext

\* The rules are asked.
LEMMA TypeCheck ==
    ASSUME TypeOK, NEW p \in job,
           BlockConnection(p.tuple) \/ AskNext(p.tuple) \/ Forward(p.tuple)
    PROVE  TypeOK'
<1>. USE TypeParts
<1>. DEFINE t == p.tuple
<1>1. job = {p} /\ p \in Packets /\ t \in DOMAIN conns /\ t \in Tuples
  BY DEF JobOK, TableOK
<1>2. CASE BlockConnection(t)
  <2>. DEFINE e == [conns[t] EXCEPT !.state = "BLOCKED"]
  <2>1. e \in Connection /\ e.lastSeen = conns[t].lastSeen
    BY <1>1 DEF TableOK, Connection, States
  <2>2. conns' = [conns EXCEPT ![t] = e] /\ clock' = clock
    BY <1>2 DEF BlockConnection
  <2>. HIDE DEF e
  <2>3. TableOK'
    BY <2>1, <2>2 DEF TableOK
  <2>4. CountersOK'
    BY <1>2 DEF BlockConnection, Drop, CountersOK
  <2>5. JobOK'
    BY <1>2 DEF BlockConnection, Answered, JobOK
  <2>6. FlowsOK'
    BY <1>1, <1>2 DEF BlockConnection, Drop, FlowsOK
  <2>. QED
    BY <2>3, <2>4, <2>5, <2>6, TypePartsNext
<1>3. CASE AskNext(t)
  <2>1. lock' \in Locks
    BY <1>1, <1>3 DEF AskNext, After, JobOK, Locks
  <2>2. UNCHANGED <<conns, clock, rules, counterVars, job, reset, steady, flowVars>>
    BY <1>3 DEF AskNext
  <2>3. TableOK' /\ CountersOK' /\ FlowsOK'
    BY <2>2 DEF TableOK, CountersOK, FlowsOK, counterVars, flowVars
  <2>4. JobOK'
    BY <1>1, <2>1, <2>2 DEF JobOK
  <2>. QED
    BY <2>3, <2>4, TypePartsNext
<1>4. CASE Forward(t)
  <2>1. TableOK' /\ CountersOK'
    BY <1>4 DEF Forward, TableOK, CountersOK
  <2>2. JobOK'
    BY <1>4 DEF Forward, Answered, JobOK
  <2>3. FlowsOK'
    BY <1>1, <1>4 DEF Forward, FlowsOK
  <2>. QED
    BY <2>1, <2>2, <2>3, TypePartsNext
<1>. QED
  BY <1>2, <1>3, <1>4

\* Time, the API and the cleanup.
LEMMA TypeOthers ==
    ASSUME TypeOK, CleanupStale \/ Tick \/ ChangeRules \/ UNCHANGED vars
    PROVE  TypeOK'
<1>. USE TypeParts
<1>1. CASE CleanupStale
  <2>1. /\ conns' = [t \in DOMAIN conns \ Gone |-> conns[t]]
        /\ job = {}
        /\ UNCHANGED <<clock, rules, counterVars, jobVars, flowVars>>
    BY <1>1 DEF CleanupStale, Without, Restrict
  <2>2. DOMAIN conns' \subseteq DOMAIN conns
    BY <2>1
  <2>3. /\ IsFiniteSet(DOMAIN conns')
        /\ Cardinality(DOMAIN conns') <= MaxConnections
    <3>1. /\ IsFiniteSet(DOMAIN conns')
          /\ Cardinality(DOMAIN conns') <= Cardinality(DOMAIN conns)
      BY <2>2, FS_Subset DEF TableOK
    <3>2. /\ Cardinality(DOMAIN conns') \in Nat
          /\ Cardinality(DOMAIN conns) \in Nat
      BY <3>1, FS_CardinalityType DEF TableOK
    <3>3. Cardinality(DOMAIN conns) <= MaxConnections
      BY DEF TableOK
    <3>. DEFINE a == Cardinality(DOMAIN conns')
                b == Cardinality(DOMAIN conns)
    <3>4. a \in Nat /\ b \in Nat /\ a <= b /\ b <= MaxConnections
      BY <3>1, <3>2, <3>3
    <3>. HIDE DEF a, b
    <3>5. a <= MaxConnections
      BY <3>4, TableAssumption
    <3>. QED
      BY <3>1, <3>5 DEF a
  <2>4. TableOK'
    BY <2>1, <2>2, <2>3 DEF TableOK
  <2>5. CountersOK' /\ JobOK' /\ FlowsOK'
    BY <2>1 DEF CountersOK, JobOK, FlowsOK, counterVars, jobVars, flowVars
  <2>. QED
    BY <2>4, <2>5, TypePartsNext
<1>2. CASE Tick
  <2>1. /\ clock \in 0 .. MaxClock /\ clock' = clock + 1
        /\ clock' \in 0 .. MaxClock
        /\ UNCHANGED <<conns, rules, counterVars, jobVars, flowVars>>
    BY <1>2, TableAssumption DEF Tick, TableOK
  <2>2. TableOK'
    <3>1. \A t \in DOMAIN conns : conns[t].lastSeen \in 0 .. MaxClock
      BY DEF TableOK, Connection
    <3>2. \A t \in DOMAIN conns' : conns'[t].lastSeen <= clock'
      BY <2>1, <3>1, TableAssumption DEF TableOK
    <3>. QED
      BY <2>1, <3>2 DEF TableOK
  <2>3. FlowsOK'
    <3>1. 0 .. clock \subseteq 0 .. clock'
      BY <2>1
    <3>. QED
      BY <2>1, <3>1 DEF FlowsOK, flowVars
  <2>4. CountersOK' /\ JobOK'
    BY <2>1 DEF CountersOK, JobOK, counterVars, jobVars
  <2>. QED
    BY <2>2, <2>3, <2>4, TypePartsNext
<1>3. CASE ChangeRules
  <2>1. /\ rules' \subseteq AllRules /\ steady' \subseteq rules'
        /\ UNCHANGED <<conns, clock, counterVars, job, lock, reset, flowVars>>
    BY <1>3 DEF ChangeRules, JobOK
  <2>2. TableOK' /\ CountersOK' /\ FlowsOK'
    BY <2>1 DEF TableOK, CountersOK, FlowsOK, counterVars, flowVars
  <2>3. JobOK'
    BY <2>1 DEF JobOK
  <2>. QED
    BY <2>2, <2>3, TypePartsNext
<1>4. CASE UNCHANGED vars
  BY <1>4, TypePartsNext DEF TableOK, CountersOK, JobOK, FlowsOK, vars,
                             counterVars, jobVars, flowVars
<1>. QED
  BY <1>1, <1>2, <1>3, <1>4

\* The steps, one by one.
LEMMA Steps ==
    ASSUME [Next]_vars
    PROVE  \/ \E p \in Packets : Receive(p)
           \/ \E p \in job : \/ BlockConnection(p.tuple)
                             \/ AskNext(p.tuple)
                             \/ Forward(p.tuple)
           \/ CleanupStale \/ Tick \/ ChangeRules \/ UNCHANGED vars
  BY DEF Next, CheckRules

\* TypeOK is inductive.
LEMMA TypeStep == TypeOK /\ [Next]_vars => TypeOK'
  BY Steps, TypeReceive, TypeCheck, TypeOthers

\* For every capacity, every set of flows and whatever the API does to the
\* rules, the table stays within max_connections_ and well formed.
THEOREM TypeCorrect == Spec => []TypeOK
<1>. QED
  BY TypeInit, TypeStep, PTL DEF Spec

\* The packet in hand has a connection.
LEMMA InHand ==
    ASSUME TypeOK, NEW p \in job
    PROVE  /\ job = {p} /\ p \in Packets /\ lock \in Locks
           /\ p.tuple \in DOMAIN conns /\ conns[p.tuple] \in Connection
  BY DEF TypeOK

-----------------------------------------------------------------------------
(* A cut flow leaks only through a reset of its entry. *)

\* The inductive part: a cut flow that has an entry is blocked there, unless
\* its packet in hand has undone that; a blocked one is not in hand.
CutInv ==
    /\ \A t \in cut \cap DOMAIN conns :
           \/ conns[t].state = "BLOCKED"
           \/ reset /\ \E p \in job : p.tuple = t
    /\ \A p \in job : conns[p.tuple].state # "BLOCKED"

\* CutInv is inductive.
LEMMA CutStep == TypeOK /\ CutInv /\ [Next]_vars => CutInv'
<1>. SUFFICES ASSUME TypeOK, CutInv, [Next]_vars PROVE CutInv'
  OBVIOUS
<1>1. ASSUME NEW p \in Packets, Receive(p) PROVE CutInv'
  <2>. DEFINE t == p.tuple
  <2>1. PICK table \in Looked(t), c \in Connection, e \in Connection :
          /\ t \in DOMAIN table
          /\ conns' = [table EXCEPT ![t] = e]
          /\ ToRules(p, c)
          /\ e.state = "BLOCKED" <=> c.state = "BLOCKED"
          /\ t \in DOMAIN conns /\ conns[t].state = "BLOCKED" /\ ~Closes(p)
             => c.state = "BLOCKED"
    BY <1>1, Received
  <2>2. \A u \in DOMAIN table \ {t} : u \in DOMAIN conns /\ table[u] = conns[u]
    BY LookedTable, PacketAssumption DEF Packet
  <2>3. job = {}
    BY <1>1 DEF Receive
  <2>4. \A u \in DOMAIN conns' \ {t} :
            u \in DOMAIN conns /\ conns'[u] = conns[u]
    BY <2>1, <2>2
  <2>5. conns'[t] = e
    BY <2>1
  <2>6. cut' \subseteq cut \cup {t} /\ (t \in cut' => t \in cut \/ c.state = "BLOCKED")
    BY <2>1 DEF ToRules, Drop
  <2>7. \A u \in (cut' \cap DOMAIN conns') \ {t} : conns'[u].state = "BLOCKED"
    BY <2>3, <2>4, <2>6 DEF CutInv
  <2>8. CASE c.state = "BLOCKED"
    BY <2>1, <2>3, <2>5, <2>7, <2>8 DEF CutInv, ToRules, jobVars
  <2>9. CASE c.state # "BLOCKED"
    <3>1. job' = {p} /\ reset' = (t \notin DOMAIN conns \/ Closes(p))
      BY <2>1, <2>9 DEF ToRules
    <3>2. t \in cut' => reset'
      BY <2>1, <2>3, <2>6, <2>9, <3>1 DEF CutInv
    <3>. QED
      BY <2>1, <2>5, <2>7, <2>9, <3>1, <3>2 DEF CutInv
  <2>. QED
    BY <2>8, <2>9
<1>2. ASSUME NEW p \in job,
             BlockConnection(p.tuple) \/ AskNext(p.tuple) \/ Forward(p.tuple)
      PROVE  CutInv'
  <2>1. job = {p} /\ p.tuple \in DOMAIN conns /\ conns[p.tuple] \in Connection
    BY InHand
  <2>2. CASE BlockConnection(p.tuple)
    <3>1. /\ conns' = [conns EXCEPT ![p.tuple].state = "BLOCKED"]
          /\ cut' = cut \cup {p.tuple}
          /\ job' = {}
      BY <2>2 DEF BlockConnection, Drop, Answered
    <3>2. /\ DOMAIN conns' = DOMAIN conns
          /\ conns'[p.tuple].state = "BLOCKED"
          /\ \A u \in DOMAIN conns \ {p.tuple} : conns'[u] = conns[u]
      BY <2>1, <3>1 DEF Connection
    <3>. QED
      BY <2>1, <3>1, <3>2 DEF CutInv
  <2>3. CASE AskNext(p.tuple)
    BY <2>3 DEF AskNext, CutInv, flowVars
  <2>4. CASE Forward(p.tuple)
    BY <2>1, <2>4 DEF Forward, Answered, CutInv
  <2>. QED
    BY <1>2, <2>2, <2>3, <2>4
<1>3. CASE CleanupStale
  BY <1>3 DEF CleanupStale, Without, Restrict, CutInv, jobVars, flowVars
<1>4. CASE Tick \/ ChangeRules \/ UNCHANGED vars
  BY <1>4 DEF Tick, ChangeRules, vars, CutInv, jobVars, flowVars
<1>. QED
  BY <1>1, <1>2, <1>3, <1>4, Steps

\* A packet is forwarded by the last answer of the rules only.
LEMMA ForwardedLast ==
    ASSUME TypeOK, [Next]_vars, NEW p \in Packets, Forwards(p)
    PROVE  Forward(p.tuple)
<1>1. job = {p} /\ forwarded \in Nat /\ forwarded' > forwarded
  BY DEF Forwards, TypeOK
<1>2. \A q \in Packets : ~Receive(q)
  BY <1>1 DEF Receive
<1>3. ~BlockConnection(p.tuple) /\ ~AskNext(p.tuple)
  BY <1>1 DEF BlockConnection, Drop, AskNext, counterVars
<1>4. ~CleanupStale /\ ~Tick /\ ~ChangeRules /\ ~UNCHANGED vars
  BY <1>1 DEF CleanupStale, Tick, ChangeRules, vars, counterVars
<1>. QED
  BY <1>1, <1>2, <1>3, <1>4, Steps

\* For every capacity and timeout, and whatever happens to the rules: a
\* packet of a cut flow is let through only if the flow has lost its entry or
\* the packet closes it.
THEOREM CutFlowLeaksOnlyByReset == Spec => LeakNeedsReset
<1>. DEFINE Act == \A p \in Packets :
                       Forwards(p) /\ p.tuple \in cut => reset
<1>1. Init => CutInv
  BY DEF Init, CutInv
<1>2. TypeOK /\ CutInv => Act
  <2>. SUFFICES ASSUME TypeOK, CutInv, NEW p \in Packets, Forwards(p),
                       p.tuple \in cut
                PROVE  reset
    OBVIOUS
  <2>1. p \in job
    BY DEF Forwards
  <2>. QED
    BY <2>1, InHand DEF CutInv
<1>. QED
  BY <1>1, <1>2, CutStep, TypeInit, TypeStep, PTL DEF Spec, LeakNeedsReset

-----------------------------------------------------------------------------
(* A rule that is in force all along stops every packet it matches. *)

\* The locks that have been taken when a lock is next.
Passed(kind) == CASE kind = "port" -> {"ip"}
                  [] kind = "app" -> {"ip", "port"}
                  [] kind = "domain" -> {"ip", "port", "app"}
                  [] OTHER -> {}

\* The inductive part: no rule in force since the packet came, of a kind that
\* has been asked, matches.
AskedInv ==
    \A p \in job : \A r \in steady :
        r[1] \in Passed(lock) => ~Matches(r, p.tuple, conns[p.tuple])

\* AskedInv is inductive.
LEMMA AskedStep == TypeOK /\ AskedInv /\ [Next]_vars => AskedInv'
<1>. SUFFICES ASSUME TypeOK, AskedInv, [Next]_vars PROVE AskedInv'
  OBVIOUS
<1>1. ASSUME NEW p \in Packets, Receive(p) PROVE AskedInv'
  <2>1. PICK c \in Connection : ToRules(p, c)
    BY <1>1, Received
  <2>2. job' = {} \/ lock' = "ip"
    BY <1>1, <2>1 DEF ToRules, Receive, jobVars
  <2>. QED
    BY <2>2 DEF AskedInv, Passed
<1>2. ASSUME NEW p \in job,
             BlockConnection(p.tuple) \/ AskNext(p.tuple) \/ Forward(p.tuple)
      PROVE  AskedInv'
  <2>1. CASE AskNext(p.tuple)
    <3>1. /\ UNCHANGED <<conns, job, steady>>
          /\ ~Hit(lock, p.tuple, conns[p.tuple])
          /\ lock' = After(lock) /\ After(lock) # "none"
      BY <2>1 DEF AskNext
    <3>2. job = {p} /\ lock \in Locks /\ steady \subseteq rules
      BY InHand DEF TypeOK
    <3>3. Passed(lock') \subseteq Passed(lock) \cup {lock}
      BY <3>1, <3>2 DEF Locks, After, Passed
    <3>. QED
      BY <3>1, <3>2, <3>3 DEF AskedInv, Hit, Matches
  <2>2. CASE BlockConnection(p.tuple) \/ Forward(p.tuple)
    BY <2>2 DEF BlockConnection, Forward, Answered, AskedInv
  <2>. QED
    BY <1>2, <2>1, <2>2
<1>3. CASE CleanupStale
  BY <1>3 DEF CleanupStale, AskedInv, jobVars
<1>4. CASE Tick \/ ChangeRules \/ UNCHANGED vars
  BY <1>4 DEF Tick, ChangeRules, vars, AskedInv, jobVars, Matches
<1>. QED
  BY <1>1, <1>2, <1>3, <1>4, Steps

\* Whatever is known of a flow and whatever the API does to the rules before,
\* between and after the four locks: a rule that is in force from the moment a
\* packet comes until it is answered lets no packet through that it matches,
\* given what is known of the flow after that packet was inspected.
THEOREM SteadyRulesObeyed == Spec => ForwardedIsAllowed
<1>. DEFINE Act == \A p \in Packets : Forwards(p) =>
                       \A r \in steady : ~Matches(r, p.tuple, conns[p.tuple])
<1>1. Init => AskedInv
  BY DEF Init, AskedInv
<1>2. TypeOK /\ AskedInv /\ [Next]_vars => Act
  <2>. SUFFICES ASSUME TypeOK, AskedInv, [Next]_vars,
                       NEW p \in Packets, Forwards(p), NEW r \in steady
                PROVE  ~Matches(r, p.tuple, conns[p.tuple])
    OBVIOUS
  <2>1. p \in job /\ Forward(p.tuple) /\ steady \subseteq rules
    BY ForwardedLast DEF Forwards, TypeOK
  <2>2. lock = "domain" /\ ~Hit("domain", p.tuple, conns[p.tuple])
    BY <2>1, InHand DEF Forward, After, Locks
  <2>3. Matches(r, p.tuple, conns[p.tuple]) =>
            r[1] = "domain" \/ r[1] \in Passed("domain")
    BY DEF Matches, Passed
  <2>. QED
    BY <2>1, <2>2, <2>3 DEF Hit, AskedInv
<1>. QED
  BY <1>1, <1>2, AskedStep, TypeInit, TypeStep, PTL DEF Spec, ForwardedIsAllowed

-----------------------------------------------------------------------------
(* The flows that were active of late are in the table. *)

\* The active flows other than t since the latest packet of t.
Since(t) == {u \in DOMAIN last \ {t} : last[u] >= last[t]}

\* Why a flow may have no entry.
Excused(t) ==
    \/ t \in ended
    \/ clock - last[t] > StaleAge
    \/ Cardinality(Since(t)) >= MaxConnections

\* The inductive part: the table agrees with what is remembered of the flows.
RecentInv ==
    /\ DOMAIN conns \subseteq DOMAIN last
    /\ \A t \in DOMAIN conns :
           /\ conns[t].lastSeen = last[t]
           /\ conns[t].state = "CLOSED" =>
                  t \in ended \/ \E p \in job : p.tuple = t
    /\ \A t \in DOMAIN last \ DOMAIN conns : Excused(t)

\* A larger set has at least as many members.
LEMMA AtLeast ==
    ASSUME NEW S, NEW T, IsFiniteSet(T), S \subseteq T,
           Cardinality(S) >= MaxConnections
    PROVE  Cardinality(T) >= MaxConnections
<1>1. /\ Cardinality(S) \in Nat /\ Cardinality(T) \in Nat
      /\ Cardinality(S) <= Cardinality(T)
  BY FS_Subset, FS_CardinalityType
<1>. QED
  BY <1>1, TableAssumption

\* A packet arrives: it makes its own flow recent, and may evict another.
LEMMA RecentReceive ==
    ASSUME TypeOK, RecentInv, NEW p \in Packets, Receive(p)
    PROVE  RecentInv'
<1>. DEFINE t == p.tuple
<1>1. t \in Tuples
  BY PacketAssumption DEF Packet
<1>2. PICK table \in Looked(t), c \in Connection, e \in Connection :
        /\ t \in DOMAIN table
        /\ conns' = [table EXCEPT ![t] = e]
        /\ e.lastSeen = clock
        /\ ToRules(p, c)
        /\ e.state = "BLOCKED" <=> c.state = "BLOCKED"
  BY Received
<1>3. \A u \in DOMAIN table \ {t} : u \in DOMAIN conns /\ table[u] = conns[u]
  BY <1>1, LookedTable
<1>4. /\ DOMAIN conns' = DOMAIN table
      /\ conns'[t] = e
      /\ \A u \in DOMAIN conns' \ {t} : u \in DOMAIN conns /\ conns'[u] = conns[u]
  BY <1>2, <1>3
<1>5. /\ job = {} /\ clock' = clock
      /\ DOMAIN last' = DOMAIN last \cup {t}
      /\ last'[t] = clock
      /\ \A u \in DOMAIN last \ {t} : last'[u] = last[u]
      /\ ended' = ended \ {t}
  BY DEF Receive
<1>6. job' = {p} \/ e.state = "BLOCKED"
  BY <1>2 DEF ToRules
<1>7. /\ DOMAIN conns' \subseteq DOMAIN last'
      /\ \A u \in DOMAIN conns' :
             /\ conns'[u].lastSeen = last'[u]
             /\ conns'[u].state = "CLOSED" =>
                    u \in ended' \/ \E q \in job' : q.tuple = u
  <2>1. ASSUME NEW u \in DOMAIN conns', u # t
        PROVE  /\ u \in DOMAIN last'
               /\ conns'[u].lastSeen = last'[u]
               /\ conns'[u].state = "CLOSED" => u \in ended'
    BY <1>4, <1>5, <2>1 DEF RecentInv
  <2>2. /\ t \in DOMAIN last' /\ conns'[t].lastSeen = last'[t]
        /\ conns'[t].state = "CLOSED" => \E q \in job' : q.tuple = t
    BY <1>2, <1>4, <1>5, <1>6
  <2>. QED
    BY <2>1, <2>2
<1>8. ASSUME NEW u \in DOMAIN last' \ DOMAIN conns' PROVE Excused(u)'
  <2>1. u # t /\ u \in DOMAIN last /\ last'[u] = last[u]
    BY <1>2, <1>4, <1>5
  <2>2. /\ \A v \in DOMAIN last : last[v] \in 0 .. clock
        /\ clock \in Nat
        /\ IsFiniteSet(DOMAIN last)
    BY DEF TypeOK
  <2>3. Since(u)' = {v \in DOMAIN last' \ {u} : last'[v] >= last'[u]}
    BY DEF Since
  <2>4. Since(u) \subseteq Since(u)' /\ t \in Since(u)'
    BY <1>5, <2>1, <2>2, <2>3 DEF Since
  <2>5. IsFiniteSet(Since(u)')
    <3>1. IsFiniteSet(DOMAIN last')
      BY <1>5, <2>2, FS_AddElement
    <3>. QED
      BY <2>3, <3>1, FS_Subset
  <2>6. CASE u \notin DOMAIN conns
    <3>1. Excused(u)
      BY <2>1, <2>6 DEF RecentInv
    <3>2. Cardinality(Since(u)) >= MaxConnections =>
              Cardinality(Since(u)') >= MaxConnections
      BY <2>4, <2>5, AtLeast
    <3>. QED
      BY <1>5, <2>1, <3>1, <3>2 DEF Excused
  <2>7. CASE u \in DOMAIN conns
    <3>1. t \notin DOMAIN conns /\ Full /\ u \in Oldest
      BY <1>4, <2>7, EvictedIsOldest
    <3>. DEFINE S == (DOMAIN conns \ {u}) \cup {t}
    <3>2. S \subseteq Since(u)'
      <4>1. \A v \in DOMAIN conns : v \in DOMAIN last /\ last[u] <= last[v]
        BY <2>7, <3>1 DEF Oldest, RecentInv
      <4>2. \A v \in DOMAIN conns \ {u} : v \in Since(u)
        BY <2>1, <2>2, <4>1 DEF Since
      <4>. QED
        BY <2>4, <4>2
    <3>3. Cardinality(S) >= MaxConnections
      <4>. DEFINE R == DOMAIN conns \ {u}
      <4>1. IsFiniteSet(DOMAIN conns) /\ Cardinality(DOMAIN conns) >= MaxConnections
        BY <3>1 DEF TypeOK, Full
      <4>2. /\ IsFiniteSet(R)
            /\ Cardinality(R) = Cardinality(DOMAIN conns) - 1
        BY <2>7, <4>1, FS_RemoveElement
      <4>3. t \notin R /\ S = R \cup {t}
        BY <3>1
      <4>. HIDE DEF R, S
      <4>4. Cardinality(S) = Cardinality(R) + 1
        BY <4>2, <4>3, FS_AddElement
      <4>5. Cardinality(DOMAIN conns) \in Nat /\ Cardinality(R) \in Nat
        BY <4>1, <4>2, FS_CardinalityType
      <4>. QED
        BY <4>1, <4>2, <4>4, <4>5, TableAssumption
    <3>. HIDE DEF S
    <3>4. Cardinality(Since(u)') >= MaxConnections
      BY <2>5, <3>2, <3>3, AtLeast
    <3>. QED
      BY <3>4 DEF Excused
  <2>. QED
    BY <2>6, <2>7
<1>. QED
  BY <1>7, <1>8 DEF RecentInv

\* RecentInv is inductive.
LEMMA RecentStep == TypeOK /\ RecentInv /\ [Next]_vars => RecentInv'
<1>. SUFFICES ASSUME TypeOK, RecentInv, [Next]_vars PROVE RecentInv'
  OBVIOUS
<1>1. ASSUME NEW p \in Packets, Receive(p) PROVE RecentInv'
  BY <1>1, RecentReceive
<1>2. ASSUME NEW p \in job,
             BlockConnection(p.tuple) \/ AskNext(p.tuple) \/ Forward(p.tuple)
      PROVE  RecentInv'
  <2>1. job = {p} /\ p.tuple \in DOMAIN conns /\ conns[p.tuple] \in Connection
    BY InHand
  <2>2. CASE BlockConnection(p.tuple)
    <3>1. /\ conns' = [conns EXCEPT ![p.tuple].state = "BLOCKED"]
          /\ UNCHANGED <<clock, last, ended>>
      BY <2>2 DEF BlockConnection
    <3>2. /\ DOMAIN conns' = DOMAIN conns
          /\ conns'[p.tuple].state = "BLOCKED"
          /\ conns'[p.tuple].lastSeen = conns[p.tuple].lastSeen
          /\ \A u \in DOMAIN conns \ {p.tuple} : conns'[u] = conns[u]
      BY <2>1, <3>1 DEF Connection
    <3>3. \A u : Excused(u)' <=> Excused(u)
      BY <3>1 DEF Excused, Since
    <3>. QED
      BY <2>1, <3>1, <3>2, <3>3 DEF RecentInv
  <2>3. CASE AskNext(p.tuple)
    <3>1. UNCHANGED <<conns, clock, last, ended, job>>
      BY <2>3 DEF AskNext, flowVars
    <3>2. \A u : Excused(u)' <=> Excused(u)
      BY <3>1 DEF Excused, Since
    <3>. QED
      BY <3>1, <3>2 DEF RecentInv
  <2>4. CASE Forward(p.tuple)
    <3>1. /\ UNCHANGED <<conns, clock, last>>
          /\ ended' = IF conns[p.tuple].state = "CLOSED"
                      THEN ended \cup {p.tuple} ELSE ended
      BY <2>4 DEF Forward
    <3>2. \A u : Excused(u) => Excused(u)'
      BY <3>1 DEF Excused, Since
    <3>. QED
      BY <2>1, <3>1, <3>2 DEF RecentInv
  <2>. QED
    BY <1>2, <2>2, <2>3, <2>4
<1>3. CASE CleanupStale
  <2>1. /\ conns' = [t \in DOMAIN conns \ Gone |-> conns[t]]
        /\ job = {} /\ UNCHANGED <<clock, last, ended, job>>
    BY <1>3 DEF CleanupStale, Without, Restrict, jobVars, flowVars
  <2>2. \A u : Excused(u)' <=> Excused(u)
    BY <2>1 DEF Excused, Since
  <2>3. \A t \in DOMAIN conns \cap Gone : Excused(t)
    BY <2>1 DEF Gone, Excused, RecentInv
  <2>. QED
    BY <2>1, <2>2, <2>3 DEF RecentInv
<1>4. CASE Tick
  <2>1. clock' = clock + 1 /\ UNCHANGED <<conns, last, ended, job>>
    BY <1>4 DEF Tick, jobVars, flowVars
  <2>2. /\ clock \in Nat /\ StaleAge \in Nat
        /\ \A t \in DOMAIN last : last[t] \in Nat
    BY TableAssumption DEF TypeOK
  <2>3. ASSUME NEW t \in DOMAIN last, Excused(t) PROVE Excused(t)'
    BY <2>1, <2>2, <2>3 DEF Excused, Since
  <2>. QED
    BY <2>1, <2>3 DEF RecentInv
<1>5. CASE ChangeRules \/ UNCHANGED vars
  <2>1. UNCHANGED <<conns, clock, last, ended, job>>
    BY <1>5 DEF ChangeRules, vars, jobVars, flowVars
  <2>2. \A u : Excused(u)' <=> Excused(u)
    BY <2>1 DEF Excused, Since
  <2>. QED
    BY <2>1, <2>2 DEF RecentInv
<1>. QED
  BY <1>1, <1>2, <1>3, <1>4, <1>5, Steps

\* For every capacity, timeout and mix of flows: what is known of a flow, its
\* block included, is lost only by closing it, by a silence longer than the
\* timeout, or to as many other flows as the table holds that were active
\* since.  Evictions and cleanups in any order never add up to less.
THEOREM RecentKept == Spec => []RecentFlowsKept
<1>1. Init => RecentInv
  BY DEF Init, RecentInv
<1>2. RecentInv => RecentFlowsKept
  BY DEF RecentInv, RecentFlowsKept, Excused, Since
<1>. QED
  BY <1>1, <1>2, RecentStep, TypeInit, TypeStep, PTL DEF Spec

-----------------------------------------------------------------------------
(* What stays known of a flow. *)

\* A connection with a name has been classified.
NamedIsClassified(c) ==
    c.sni # EmptyName => c.state \in {"CLASSIFIED", "BLOCKED", "CLOSED"}

\* A packet keeps that so, and keeps the application and the name of a named
\* connection that is not closed, before or by the packet.
LEMMA NamedEntry ==
    ASSUME TypeOK, NEW c \in Connection, NEW p \in Packets,
           NamedIsClassified(c)
    PROVE  LET e == Inspected(Touched(c, p), p) IN
           /\ NamedIsClassified(e)
           /\ /\ c.sni # EmptyName
              /\ c.state # "CLOSED"
              /\ ~(/\ p.tuple \in TcpTuples
                   /\ \/ "RST" \in p.flags
                      \/ "ACK" \in p.flags /\ ("FIN" \in p.flags \/ c.fin))
              => e.sni = c.sni /\ e.app = c.app
<1>. DEFINE touched == Touched(c, p)
            e == Inspected(touched, p)
            closes == /\ p.tuple \in TcpTuples
                      /\ \/ "RST" \in p.flags
                         \/ "ACK" \in p.flags /\ ("FIN" \in p.flags \/ c.fin)
<1>1. /\ touched \in Connection
      /\ touched.sni = c.sni /\ touched.app = c.app
      /\ \/ touched.state = c.state
         \/ touched.state = "ESTABLISHED" /\ c.state = "NEW"
         \/ touched.state = "CLOSED" /\ closes
  BY TouchedEntry
<1>. HIDE DEF touched, closes
<1>2. \/ e = touched
      \/ /\ touched.state \notin {"BLOCKED", "CLASSIFIED"}
         /\ e.state = "CLASSIFIED"
  BY <1>1, InspectedEntry
<1>. HIDE DEF e
<1>3. NamedIsClassified(e)
  BY <1>1, <1>2 DEF NamedIsClassified
<1>4. c.sni # EmptyName /\ c.state # "CLOSED" /\ ~closes => e = touched
  BY <1>1, <1>2 DEF NamedIsClassified
<1>. QED
  BY <1>1, <1>3, <1>4 DEF e, touched, closes

\* The inductive part of IdentityKept.
NamedInv == \A t \in DOMAIN conns : NamedIsClassified(conns[t])

\* A packet that arrives leaves every named flow named alike, its own unless
\* it closes it.
LEMMA NamedReceive ==
    ASSUME TypeOK, NamedInv, NEW p \in Packets, Receive(p),
           NEW t \in DOMAIN conns'
    PROVE  /\ NamedIsClassified(conns'[t])
           /\ /\ t \in DOMAIN conns
              /\ conns[t].sni # EmptyName
              /\ conns[t].state # "CLOSED"
              /\ ~(t = p.tuple /\ Closes(p))
              => /\ conns'[t].sni = conns[t].sni
                 /\ conns'[t].app = conns[t].app
<1>1. PICK table \in Looked(p.tuple) :
        /\ p.tuple \in DOMAIN table
        /\ conns' = [table EXCEPT
              ![p.tuple] = Inspected(Touched(table[p.tuple], p), p)]
  BY Received
<1>2. /\ table[p.tuple] \in Connection
      /\ \A u \in DOMAIN table \ {p.tuple} :
             u \in DOMAIN conns /\ table[u] = conns[u]
      /\ p.tuple \in DOMAIN conns => table = conns
  BY <1>1, LookedTable, PacketAssumption DEF Packet
<1>3. NamedIsClassified(table[p.tuple])
  <2>1. CASE p.tuple \in DOMAIN conns
    BY <1>2, <2>1 DEF NamedInv
  <2>2. CASE p.tuple \notin DOMAIN conns
    <3>1. table[p.tuple] = NewConnection
      BY <2>2 DEF Looked, With
    <3>. QED
      BY <3>1 DEF NewConnection, NamedIsClassified
  <2>. QED
    BY <2>1, <2>2
<1>. DEFINE c == table[p.tuple]
            e == Inspected(Touched(c, p), p)
<1>4. /\ NamedIsClassified(e)
      /\ /\ c.sni # EmptyName
         /\ c.state # "CLOSED"
         /\ ~(/\ p.tuple \in TcpTuples
              /\ \/ "RST" \in p.flags
                 \/ "ACK" \in p.flags /\ ("FIN" \in p.flags \/ c.fin))
         => e.sni = c.sni /\ e.app = c.app
  BY <1>2, <1>3, NamedEntry
<1>5. conns' = [table EXCEPT ![p.tuple] = e]
  BY <1>1
<1>. HIDE DEF e
<1>6. CASE t = p.tuple
  <2>1. conns'[t] = e
    BY <1>1, <1>5, <1>6
  <2>. QED
    BY <1>2, <1>4, <1>6, <2>1 DEF Closes
<1>7. CASE t # p.tuple
  <2>1. t \in DOMAIN conns /\ conns'[t] = conns[t]
    BY <1>2, <1>5, <1>7
  <2>. QED
    BY <2>1 DEF NamedInv
<1>. QED
  BY <1>6, <1>7

\* Every other step leaves what is known of the flows in the table alone.
LEMMA NamedOthers ==
    ASSUME TypeOK, NamedInv, [Next]_vars, NEW t \in DOMAIN conns',
           \A p \in Packets : ~Receive(p)
    PROVE  /\ t \in DOMAIN conns /\ NamedIsClassified(conns'[t])
           /\ conns'[t].sni = conns[t].sni
           /\ conns'[t].app = conns[t].app
<1>1. ASSUME NEW p \in job, BlockConnection(p.tuple)
      PROVE  /\ t \in DOMAIN conns
             /\ \/ conns'[t] = conns[t]
                \/ conns'[t] = [conns[t] EXCEPT !.state = "BLOCKED"]
  BY <1>1 DEF BlockConnection
<1>2. ASSUME NEW p \in job, AskNext(p.tuple) \/ Forward(p.tuple)
      PROVE  t \in DOMAIN conns /\ conns'[t] = conns[t]
  BY <1>2 DEF AskNext, Forward
<1>3. CleanupStale => t \in DOMAIN conns /\ conns'[t] = conns[t]
  BY DEF CleanupStale, Without, Restrict
<1>4. Tick \/ ChangeRules \/ UNCHANGED vars =>
          t \in DOMAIN conns /\ conns'[t] = conns[t]
  BY DEF Tick, ChangeRules, vars
<1>5. /\ t \in DOMAIN conns
      /\ \/ conns'[t] = conns[t]
         \/ conns'[t] = [conns[t] EXCEPT !.state = "BLOCKED"]
  BY <1>1, <1>2, <1>3, <1>4, Steps
<1>6. conns[t] \in Connection /\ NamedIsClassified(conns[t])
  BY <1>5 DEF TypeOK, NamedInv
<1>. QED
  BY <1>5, <1>6 DEF NamedIsClassified, Connection

\* NamedInv is inductive.
LEMMA NamedStep == TypeOK /\ NamedInv /\ [Next]_vars => NamedInv'
<1>. SUFFICES ASSUME TypeOK, NamedInv, [Next]_vars,
                     NEW t \in DOMAIN conns'
              PROVE  NamedIsClassified(conns'[t])
  BY DEF NamedInv, NamedIsClassified
<1>1. CASE \E p \in Packets : Receive(p)
  BY <1>1, NamedReceive
<1>2. CASE \A p \in Packets : ~Receive(p)
  BY <1>2, NamedOthers
<1>. QED
  BY <1>1, <1>2

\* A named flow keeps its name and application through every packet, of its
\* own or of others, until a packet closes it: classification is not undone
\* by what later payloads look like, nor by the handshake flags.
THEOREM IdentitySurvives == Spec => IdentityKept
<1>. DEFINE Kept(t) == /\ conns'[t].sni = conns[t].sni
                       /\ conns'[t].app = conns[t].app
            Act == \A t \in DOMAIN conns \cap DOMAIN conns' :
                      /\ conns[t].sni # EmptyName
                      /\ conns[t].state # "CLOSED"
                      /\ ~\E p \in Packets :
                              t = p.tuple /\ Receive(p) /\ Closes(p)
                      => Kept(t)
<1>1. Init => NamedInv
  BY DEF Init, NamedInv
<1>2. TypeOK /\ NamedInv /\ [Next]_vars => Act
  <2>. SUFFICES ASSUME TypeOK, NamedInv, [Next]_vars,
                       NEW t \in DOMAIN conns \cap DOMAIN conns',
                       conns[t].sni # EmptyName, conns[t].state # "CLOSED",
                       ~\E p \in Packets :
                            t = p.tuple /\ Receive(p) /\ Closes(p)
                PROVE  Kept(t)
    OBVIOUS
  <2>1. CASE \E p \in Packets : Receive(p)
    BY <2>1, NamedReceive
  <2>2. CASE \A p \in Packets : ~Receive(p)
    BY <2>2, NamedOthers
  <2>. QED
    BY <2>1, <2>2
<1>. QED
  BY <1>1, <1>2, NamedStep, TypeInit, TypeStep, PTL DEF Spec, IdentityKept
=============================================================================
