------------------------------ MODULE FlowTracker ------------------------------
(***************************************************************************)
(* One fast path of the first engine (src/src/fast_path.cpp) with its      *)
(* connection table (src/src/connection_tracker.cpp): the thread handles   *)
(* one packet at a time, cleans the table up when its queue stays empty,   *)
(* and asks the rule manager, whose rules the API may change meanwhile.    *)
(*                                                                         *)
(* The table is private to the thread, so looking a packet up and into it  *)
(* is one step; the check of the rules that follows takes a lock for each  *)
(* kind of rule, and is a step for each of them.  A payload is what the    *)
(* extractors find in it.  Ages are counted in ticks.                      *)
(***************************************************************************)
EXTENDS Integers, FiniteSets, Functions

CONSTANTS
    Tuples,          \* the five-tuples that occur
    TcpTuples,       \* those with protocol 6
    SrcIP, SrcPort, DstPort,
    Names,           \* the SNI / Host / query strings that occur
    EmptyName,       \* the empty string
    AppTypes, UNKNOWN, HTTP, HTTPS, DNS,
    NameApp,         \* sniToAppType
    Covers,          \* the names each blocked domain or pattern matches
    AllRules,        \* the rules the API may set: <<kind, value>>
    Packets,         \* the packets that may arrive
    MaxConnections,  \* max_connections_
    StaleAge,        \* the timeout of cleanupStale
    MaxClock, PacketLimit  \* bounds: ticks, and packets handled

Flags == {"SYN", "ACK", "FIN", "RST"}
Payload == [kind : {"none", "other", "tls", "http", "dns"}, name : Names]
Packet == [tuple : Tuples, flags : SUBSET Flags, payload : Payload]

ASSUME TableAssumption ==
    /\ MaxConnections \in Nat \ {0}
    /\ StaleAge \in Nat
    /\ MaxClock \in Nat
    /\ PacketLimit \in Nat

ASSUME PacketAssumption ==
    /\ Packets \subseteq Packet
    /\ EmptyName \in Names
    /\ {UNKNOWN, HTTP, HTTPS, DNS} \subseteq AppTypes
    /\ NameApp \in [Names -> AppTypes]

VARIABLES
    conns,       \* connections_: tuple -> connection
    clock,       \* steady_clock, in ticks
    rules,       \* the rules in force
    seen, classifiedCount, blockedCount, \* the tracker's counters
    extractions, \* sni_extractions_
    forwarded, dropped, \* the fast path's counters
    job,         \* the packet whose rules are being checked, if any
    lock,        \* the lock shouldBlock takes next for it
    cut,         \* history: the flows whose latest packet was dropped
    reset,       \* history: that packet found no entry, or closes its flow
    steady,      \* history: the rules in force ever since it came
    last, ended  \* history: when each flow's latest packet came, and the
                 \* flows it left closed

counterVars == <<seen, classifiedCount, blockedCount, extractions,
                 forwarded, dropped>>
jobVars == <<job, lock, reset, steady>>
flowVars == <<cut, last, ended>>
vars == <<conns, clock, rules, counterVars, jobVars, flowVars>>

States == {"NEW", "ESTABLISHED", "CLASSIFIED", "BLOCKED", "CLOSED"}
Connection == [state : States, app : AppTypes, sni : Names,
               syn : BOOLEAN, synAck : BOOLEAN, fin : BOOLEAN,
               lastSeen : 0 .. MaxClock]
NewConnection == [state |-> "NEW", app |-> UNKNOWN, sni |-> EmptyName,
                  syn |-> FALSE, synAck |-> FALSE, fin |-> FALSE,
                  lastSeen |-> clock]

With(table, t) == [u \in DOMAIN table \cup {t} |->
                       IF u = t THEN NewConnection ELSE table[u]]
Without(gone) == Restrict(conns, DOMAIN conns \ gone)

-----------------------------------------------------------------------------
(* The connection table. *)

\* evictOldest: one of the connections with the smallest last_seen, whichever
\* comes first in the hash table.
Newest == {t \in DOMAIN conns :  \* mutant: compared the wrong way round
    \A u \in DOMAIN conns : conns[t].lastSeen >= conns[u].lastSeen}
Oldest == {t \in DOMAIN conns :
    \A u \in DOMAIN conns : conns[t].lastSeen <= conns[u].lastSeen}

AlmostFull == Cardinality(DOMAIN conns) > MaxConnections  \* mutant
Full == Cardinality(DOMAIN conns) >= MaxConnections

\* getOrCreateConnection: the tables the lookup of t may leave behind.
Looked(t) ==
    IF t \in DOMAIN conns THEN {conns}
    ELSE LET kept == IF Full THEN {Without({o}) : o \in Oldest} ELSE {conns}
         IN {With(c, t) : c \in kept}

\* updateTCPState.  Each tuple is one direction, so a connection opens only
\* if its SYN and its SYN+ACK carry the same tuple.
HandshakeOpens(c, flags) ==  \* mutant: the handshake overwrites any state
    c.syn /\ c.synAck /\ "ACK" \in flags
Opens(c, flags) == c.syn /\ c.synAck /\ "ACK" \in flags /\ c.state = "NEW"

TcpUpdated(c, flags) ==
    LET flagged == [c EXCEPT
            !.syn = @ \/ ("SYN" \in flags /\ "ACK" \notin flags),
            !.synAck = @ \/ {"SYN", "ACK"} \subseteq flags,
            !.fin = @ \/ "FIN" \in flags]
        closes == "RST" \in flags \/ (flagged.fin /\ "ACK" \in flags)
    IN [flagged EXCEPT !.state = IF closes THEN "CLOSED"
                                 ELSE IF Opens(flagged, flags)
                                 THEN "ESTABLISHED" ELSE @]

\* The entry after getOrCreateConnection, updateConnection, updateTCPState.
Touched(c, p) ==
    LET now == [c EXCEPT !.lastSeen = clock]
    IN IF p.tuple \in TcpTuples THEN TcpUpdated(now, p.flags) ELSE now

-----------------------------------------------------------------------------
(* Inspection.  A payload with an SNI is longer than the 50 bytes that      *)
(* tryExtractSNI asks of other ports, so the port does not matter there.   *)

MayInspect(c, p) ==
    c.state \notin {"BLOCKED", "CLASSIFIED"} /\ p.payload.kind # "none"

\* The application and the name inspectPayload classifies the connection
\* with, if any.
Findings(p) ==
    LET t == p.tuple
        name == p.payload.name
    IN
    IF \/ p.payload.kind = "tls"
       \/ p.payload.kind = "http" /\ DstPort[t] = 80
    THEN {<<NameApp[name], name>>}
    ELSE IF p.payload.kind = "dns" /\ 53 \in {SrcPort[t], DstPort[t]}
    THEN {<<DNS, name>>}
    ELSE IF DstPort[t] = 80 THEN {<<HTTP, EmptyName>>}
    ELSE IF DstPort[t] = 443 THEN {<<HTTPS, EmptyName>>}
    ELSE {}

\* classifyConnection
Inspected(c, p) ==
    IF MayInspect(c, p) /\ Findings(p) # {}
    THEN LET found == CHOOSE f \in Findings(p) : TRUE
         IN [c EXCEPT !.state = "CLASSIFIED",
                      !.app = found[1], !.sni = found[2]]
    ELSE c

-----------------------------------------------------------------------------
(* RuleManager::shouldBlock: a lock for each kind of rule. *)

Matches(r, t, c) ==
    \/ r[1] = "ip" /\ r[2] = SrcIP[t]
    \/ r[1] = "port" /\ r[2] = DstPort[t]
    \/ r[1] = "app" /\ r[2] = c.app
    \/ r[1] = "domain" /\ c.sni # EmptyName /\ c.sni \in Covers[r[2]]

\* Whether a rule of the kind is in force that matches.
Hit(kind, t, c) == \E r \in rules : r[1] = kind /\ Matches(r, t, c)

Locks == {"ip", "port", "app", "domain"}
AfterSkipping(kind) ==  \* mutant: the apps are not asked
    CASE kind = "ip" -> "port" [] kind = "port" -> "domain"
      [] kind = "app" -> "domain" [] kind = "domain" -> "none"
After(kind) ==
    CASE kind = "ip" -> "port" [] kind = "port" -> "app"
      [] kind = "app" -> "domain" [] kind = "domain" -> "none"

-----------------------------------------------------------------------------
(* processPacket. *)

\* A packet that closes the connection it belongs to.
Closes(p) ==
    /\ p.tuple \in TcpTuples
    /\ \/ "RST" \in p.flags
       \/ "ACK" \in p.flags
          /\ ("FIN" \in p.flags \/ conns[p.tuple].fin)

Drop(t) ==
    /\ dropped' = dropped + 1
    /\ cut' = cut \cup {t}
    /\ UNCHANGED forwarded

\* A packet of a blocked connection is dropped at once, another one is taken
\* to the rules.
ToRules(p, c) ==
    \/ /\ c.state = "BLOCKED"
       /\ Drop(p.tuple)
       /\ UNCHANGED jobVars
    \/ /\ c.state # "BLOCKED"
       /\ job' = {p}
       /\ lock' = "ip"
       /\ reset' = (p.tuple \notin DOMAIN conns \/ Closes(p))
       /\ steady' = rules
       /\ UNCHANGED <<forwarded, dropped, cut>>

\* A packet is popped, and its connection is looked up, updated, inspected.
Receive(p) ==
    LET t == p.tuple IN
    /\ job = {}
    /\ forwarded + dropped < PacketLimit
    /\ \E table \in Looked(t) :
         LET touched == Touched(table[t], p)
             found == MayInspect(touched, p) /\ Findings(p) # {}
         IN
         /\ conns' = [table EXCEPT ![t] = Inspected(touched, p)]
         /\ classifiedCount' = classifiedCount + (IF found THEN 1 ELSE 0)
         /\ extractions' = extractions +
                (IF found /\ p.payload.kind = "tls" THEN 1 ELSE 0)
         /\ ToRules(p, touched)
    /\ seen' = IF t \in DOMAIN conns THEN seen ELSE seen + 1
    /\ last' = [u \in DOMAIN last \cup {t} |-> IF u = t THEN clock ELSE last[u]]
    /\ ended' = ended \ {t}
    /\ UNCHANGED <<clock, rules, blockedCount>>

\* The answer is given.
Answered == job' = {} /\ lock' = "none" /\ reset' = FALSE /\ steady' = {}

\* checkRules, under one lock: the rules of a kind block the connection, or
\* the next kind is asked, or none is left and the packet passes.
BlockConnection(t) ==
    /\ Hit(lock, t, conns[t])
    /\ conns' = [conns EXCEPT ![t].state = "BLOCKED"]
    /\ blockedCount' = blockedCount + 1
    /\ Drop(t)
    /\ Answered
    /\ UNCHANGED <<clock, rules, seen, classifiedCount, extractions, last, ended>>

AskNext(t) ==
    /\ ~Hit(lock, t, conns[t])
    /\ After(lock) # "none"
    /\ lock' = After(lock)
    /\ UNCHANGED <<conns, clock, rules, counterVars, job, reset, steady, flowVars>>

Forward(t) ==
    /\ ~Hit(lock, t, conns[t])
    /\ After(lock) = "none"
    /\ forwarded' = forwarded + 1
    /\ cut' = cut \ {t}
    /\ ended' = IF conns[t].state = "CLOSED" THEN ended \cup {t} ELSE ended
    /\ Answered
    /\ UNCHANGED <<conns, clock, rules, seen, classifiedCount, blockedCount,
                   extractions, dropped, last>>

CheckRules ==
    \E p \in job :
        BlockConnection(p.tuple) \/ AskNext(p.tuple) \/ Forward(p.tuple)

-----------------------------------------------------------------------------
\* cleanupStale, when no packet came for a while.
Gone == {t \in DOMAIN conns : \/ clock - conns[t].lastSeen > StaleAge
                              \/ conns[t].state = "CLOSED"}
CleanupStale ==
    /\ job = {}
    /\ conns' = Without(Gone)
    /\ UNCHANGED <<clock, rules, counterVars, jobVars, flowVars>>

Tick ==
    /\ clock < MaxClock
    /\ clock' = clock + 1
    /\ UNCHANGED <<conns, rules, counterVars, jobVars, flowVars>>

\* The rule API, called from another thread, also while a check is under way.
ChangeRules ==
    /\ \E r \in AllRules : rules' \in {rules \cup {r}, rules \ {r}}
    /\ steady' = steady \cap rules'
    /\ UNCHANGED <<conns, clock, counterVars, job, lock, reset, flowVars>>

-----------------------------------------------------------------------------
Init ==
    /\ conns = [t \in {} |-> NewConnection]
    /\ clock = 0
    /\ rules \in SUBSET AllRules
    /\ seen = 0
    /\ classifiedCount = 0
    /\ blockedCount = 0
    /\ extractions = 0
    /\ forwarded = 0
    /\ dropped = 0
    /\ job = {}
    /\ lock = "none"
    /\ reset = FALSE
    /\ steady = {}
    /\ cut = {}
    /\ last = [t \in {} |-> 0]
    /\ ended = {}

Next ==
    \/ \E p \in Packets : Receive(p)
    \/ CheckRules
    \/ CleanupStale
    \/ Tick
    \/ ChangeRules

Spec == Init /\ [][Next]_vars

-----------------------------------------------------------------------------
(* Properties. *)

\* The table never holds more than max_connections_ entries, each well formed.
TypeOK ==
    /\ DOMAIN conns \subseteq Tuples
    /\ IsFiniteSet(DOMAIN conns)
    /\ Cardinality(DOMAIN conns) <= MaxConnections
    /\ conns \in [DOMAIN conns -> Connection]
    /\ clock \in 0 .. MaxClock
    /\ \A t \in DOMAIN conns : conns[t].lastSeen <= clock
    /\ rules \subseteq AllRules
    /\ seen \in Nat
    /\ classifiedCount \in Nat
    /\ blockedCount \in Nat
    /\ extractions \in Nat
    /\ forwarded \in Nat
    /\ dropped \in Nat
    /\ job = {} \/ \E p \in Packets : job = {p} /\ p.tuple \in DOMAIN conns
    /\ lock \in IF job = {} THEN {"none"} ELSE Locks
    /\ reset \in BOOLEAN
    /\ steady \subseteq rules
    /\ cut \subseteq Tuples
    /\ DOMAIN last \subseteq Tuples
    /\ IsFiniteSet(DOMAIN last)
    /\ last \in [DOMAIN last -> 0 .. clock]
    /\ ended \subseteq Tuples

Forwards(p) == job = {p} /\ forwarded' > forwarded

\* A flow that was cut stays cut, whatever happens to the rules, except by
\* losing its entry (evicted or timed out) or by a packet that closes it
\* (updateTCPState overwrites BLOCKED before fast_path.cpp:97 looks at it).
LeakNeedsReset ==
    [][\A p \in Packets : Forwards(p) /\ p.tuple \in cut => reset]_vars

\* README.md:853-862: once a flow is blocked, all its later packets are
\* dropped.
BlockedFlowStaysCut ==
    [][\A p \in Packets : Forwards(p) => p.tuple \notin cut]_vars

\* A flow that was identified keeps its application and its name until a
\* packet closes it, although later payloads look like nothing
\* (fast_path.cpp:102).  A closed one may be identified anew.
IdentityKept ==
    [][\A t \in DOMAIN conns \cap DOMAIN conns' :
          /\ conns[t].sni # EmptyName
          /\ conns[t].state # "CLOSED"
          /\ ~\E p \in Packets : t = p.tuple /\ Receive(p) /\ Closes(p)
          => /\ conns'[t].sni = conns[t].sni
             /\ conns'[t].app = conns[t].app]_vars

\* What a flow was blocked for, and what is known of it, is not forgotten
\* early (connection_tracker.cpp:25, 105): a flow without an entry was left
\* closed by its latest packet, or has been silent for longer than the
\* timeout, or since that packet as many other flows as the table holds have
\* been active.
RecentFlowsKept ==
    \A t \in DOMAIN last \ DOMAIN conns :
        \/ t \in ended
        \/ clock - last[t] > StaleAge
        \/ Cardinality({u \in DOMAIN last \ {t} : last[u] >= last[t]})
               >= MaxConnections

\* "Check rules (even for classified connections, as rules might change)"
\* (fast_path.cpp:106): a packet is not let through if a rule that has been in
\* force ever since the packet came matches what is known of its flow, that
\* packet's payload included, whatever the API does to the other rules while
\* shouldBlock goes from lock to lock.
ForwardedIsAllowed ==
    [][\A p \in Packets : Forwards(p) =>
          \A r \in steady : ~Matches(r, p.tuple, conns[p.tuple])]_vars
=============================================================================
