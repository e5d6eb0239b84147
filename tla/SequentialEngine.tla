-------------------------- MODULE SequentialEngine --------------------------
(***************************************************************************)
(* The single-threaded program (src/src/main_working.cpp): one loop over   *)
(* the capture with one flow table.  It has no threads, no queues and no   *)
(* quotas, so what it does with a capture is a function of the capture,    *)
(* and the reference for the multi-threaded engine.                        *)
(***************************************************************************)
EXTENDS Integers, Sequences

CONSTANTS
    Flows,        \* the five-tuples that occur
    TcpFlows,     \* those with protocol 6
    SrcIP, SrcPort, DstPort,
    EmptyName,    \* Flow::sni of a new flow
    NoHost,       \* std::nullopt of the extractors
    AppTypes, UNKNOWN, HTTP, HTTPS, DNS,
    NameApp,      \* sniToAppType
    BlockedIPs, BlockedApps,
    BlockedNames  \* names that contain a blocked domain

\* Flow, as far as it decides anything.
NewFlow == [app |-> UNKNOWN, sni |-> EmptyName, blocked |-> FALSE]

\* BlockingRules::isBlocked
IsBlocked(f, e) ==
    \/ SrcIP[f] \in BlockedIPs
    \/ e.app \in BlockedApps
    \/ e.sni \in BlockedNames

\* A name is sought until the flow has one, also after the guess by port.
SeeksName(f, e) ==
    /\ f \in TcpFlows
    /\ e.sni = EmptyName
    /\ \/ DstPort[f] = 443 /\ e.app \in {UNKNOWN, HTTPS}
       \/ DstPort[f] = 80 /\ e.app \in {UNKNOWN, HTTP}

Named(f, host, e) ==
    IF SeeksName(f, e) /\ host # NoHost
    THEN [e EXCEPT !.sni = host, !.app = NameApp[host]] ELSE e

\* DNS by port, then the guess by destination port, for flows still unknown.
AppByPort(f) ==
    IF 53 \in {SrcPort[f], DstPort[f]} THEN DNS
    ELSE IF DstPort[f] = 443 THEN HTTPS
    ELSE IF DstPort[f] = 80 THEN HTTP
    ELSE UNKNOWN

Identified(f, host, e) ==
    LET named == Named(f, host, e)
    IN IF named.app = UNKNOWN THEN [named EXCEPT !.app = AppByPort(f)]
       ELSE named

\* The state of the loop before the first packet.
Start == [flows |-> [f \in Flows |-> NewFlow], read |-> 0,
          appStats |-> [a \in AppTypes |-> 0],
          forwarded |-> 0, dropped |-> 0, output |-> <<>>]

\* One turn of the loop; the output is the packets' positions.
Turn(s, p) ==
    LET found == Identified(p.flow, p.host, s.flows[p.flow])
        blocked == found.blocked \/ IsBlocked(p.flow, found)
    IN [flows |-> [s.flows EXCEPT ![p.flow] =
                       [found EXCEPT !.blocked = blocked]],
        read |-> s.read + 1,
        appStats |-> [s.appStats EXCEPT ![found.app] = @ + 1],
        forwarded |-> s.forwarded + (IF blocked THEN 0 ELSE 1),
        dropped |-> s.dropped + (IF blocked THEN 1 ELSE 0),
        output |-> IF blocked THEN s.output
                   ELSE Append(s.output, s.read + 1)]

Run(capture) ==
    LET after[n \in 0 .. Len(capture)] ==
            IF n = 0 THEN Start ELSE Turn(after[n - 1], capture[n])
    IN after[Len(capture)]
=============================================================================
