---------------------------- MODULE SameVerdicts ----------------------------
(***************************************************************************)
(* The multi-threaded engine beside the single-threaded program: the same  *)
(* capture and the same rules, read by both.                               *)
(***************************************************************************)
EXTENDS Engine

CONSTANT TcpFlows  \* the five-tuples with protocol 6

ASSUME TcpAssumption == TcpFlows \subseteq Flows

\* The reader passes on only packets with a transport header (dpi_mt.cpp:455),
\* and these are not empty.
ASSUME SizeAssumption ==
    \A c \in Captures : \A i \in DOMAIN c : c[i].size > 0

\* The applications a port stands for are applications of their own, and a name
\* always gives one (types.cpp:192: "If SNI is present but not recognized, still
\* mark as TLS/HTTPS").
ASSUME AppAssumption ==
    /\ DNS \notin {UNKNOWN, HTTP, HTTPS}
    /\ UNKNOWN \notin {HTTP, HTTPS}
    /\ \A n \in Names \ {EmptyName} : NameApp[n] # UNKNOWN

Sequential == INSTANCE SequentialEngine

\* The two read the same name in every payload of the flow: classifyFlow also
\* looks into UDP, and takes an empty host for an answer.
SameNames(f) ==
    \A p \in Ids :
        Flow(p) = f /\ capture[p].host # NoHost
            => f \in TcpFlows /\ capture[p].host # EmptyName

\* Whatever the threads do, a flow gets out of the engine no packet, and in no
\* order, that the single-threaded program would not have written; and once
\* every packet is decided the two report the same applications and the same
\* names, and, if no quota was touched, the same number of packets forwarded.
SameAsSequential ==
    LET run == Sequential!Run(capture) IN
    /\ \A f \in Flows : SameNames(f) =>
           IsPrefix(OfFlow(written, f), OfFlow(run.output, f))
    /\ (\A f \in Flows : SameNames(f)) /\ forwarded + dropped = Len(capture)
           => /\ appCounts = run.appStats
              /\ detected = {run.flows[f].sni : f \in Flows} \ {EmptyName}
              /\ usage = start => forwarded = run.forwarded
=============================================================================
