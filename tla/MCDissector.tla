------------------------------ MODULE MCDissector ------------------------------
(* Capture files for Dissector: packets put together from their layers, with *)
(* the lengths of headers, fields and names varied, then cut, padded, or     *)
(* claimed to be longer than they are, in files of either byte order.        *)
EXTENDS Dissector

Fill(n) == [i \in 1 .. n |-> 7]
BE16(n) == <<n \div 256, n % 256>>
WithLength(bytes) == BE16(Len(bytes)) \o bytes

\* Layers.  ihl and doff are in words of four bytes, as in the packet.
Ethernet(type) == Fill(12) \o BE16(type)
IPv4(version, ihl, protocol) ==
    <<16 * version + ihl>> \o Fill(8) \o <<protocol>> \o Fill(10)
        \o Fill(4 * ihl - 20)
TCP(port, doff) ==
    BE16(4000) \o BE16(port) \o Fill(8) \o <<16 * doff>> \o Fill(7)
        \o Fill(4 * doff - 20)
UDP(from, to) == BE16(from) \o BE16(to) \o Fill(4)

OverTCP(ihl, doff, port) ==
    Ethernet(2048) \o IPv4(4, ihl, 6) \o TCP(port, doff)
OverUDP(ihl, from, to) == Ethernet(2048) \o IPv4(4, ihl, 17) \o UDP(from, to)

\* A packet with a name, between what comes before it and after it.
Packet(kind, before, path, spans, after) ==
    LET start == Len(before)
        body == FlattenSeq([i \in DOMAIN spans |->
                    IF kind = "dns" THEN <<spans[i]>> \o Fill(spans[i])
                    ELSE Fill(spans[i])])
        Pos(i) == start + IF kind = "dns"
                          THEN i + FoldSeq(+, 0, SubSeq(spans, 1, i - 1)) ELSE 0
    IN  [path |-> path, bytes |-> before \o body \o after,
         name |-> [i \in DOMAIN spans |-> <<Pos(i), spans[i]>>],
         kind |-> kind,
         whole |-> Len(before) + Len(body) + Len(after)]

Other(bytes) ==
    [bytes |-> bytes, path |-> <<>>, name |-> <<>>, kind |-> "other",
     whole |-> Len(bytes)]

\* A hello, with extensions before and after the server name.
Extension0(type, n) == BE16(type) \o WithLength(Fill(n))
Hello0(headers, session, suites, methods, first, name, more) ==
    LET exts == FlattenSeq([i \in DOMAIN first |-> Extension0(10 + i, first[i])])
        rest == FlattenSeq([i \in DOMAIN more |-> Extension0(20 + i, more[i])])
        sni == BE16(0) \o BE16(name + 5) \o BE16(name + 3) \o <<0>> \o BE16(name)
        list == Len(exts) + Len(sni) + name + Len(rest)
        fields == <<3, 3>> \o Fill(32) \o <<session>> \o Fill(session)
                    \o WithLength(Fill(suites)) \o <<methods>> \o Fill(methods)
        hello == Len(fields) + 2 + list
        ciphers == Len(headers) + 44 + session
        compression == ciphers + 2 + suites
        extensions == compression + 1 + methods
        Place(i) == extensions + 2 + FoldSeq(LAMBDA n, sum : sum + 4 + n, 0,
                                             SubSeq(first, 1, i - 1))
    IN  Packet("tls",
            headers \o <<22, 3, 1>> \o BE16(hello + 4) \o <<1, 0>> \o BE16(hello)
                \o fields \o BE16(list) \o exts \o sni,
            <<Len(headers) + 43, ciphers, compression, extensions>>
                \o [i \in 1 .. Len(first) + 1 |-> Place(i)],
            <<name>>, rest)

Request(headers, path, blanks, name, port) ==
    Packet("http",
        headers \o <<71, 69, 84, 32>> \o Fill(path) \o <<13, 10>>
            \o <<72, 111, 115, 116, 58>> \o [i \in 1 .. blanks |-> 32],
        <<Len(headers) + 4 + path + 2>>,
        <<name>>,
        (IF port THEN <<58, 56, 48>> ELSE <<>>) \o <<13, 10, 13, 10>>)

\* A request with a header "x-host:" before the one for the host.
Forwarded(headers, other, name) ==
    LET line == headers \o <<71, 69, 84, 32>> \o Fill(3) \o <<13, 10>>
                    \o <<120, 45, 104, 111, 115, 116, 58>> \o Fill(other)
                    \o <<13, 10>>
    IN  Packet("http", line \o <<72, 111, 115, 116, 58>>, <<Len(line)>>,
               <<name>>, <<13, 10, 13, 10>>)

Question(headers, labels) ==
    Packet("dns", headers \o <<7, 7, 1, 0, 0, 1>> \o Fill(6), <<>>, labels,
           <<0, 0, 1, 0, 1>>)

Hellos ==
    { Hello0(OverTCP(ihl, doff, 443), session, 2, 1, first, 4, more) :
          ihl \in {5, 7}, doff \in {5, 8}, session \in {0, 3},
          first \in {<<>>, <<1, 0>>}, more \in {<<>>, <<2>>} }
Requests ==
    { Request(OverTCP(ihl, 5, 80), 3, blanks, 5, port) :
          ihl \in {5, 6}, blanks \in {0, 2}, port \in BOOLEAN }
    \cup { Forwarded(OverTCP(5, 5, 80), other, 5) : other \in {0, 4} }
Questions ==
    { Question(OverUDP(ihl, 4000, 53), labels) :
          ihl \in {5, 6}, labels \in {<<3>>, <<2, 4, 1>>} }

\* Headers that end too early, lie about their length, or are of no interest;
\* packets without a payload, and with one that nobody understands.
Others ==
    { Other(b) : b \in
        { Ethernet(2054) \o Fill(28), Ethernet(2048) \o IPv4(6, 5, 6) \o Fill(30),
          Ethernet(2048) \o IPv4(4, 4, 6) \o TCP(443, 5),
          Ethernet(2048) \o IPv4(4, 15, 6),
          Ethernet(2048) \o IPv4(4, 5, 1) \o Fill(20),
          OverTCP(5, 4, 443), OverTCP(5, 5, 443), OverTCP(6, 6, 80) \o Fill(12),
          OverUDP(5, 53, 4000) \o Fill(12), OverUDP(5, 4000, 443) \o Fill(60),
          OverTCP(5, 5, 443) \o <<22, 3, 1, 0, 4, 1, 0, 0, 4>> \o Fill(3) } }

\* The other way to see an engine's data offset: a TCP header that claims to
\* be longer than the packet.
Lying == { Other(SubSeq(OverTCP(5, 15, 443) \o Fill(9), 1, n)) :
               n \in {54, 64, 93, 94, 100} }

CutTo(p, n) == [p EXCEPT !.bytes = SubSeq(@, 1, n)]
Padded(p) == [p EXCEPT !.bytes = @ \o Fill(6)]

\* One packet of each kind, cut at every length.
Samples ==
    { Hello0(OverTCP(5, 6, 443), 1, 2, 1, <<1>>, 3, <<1>>),
      Request(OverTCP(5, 5, 80), 2, 1, 4, TRUE),
      Question(OverUDP(5, 4000, 53), <<2, 3>>) }
Cut == UNION { {CutTo(p, n) : n \in 0 .. Len(p.bytes) - 1} : p \in Samples }

\* A hello whose record says that it ends where the packet does, although
\* the handshake goes on in another record.
Fragments ==
    LET p == CHOOSE q \in Samples : q.kind = "tls"
        payload == 14 + 20 + 24
        Held(n) == [CutTo(p, n).bytes EXCEPT
                       ![payload + 4] = (n - payload - 5) \div 256,
                       ![payload + 5] = (n - payload - 5) % 256]
    IN  { [p EXCEPT !.bytes = Held(n)] : n \in payload + 9 .. Len(p.bytes) }

\* A name whose lengths or type do not agree, a label that is a pointer, a
\* response, no question: there is no name in these.
With(p, i, byte) ==
    [p EXCEPT !.bytes[i + 1] = byte, !.kind = "other", !.name = <<>>]
Broken ==
    UNION { LET at == p.name[1][1] IN
            CASE p.kind = "tls" -> { With(p, at - 6, 4), With(p, at - 4, 2),
                                     With(p, at - 3, 1), With(p, at - 1, 9) }
              [] p.kind = "dns" -> { With(p, at - 1, 192), With(p, at - 11, 128),
                                     With(p, at - 8, 0) }
              [] OTHER -> { With(p, at - 2, 7) } : p \in Samples }

Packets ==
    Hellos \cup Requests \cup Questions \cup Others \cup Lying \cup Cut
        \cup Fragments \cup Broken \cup {Padded(p) : p \in Samples}

-----------------------------------------------------------------------------
LE32(n) == <<n % 256, n \div 256, 0, 0>>
Stored(magic, n) == IF magic = "swapped" THEN Reverse(LE32(n)) ELSE LE32(n)

\* A record that claims n bytes more than it holds.
Record(magic, p, n) ==
    [claim |-> Stored(magic, Len(p.bytes) + n), bytes |-> p.bytes,
     path |-> p.path, name |-> p.name, kind |-> p.kind, whole |-> p.whole]
File(magic, snap, recs) ==
    [magic |-> magic, snaplen |-> Stored(magic, snap), recs |-> recs]

Small == Other(Ethernet(2048) \o Fill(6))
Big == [Other(OverUDP(5, 53, 53) \o Fill(150)) EXCEPT !.kind = "unknown"]

MCFiles ==
    { File("native", 65535, <<Record("native", p, 0)>>) : p \in Packets }
    \cup
    { File(magic, 150, <<Record(magic, p, 0), Record(magic, q, 0),
                         Record(magic, r, n)>>) :
          magic \in {"native", "swapped"}, n \in {0, 1},
          p \in Samples, q \in {Small, Big}, r \in Samples }
    \cup
    { File("other", 150, <<Record("other", p, 0)>>) : p \in Samples }
    \cup
    { File("swapped", 150, <<>>),
      File("native", 0, <<Record("native", Small, 0)>>) }
=============================================================================
