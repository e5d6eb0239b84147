------------------------------- MODULE Dissector -------------------------------
(***************************************************************************)
(* How both engines get from a capture file to the names in its packets:   *)
(* the reader (src/src/pcap_reader.cpp), the packet parser                 *)
(* (src/src/packet_parser.cpp), the payload offset each engine computes    *)
(* again for itself, and the extractors (src/src/sni_extractor.cpp), one   *)
(* length field at a time.                                                 *)
(*                                                                         *)
(* The modules of the engines take the outcome as part of a packet.  What  *)
(* there is to find is told by Payloads.                                   *)
(***************************************************************************)
EXTENDS Payloads, SequencesExt

CONSTANTS
    Files,   \* capture files: [magic, snaplen, recs]
    Engines  \* those that read them: "mt" (dpi_mt.cpp), "first" (dpi_engine.cpp)

\* Only the last record of a file can hold fewer bytes than it claims.
ASSUME FilesAssumption ==
    /\ Engines \subseteq {"mt", "first"}
    /\ \A f \in Files :
         /\ f.magic \in {"native", "swapped", "other"}
         /\ f.snaplen \in Words
         /\ f.recs \in Seq(PcapRecord)
         /\ \A r \in DOMAIN f.recs :
              LET held == Len(f.recs[r].bytes)
                  claimed == Plain(f, f.recs[r].claim)
              IN  /\ held = claimed \/ (r = Len(f.recs) /\ held < claimed)
                  /\ Means(f.recs[r])

VARIABLES
    file, engine, \* what is read, and by which engine
    next,    \* the record that is read next
    pkt,     \* the bytes of the packet at hand
    pc,      \* what is done with it next
    offset,  \* the parser's offset
    proto,   \* has_tcp, has_udp: "tcp", "udp" or "none"
    cur, end, \* the extractor's offset into the payload, and extensions_end
    jobs,    \* the packets that are passed on, with what is found in them
    reach    \* history: the bytes of the packet up to the last one read

input == <<file, engine>>
vars == <<input, next, pkt, pc, offset, proto, cur, end, jobs, reach>>

-----------------------------------------------------------------------------
(* The reader. *)

MaybeSwap32(w) == IF file.magic = "swapped" THEN Reverse(w) ELSE w

InclLen(r) == Value(MaybeSwap32(file.recs[r].claim))
SnapLen == Value(MaybeSwap32(file.snaplen))

Open ==
    /\ pc = "open"
    /\ pc' = IF file.magic = "other" THEN "closed" ELSE "read"
    /\ UNCHANGED <<input, next, pkt, offset, proto, cur, end, jobs, reach>>

\* readNextPacket returns true.
ReadableUnchecked(r) ==  \* mutant: the snap length is not asked
    /\ r \in DOMAIN file.recs
    /\ InclLen(r) <= Len(file.recs[r].bytes)
Readable(r) ==
    /\ r \in DOMAIN file.recs
    /\ InclLen(r) <= SnapLen
    /\ InclLen(r) <= 65535
    /\ InclLen(r) <= Len(file.recs[r].bytes)

ReadPacket ==
    /\ pc = "read"
    /\ Readable(next)
    /\ pkt' = SubSeq(file.recs[next].bytes, 1, InclLen(next))
    /\ next' = next + 1
    /\ pc' = "ethernet"
    /\ offset' = 0
    /\ proto' = "none"
    /\ reach' = 0
    /\ UNCHANGED <<input, cur, end, jobs>>

\* The end of the file, or a record that ends the reading.
ReadFails ==
    /\ pc = "read"
    /\ ~Readable(next)
    /\ pc' = "closed"
    /\ UNCHANGED <<input, next, pkt, offset, proto, cur, end, jobs, reach>>

-----------------------------------------------------------------------------
(* The parser.  A byte beyond the packet could be anything. *)

Byte(i) == IF i < Len(pkt) THEN pkt[i + 1] ELSE 0
Uint16BE(i) == 256 * Byte(i) + Byte(i + 1)
HighNibble(i) == Byte(i) \div 16
LowNibble(i) == Byte(i) % 16

Reads(n) == reach' = IF n > reach THEN n ELSE reach
Goto(label) == pc' = label

\* A layer that is too short, malformed or of no interest: continue with the
\* next packet.
Skip ==
    /\ Goto("read")
    /\ UNCHANGED <<offset, proto>>

Advance(n, label) ==
    /\ offset' = offset + n
    /\ Goto(label)

ParseEthernet ==
    /\ pc = "ethernet"
    /\ IF Len(pkt) < 14 THEN Skip /\ UNCHANGED reach
       ELSE /\ Reads(14)
            /\ IF Uint16BE(12) = 2048 THEN Advance(14, "ipv4") ELSE Skip
    /\ UNCHANGED <<input, next, pkt, proto, cur, end, jobs>>

ParseIPv4 ==
    /\ pc = "ipv4"
    /\ IF Len(pkt) < offset + 20 THEN Skip /\ UNCHANGED reach
       ELSE LET headerLen == 4 * LowNibble(offset) IN
            /\ Reads(offset + 20)
            /\ IF /\ HighNibble(offset) = 4
                  /\ headerLen >= 20
                  /\ Len(pkt) >= offset + headerLen
               THEN CASE Byte(offset + 9) = 6 -> Advance(headerLen, "tcp")
                      [] Byte(offset + 9) = 17 -> Advance(headerLen, "udp")
                      [] OTHER -> Skip
               ELSE Skip
    /\ UNCHANGED <<input, next, pkt, proto, cur, end, jobs>>

ParseTCP ==
    /\ pc = "tcp"
    /\ IF Len(pkt) < offset + 20 THEN Skip /\ UNCHANGED reach
       ELSE LET headerLen == 4 * HighNibble(offset + 12) IN
            /\ Reads(offset + 20)
            /\ IF headerLen >= 20 /\ Len(pkt) >= offset + headerLen
               THEN Advance(headerLen, "job") /\ proto' = "tcp"
               ELSE Skip
    /\ UNCHANGED <<input, next, pkt, cur, end, jobs>>

ParseUDP ==
    /\ pc = "udp"
    /\ IF Len(pkt) < offset + 8 THEN Skip /\ UNCHANGED reach
       ELSE Reads(offset + 8) /\ Advance(8, "job") /\ proto' = "udp"
    /\ UNCHANGED <<input, next, pkt, cur, end, jobs>>

-----------------------------------------------------------------------------
(* The engines compute the payload's offset again, from the raw bytes and    *)
(* with bounds of their own.                                                 *)

Transport == 14 + 4 * LowNibble(14)

ReadsDataOffset ==
    /\ proto = "tcp"
    /\ \/ engine = "mt" /\ Transport + 12 < Len(pkt)
       \/ engine = "first" /\ Transport < Len(pkt)

PayloadOffsetNoOptions ==  \* mutant: every TCP header has 20 bytes
    IF proto = "tcp" THEN Transport + 20 ELSE Transport + 8
PayloadOffset ==
    CASE ReadsDataOffset -> Transport + 4 * HighNibble(Transport + 12)
      [] ~ReadsDataOffset /\ proto = "udp" -> Transport + 8
      [] OTHER -> IF engine = "mt" THEN Transport ELSE 0

PayloadLength ==
    IF PayloadOffset < Len(pkt) THEN Len(pkt) - PayloadOffset ELSE 0

\* The job goes to the load balancers; a fast path will inspect it.  Jobs
\* share nothing here, so this one is followed up at once.
MakeJob ==
    /\ pc = "job"
    /\ jobs' = Append(jobs, [rec |-> next - 1, offset |-> PayloadOffset,
                             length |-> PayloadLength, name |-> <<>>])
    /\ Reads(IF ReadsDataOffset THEN Transport + 13 ELSE 15)
    /\ Goto("hello")
    /\ UNCHANGED <<input, next, pkt, offset, proto, cur, end>>

-----------------------------------------------------------------------------
(* What the extractors see: the payload of the last job. *)

job == Last(jobs)
length == job.length
At(i) == Byte(job.offset + i)
U16At(i) == Uint16BE(job.offset + i)
DstPort == Uint16BE(Transport + 2)
SrcPort == Uint16BE(Transport)

ReadsAt(n) == Reads(job.offset + n)
Span(i, n) == <<job.offset + i, n>>
Found(name) == jobs' = [jobs EXCEPT ![Len(jobs)].name = name]
NotFound(label) == Goto(label) /\ UNCHANGED <<cur, end, jobs>>

unread == <<input, next, pkt, offset, proto>>

\* The conditions under which an unclassified packet goes to an extractor.
TriesHello ==
    \/ engine = "mt" /\ DstPort = 443 /\ length > 5
    \/ engine = "first" /\ length > 0 /\ (DstPort = 443 \/ length >= 50)
TriesHost ==
    /\ DstPort = 80
    /\ IF engine = "mt" THEN length > 10 ELSE length > 0
TriesQuery ==
    engine = "first" /\ length > 0 /\ 53 \in {DstPort, SrcPort}

IsTLSClientHello ==
    /\ length >= 9
    /\ At(0) = 22
    /\ U16At(1) \in 768 .. 772
    /\ U16At(3) <= length - 5
    /\ At(5) = 1

\* SNIExtractor::extract: the record and handshake headers, the version and
\* the random are skipped.
Hello ==
    /\ pc = "hello"
    /\ IF TriesHello /\ IsTLSClientHello
       THEN /\ ReadsAt(9)
            /\ cur' = 43
            /\ Goto("session")
            /\ UNCHANGED <<end, jobs>>
       ELSE /\ IF TriesHello /\ length >= 9 THEN ReadsAt(6)
               ELSE UNCHANGED reach
            /\ NotFound("host")
    /\ UNCHANGED unread

\* Skip a length field of the given width and as many bytes as it says.
SkipFieldUnchecked(label, width, then) ==  \* mutant: cur is not checked
    /\ pc = label
    /\ ReadsAt(cur + width)
    /\ cur' = cur + width + IF width = 1 THEN At(cur) ELSE U16At(cur)
    /\ Goto(then)
    /\ UNCHANGED <<unread, end, jobs>>
SkipField(label, width, then) ==
    /\ pc = label
    /\ IF cur + width > length THEN NotFound("host") /\ UNCHANGED reach
       ELSE /\ ReadsAt(cur + width)
            /\ cur' = cur + width + IF width = 1 THEN At(cur) ELSE U16At(cur)
            /\ Goto(then)
            /\ UNCHANGED <<end, jobs>>
    /\ UNCHANGED unread

SessionID == SkipField("session", 1, "ciphers")
CipherSuites == SkipField("ciphers", 2, "compression")
CompressionMethods == SkipField("compression", 1, "extensions")

\* A list of extensions that is cut off is parsed as far as it goes.
Extensions ==
    /\ pc = "extensions"
    /\ IF cur + 2 > length THEN NotFound("host") /\ UNCHANGED reach
       ELSE /\ ReadsAt(cur + 2)
            /\ cur' = cur + 2
            /\ end' = LET e == cur + 2 + U16At(cur)
                      IN IF e > length THEN length ELSE e
            /\ Goto("extension")
            /\ UNCHANGED jobs
    /\ UNCHANGED unread

\* One extension: the type, the length and, for the server name, the length
\* of the list, the type of the name and the length of the name.
Extension ==
    /\ pc = "extension"
    /\ LET c == cur + 4
           extLen == U16At(cur + 2)
           sniLen == U16At(c + 3)
       IN
       IF c > end THEN NotFound("host") /\ UNCHANGED reach
       ELSE IF c + extLen > end THEN NotFound("host") /\ ReadsAt(c)
       ELSE IF U16At(cur) # 0
       THEN /\ ReadsAt(c)
            /\ cur' = c + extLen
            /\ UNCHANGED <<pc, end, jobs>>
       ELSE IF extLen < 5 THEN NotFound("host") /\ ReadsAt(c)
       ELSE IF U16At(c) < 3 \/ At(c + 2) # 0 \/ sniLen > extLen - 5
       THEN NotFound("host") /\ ReadsAt(c + 5)
       ELSE /\ ReadsAt(c + 5 + sniLen)
            /\ Found(<<Span(c + 5, sniLen)>>)
            /\ Goto("read")
            /\ UNCHANGED <<cur, end>>
    /\ UNCHANGED unread

-----------------------------------------------------------------------------
(* HTTPHostExtractor::extract *)

IsHTTPRequest == length >= 4 /\ [i \in 1 .. 4 |-> At(i - 1)] \in Methods

\* "host:", where the loop looks for it
HeaderAt(i) ==
    /\ i + 6 < length
    /\ At(i) \in {72, 104}
    /\ At(i + 1) \in {79, 111}
    /\ At(i + 2) \in {83, 115}
    /\ At(i + 3) \in {84, 116}
    /\ At(i + 4) = 58

\* The first place from i on whose byte is in S, or the end of the payload.
FirstIn(i, S) ==
    CHOOSE j \in i .. length :
        /\ j = length \/ At(j) \in S
        /\ \A k \in i .. j - 1 : At(k) \notin S
ValueStart(i) == FirstIn(i + 5, Bytes \ {32, 9})
ValueEnd(i) == FirstIn(ValueStart(i), {13, 10})
HasValue(i) == HeaderAt(i) /\ ValueStart(i) < ValueEnd(i)

\* The first header with a value counts; a port is cut off.
HostOf(i) ==
    LET start == ValueStart(i)
        colon == FirstIn(start, {58})
        last == IF colon < ValueEnd(i) THEN colon ELSE ValueEnd(i)
    IN  <<Span(start, last - start)>>

Host ==
    /\ pc = "host"
    /\ LET hits == {i \in 0 .. length - 1 : HasValue(i)} IN
       IF TriesHost /\ IsHTTPRequest /\ hits # {}
       THEN \E i \in hits :
              /\ \A k \in hits : i <= k
              /\ ReadsAt(ValueEnd(i))
              /\ Found(HostOf(i))
              /\ Goto("read")
              /\ UNCHANGED <<cur, end>>
       ELSE /\ IF TriesHost /\ length >= 4 THEN ReadsAt(length)
               ELSE UNCHANGED reach
            /\ NotFound("query")
    /\ UNCHANGED unread

-----------------------------------------------------------------------------
(* DNSExtractor::extractQuery *)

IsDNSQuery == length >= 12 /\ At(2) < 128 /\ U16At(4) # 0

Query ==
    /\ pc = "query"
    /\ IF TriesQuery /\ IsDNSQuery
       THEN /\ ReadsAt(6)
            /\ cur' = 12
            /\ Goto("label")
            /\ UNCHANGED <<end, jobs>>
       ELSE /\ IF TriesQuery /\ length >= 12 THEN ReadsAt(6)
               ELSE UNCHANGED reach
            /\ NotFound("read")
    /\ UNCHANGED unread

\* A label, or whatever ends the name.
Label ==
    /\ pc = "label"
    /\ IF cur >= length THEN NotFound("read") /\ UNCHANGED reach
       ELSE LET n == At(cur) IN
            IF n = 0 \/ n > 63 \/ cur + 1 + n > length
            THEN NotFound("read") /\ ReadsAt(cur + 1)
            ELSE /\ ReadsAt(cur + 1 + n)
                 /\ Found(Append(job.name, Span(cur + 1, n)))
                 /\ cur' = cur + 1 + n
                 /\ UNCHANGED <<pc, end>>
    /\ UNCHANGED unread

-----------------------------------------------------------------------------
Init ==
    /\ file \in Files
    /\ engine \in Engines
    /\ next = 1
    /\ pkt = <<>>
    /\ pc = "open"
    /\ offset = 0
    /\ proto = "none"
    /\ cur = 0
    /\ end = 0
    /\ jobs = <<>>
    /\ reach = 0

Parse == ParseEthernet \/ ParseIPv4 \/ ParseTCP \/ ParseUDP
Extract ==
    \/ Hello \/ SessionID \/ CipherSuites \/ CompressionMethods
    \/ Extensions \/ Extension \/ Host \/ Query \/ Label

Next == Open \/ ReadPacket \/ ReadFails \/ Parse \/ MakeJob \/ Extract

Spec == Init /\ [][Next]_vars

-----------------------------------------------------------------------------
(* Properties. *)

\* No read goes beyond the packet, on any path through the nested lengths
\* of the headers, the hello, the request and the query: the engines' own
\* arithmetic relies on what the parser has checked before.
ReadsWithin == reach <= Len(pkt)

\* The records of a capture file up to the first that claims more than the
\* snap length, than 65535, or than there is.
Sound(r) ==
    /\ file.magic # "other"
    /\ \A k \in 1 .. r :
         LET n == Plain(file, file.recs[k].claim) IN
         /\ n <= Plain(file, file.snaplen) /\ n <= 65535
         /\ n = Len(file.recs[k].bytes)

\* When the file is read, exactly its inspectable packets up to the first
\* unsound record have been passed on, once each, in the file's order, with
\* the payload that follows their headers: the offset an engine computes is
\* the parser's for every length of the headers.
Dispatched ==
    pc = "closed" =>
        /\ {jobs[j].rec : j \in DOMAIN jobs} =
               {r \in DOMAIN file.recs :
                   Sound(r) /\ Inspectable(file.recs[r].bytes)}
        /\ \A i, j \in DOMAIN jobs : i < j => jobs[i].rec < jobs[j].rec
        /\ \A j \in DOMAIN jobs :
              LET b == file.recs[jobs[j].rec].bytes IN
              /\ jobs[j].offset = HeaderEnd(b)
              /\ jobs[j].length = Len(b) - HeaderEnd(b)

\* The extractor that the engine has for this kind of traffic.
Understood(kind) ==
    \/ kind \in {"tls", "http"}
    \/ kind = "dns" /\ engine = "first"

\* The beginning of a name: whole spans and perhaps part of a last one.
Begins(found, name) ==
    /\ Len(found) <= Len(name)
    /\ \A i \in DOMAIN found :
         /\ found[i][1] = name[i][1]
         /\ found[i][2] <= name[i][2]
         /\ i < Len(found) => found[i] = name[i]

\* Of these nothing is said: a packet of unknown kind, and a request that says
\* "host:" before its header for the host.
Exempt(r) ==
    \/ r.kind = "unknown"
    \/ r.kind = "http" /\ ~HostFirst(r)

\* The name that is found in a packet is the one that was put there, whatever
\* lies before and after it in the packet, but for "host:" before the header
\* of a request: HTTPHostExtractor takes that text for the header wherever it
\* stands (sni_extractor.cpp:168).  In a packet that was cut short a server
\* name is found whole or not at all, and of a host or a query nothing
\* but its beginning; in a packet in which nothing looks like a name none is
\* found.  What was put where is told by Means.
NameRight ==
    \A j \in DOMAIN jobs :
        LET r == file.recs[jobs[j].rec]
            settled == j < Len(jobs) \/ pc \in {"read", "closed"}
        IN
        ~Exempt(r) =>
            /\ Begins(jobs[j].name, r.name)
            /\ r.kind = "tls" => jobs[j].name \in {<<>>, r.name}
            /\ settled /\ Understood(r.kind) /\ Len(r.bytes) >= r.whole
                   => jobs[j].name = r.name
=============================================================================
