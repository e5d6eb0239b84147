--------------------------- MODULE Dissector_proof ---------------------------
(***************************************************************************)
(* Theorems about Dissector: for every capture file, whatever the lengths  *)
(* in its headers, hellos, requests and queries say, both engines read     *)
(* inside the packet, agree with the parser where its payload is, pass on  *)
(* exactly the packets they should, and find the names that are in them.   *)
(***************************************************************************)
EXTENDS Dissector, FiniteSetTheorems, SequenceTheorems, WellFoundedInduction, TLAPS

\* The places of the parser, and those of the extractors.
Layers == {"ethernet", "ipv4", "tcp", "udp", "job"}
Extractors == {"hello", "session", "ciphers", "compression", "extensions",
               "extension", "host", "query", "label"}
\* A name is the places it was read from, a job what the reader passes on.
Name == Seq(Nat \X Nat)
Job == [rec : Nat, offset : Nat, length : Nat, name : Name]

\* What every variable is, for any file.
TypeInv ==
    /\ file \in Files
    /\ engine \in Engines
    /\ next \in Nat \ {0}
    /\ pkt \in Seq(Bytes)
    /\ pc \in {"open", "read", "closed"} \cup Layers \cup Extractors
    /\ offset \in Nat
    /\ proto \in {"tcp", "udp", "none"}
    /\ cur \in Nat
    /\ end \in Nat
    /\ jobs \in Seq(Job)
    /\ reach \in Nat

\* What the parser has checked when it gets to a layer: the packet holds the
\* headers before it, and the fields that the engines will read again.
ParsedInv ==
    /\ pc = "ethernet" => offset = 0
    /\ pc = "ipv4" => offset = 14 /\ Len(pkt) >= 14
    /\ pc \in {"tcp", "udp"} =>
           Len(pkt) >= 34 /\ offset = Transport /\ Len(pkt) >= Transport
    /\ pc = "job" =>
           /\ Len(pkt) >= 34 /\ Len(pkt) >= offset
           /\ \/ /\ proto = "tcp" /\ Len(pkt) >= Transport + 20
                 /\ offset = Transport + 4 * HighNibble(Transport + 12)
              \/ proto = "udp" /\ offset = Transport + 8

\* An extractor is given a payload that ends where the packet ends.
JobInv ==
    pc \in Extractors => jobs # <<>> /\ job.offset + length = Len(pkt)

\* The extensions end in the payload.
EndInv == pc = "extension" => end <= length

\* The inductive invariant.
IInv == TypeInv /\ ParsedInv /\ JobInv /\ EndInv /\ ReadsWithin

\* What the parser has seen of the headers that make a packet inspectable.
SeenInv ==
    /\ pc \in {"ipv4", "tcp", "udp", "job"} => Byte(12) = 8 /\ Byte(13) = 0
    /\ pc \in {"tcp", "udp", "job"} => Byte(14) \in 69 .. 79
    /\ pc = "tcp" => Byte(23) = 6
    /\ pc = "udp" => Byte(23) = 17
    /\ pc = "job" => \/ proto = "tcp" /\ Byte(23) = 6
                        /\ HighNibble(Transport + 12) >= 5
                     \/ proto = "udp" /\ Byte(23) = 17

\* The records that are dealt with: all that were read but the one at hand.
Done == IF pc \in Layers THEN next - 2 ELSE next - 1

\* The reader has taken sound records only, and stops at the first that is not.
ReadInv ==
    /\ next - 1 <= Len(file.recs)
    /\ \A r \in 1 .. next - 1 : Sound(r)
    /\ pc = "open" => next = 1
    /\ pc \in {"read"} \cup Layers \cup Extractors => file.magic # "other"
    /\ pc \in Layers \cup Extractors =>
           next > 1 /\ pkt = file.recs[next - 1].bytes
    /\ pc = "closed" => \A r \in DOMAIN file.recs : Sound(r) => r < next

\* So far, exactly the inspectable packets among those that are dealt with
\* have been passed on.
SentInv ==
    /\ \A j \in DOMAIN jobs :
         LET b == file.recs[jobs[j].rec].bytes IN
         /\ jobs[j].rec \in 1 .. Done
         /\ Inspectable(b)
         /\ jobs[j].offset = HeaderEnd(b)
         /\ jobs[j].length = Len(b) - HeaderEnd(b)
    /\ \A i, j \in DOMAIN jobs : i < j => jobs[i].rec < jobs[j].rec
    /\ \A r \in 1 .. Done : Inspectable(file.recs[r].bytes) =>
                               \E j \in DOMAIN jobs : jobs[j].rec = r

\* What was found in a packet is right.
NameOk(r, found) ==
    ~Exempt(r) =>
        /\ Begins(found, r.name)
        /\ r.kind = "tls" => found \in {<<>>, r.name}
        /\ Understood(r.kind) /\ Len(r.bytes) >= r.whole => found = r.name

\* How far the extractors are in a packet that holds a server name, a host or
\* a query, or nothing: where what was read so far must have led them.
Hand == file.recs[next - 1]
Place == HeaderEnd(Hand.bytes) + cur
Short == Len(Hand.bytes) < Hand.whole
Leads ==
    LET path == Hand.path
        c == path[Len(path)]
    IN
    /\ job.name = <<>>
    /\ pc = "session" => Place = path[1]
    /\ pc = "ciphers" => Place = path[2]
    /\ pc = "compression" => Place = path[3]
    /\ pc = "extensions" => Place = path[4]
    /\ pc = "extension" =>
           /\ \E i \in 5 .. Len(path) : Place = path[i]
           /\ Short \/ HeaderEnd(Hand.bytes) + end >= c + 4 + Field16(Hand.bytes, c + 2)
    /\ pc \in {"host", "query"} => Short
    /\ pc # "label"
Asks ==
    /\ job.name = <<>> /\ pc \in {"hello", "host", "query"}
    /\ pc = "query" => Short
Spot(m) ==  \* where the next label begins, or the end, after m labels
    LET name == Hand.name IN
    IF m < Len(name) THEN name[m + 1][1] - 1 ELSE name[m][1] + name[m][2]
Spells ==
    /\ pc \in {"hello", "host", "query", "label"}
    /\ pc # "label" => job.name = <<>>
    /\ pc = "label" => \E m \in 0 .. Len(Hand.name) :
           job.name = SubSeq(Hand.name, 1, m) /\ Place = Spot(m)
Finds ==
    /\ job.name = <<>>
    /\ pc = "label" => cur = 12 /\ QueryAt(Hand.bytes)

\* The names of the packets that are done with are right, and nothing was found
\* in the one at hand that is not.
NameInv ==
    /\ \A j \in DOMAIN jobs : j < Len(jobs) \/ pc \notin Extractors =>
           NameOk(file.recs[jobs[j].rec], jobs[j].name)
    /\ pc \in Extractors =>
           /\ job.rec = next - 1
           /\ Hand.kind = "tls" => Leads
           /\ Hand.kind = "http" /\ HostFirst(Hand) => Asks
           /\ Hand.kind = "dns" => Spells
           /\ Hand.kind = "other" => Finds

-----------------------------------------------------------------------------
(* Bytes and reads. *)

\* What is found at a place of the packet.
LEMMA BytesAre ==
    ASSUME pkt \in Seq(Bytes)
    PROVE  \A i \in Nat :
               /\ Byte(i) \in Bytes /\ Uint16BE(i) \in Nat
               /\ HighNibble(i) \in 0 .. 15 /\ LowNibble(i) \in 0 .. 15
<1>. SUFFICES ASSUME NEW i \in Nat
              PROVE  /\ Byte(i) \in Bytes /\ Uint16BE(i) \in Nat
                     /\ HighNibble(i) \in 0 .. 15 /\ LowNibble(i) \in 0 .. 15
  OBVIOUS
<1>1. \A j \in Nat : Byte(j) \in Bytes
  <2>1. 0 \in Bytes
    BY DEF Bytes
  <2>. QED
    BY <2>1 DEF Byte
<1>2. Byte(i) \in 0 .. 255 /\ Byte(i + 1) \in 0 .. 255
  BY <1>1 DEF Bytes
<1>. DEFINE b == Byte(i)
<1>3. b \div 16 \in 0 .. 15 /\ b % 16 \in 0 .. 15
  <2>1. b \in 0 .. 255
    BY <1>2
  <2>. HIDE DEF b
  <2>. QED
    BY <2>1
<1>4. HighNibble(i) \in 0 .. 15 /\ LowNibble(i) \in 0 .. 15
  BY <1>3 DEF HighNibble, LowNibble
<1>5. Uint16BE(i) \in Nat
  <2>1. \A x, y \in 0 .. 255 : 256 * x + y \in Nat
    OBVIOUS
  <2>. QED
    BY <1>2, <2>1 DEF Uint16BE
<1>. QED
  BY <1>1, <1>4, <1>5

\* A read that ends inside the packet.
LEMMA ReadInside ==
    ASSUME ReadsWithin, reach \in Nat, NEW n \in Nat, n <= Len(pkt), Reads(n),
           pkt' = pkt
    PROVE  reach' \in Nat /\ ReadsWithin'
  BY DEF ReadsWithin, Reads

\* What the records of the file at hand are.
LEMMA RecordsAre ==
    ASSUME TypeInv
    PROVE  /\ Len(file.recs) \in Nat /\ DOMAIN file.recs = 1 .. Len(file.recs)
           /\ file.snaplen \in Words
           /\ \A r \in DOMAIN file.recs :
                  /\ file.recs[r].claim \in Words
                  /\ file.recs[r].bytes \in Seq(Bytes)
                  /\ Len(file.recs[r].bytes) \in Nat
<1>1. file.recs \in Seq(PcapRecord) /\ file.snaplen \in Words
  BY FilesAssumption DEF TypeInv
<1>2. \A r \in DOMAIN file.recs : file.recs[r] \in PcapRecord
  BY <1>1
<1>. QED
  BY <1>1, <1>2 DEF PcapRecord, Kinds

\* The four bytes of a length field.
LEMMA LengthType ==
    ASSUME TypeInv, NEW r \in DOMAIN file.recs
    PROVE  InclLen(r) \in Nat
<1>. DEFINE w == file.recs[r].claim
            v == MaybeSwap32(w)
<1>1. w \in Words
  BY RecordsAre
<1>. HIDE DEF w
<1>2. v \in Words
  <2>1. Len(w) = 4 /\ \A i \in 1 .. 4 : w[i] \in Bytes /\ w[(4 - i) + 1] \in Bytes
    BY <1>1 DEF Words
  <2>. QED
    BY <1>1, <2>1 DEF MaybeSwap32, Reverse, Words
<1>. HIDE DEF v
<1>3. v[1] \in Nat /\ v[2] \in Nat /\ v[3] \in Nat /\ v[4] \in Nat
  BY <1>2 DEF Words, Bytes
<1>. QED
  BY <1>3 DEF InclLen, Value, v, w

-----------------------------------------------------------------------------
(* The reader and the parser. *)

\* The reader gives the parser a packet of which nothing was read yet.
LEMMA ReaderStep ==
    ASSUME IInv, Open \/ ReadPacket \/ ReadFails
    PROVE  IInv'
<1>. USE DEF IInv, ParsedInv, JobInv, EndInv, Extractors, Layers
<1>1. CASE Open
  BY <1>1 DEF Open, TypeInv, input, ReadsWithin
<1>2. CASE ReadFails
  BY <1>2 DEF ReadFails, TypeInv, input, ReadsWithin
<1>3. CASE ReadPacket
  <2>. DEFINE b == file.recs[next].bytes
              n == InclLen(next)
  <2>1. next \in DOMAIN file.recs /\ b \in Seq(Bytes) /\ n \in Nat /\ n <= Len(b)
    BY <1>3, LengthType, RecordsAre DEF ReadPacket, Readable, IInv
  <2>2. pkt' = SubSeq(b, 1, n)
    BY <1>3 DEF ReadPacket
  <2>. HIDE DEF b, n
  <2>3. pkt' \in Seq(Bytes)
    BY <2>1, <2>2, SubSeqProperties
  <2>4. reach' = 0 /\ reach' <= Len(pkt')
    BY <1>3, <2>3 DEF ReadPacket
  <2>. QED
    BY <1>3, <2>3, <2>4 DEF ReadPacket, TypeInv, input, ReadsWithin
<1>. QED
  BY <1>1, <1>2, <1>3

\* Where the transport header starts, however long the options.
LEMMA TransportIs ==
    ASSUME pkt \in Seq(Bytes)
    PROVE  Transport \in Nat /\ Transport = 14 + 4 * LowNibble(14)
<1>1. LowNibble(14) \in 0 .. 15
  BY BytesAre
<1>. QED
  BY <1>1 DEF Transport

\* Each layer checks its header before the next.
LEMMA ParseStep ==
    ASSUME IInv, Parse
    PROVE  IInv'
<1>1. /\ pkt \in Seq(Bytes) /\ Len(pkt) \in Nat /\ offset \in Nat
      /\ reach \in Nat /\ ReadsWithin
  BY DEF IInv, TypeInv
<1>2. /\ UNCHANGED <<input, next, pkt, cur, end, jobs>>
      /\ pc \in {"ethernet", "ipv4", "tcp", "udp"}
  BY DEF Parse, ParseEthernet, ParseIPv4, ParseTCP, ParseUDP
<1>3. /\ Transport' = Transport
      /\ HighNibble(Transport + 12)' = HighNibble(Transport + 12)
  BY <1>2 DEF Transport, HighNibble, LowNibble, Byte
<1>4. ASSUME reach' \in Nat, ReadsWithin', offset' \in Nat,
             proto' \in {"tcp", "udp", "none"}, pc' \in {"read"} \cup Layers,
             ParsedInv'
      PROVE  IInv'
  BY <1>2, <1>4 DEF IInv, TypeInv, JobInv, EndInv, Layers, Extractors, input
<1>5. ASSUME Skip, reach' \in Nat, ReadsWithin' PROVE IInv'
  BY <1>1, <1>4, <1>5 DEF Skip, Goto, ParsedInv, IInv, TypeInv
<1>6. UNCHANGED reach => reach' \in Nat /\ ReadsWithin'
  BY <1>1, <1>2 DEF ReadsWithin
<1>7. CASE ParseEthernet
  <2>1. CASE Len(pkt) < 14
    BY <1>5, <1>6, <1>7, <2>1 DEF ParseEthernet
  <2>2. CASE Len(pkt) >= 14
    <3>1. reach' \in Nat /\ ReadsWithin'
      BY <1>1, <1>2, <1>7, <2>2, ReadInside DEF ParseEthernet
    <3>2. CASE Uint16BE(12) = 2048
      <4>1. offset' = 14
        BY <1>7, <2>2, <3>2 DEF ParseEthernet, Advance, IInv, ParsedInv
      <4>. QED
        BY <1>1, <1>2, <1>4, <1>7, <2>2, <3>1, <3>2
        DEF ParseEthernet, Advance, Goto, ParsedInv, Layers, IInv, TypeInv
    <3>3. CASE Uint16BE(12) # 2048
      BY <1>5, <1>7, <2>2, <3>1, <3>3, <1>1 DEF ParseEthernet
    <3>. QED
      BY <3>2, <3>3
  <2>. QED
    BY <1>1, <2>1, <2>2
<1>8. CASE ParseIPv4
  <2>1. CASE Len(pkt) < offset + 20
    BY <1>5, <1>6, <1>8, <2>1 DEF ParseIPv4
  <2>2. CASE Len(pkt) >= offset + 20
    <3>. DEFINE headerLen == 4 * LowNibble(offset)
    <3>1. offset = 14 /\ headerLen \in Nat /\ Transport = 14 + headerLen
      BY <1>1, <1>8, BytesAre, TransportIs DEF ParseIPv4, IInv, ParsedInv
    <3>2. reach' \in Nat /\ ReadsWithin'
      BY <1>1, <1>2, <1>8, <2>2, ReadInside DEF ParseIPv4
    <3>3. \/ Skip
          \/ /\ headerLen >= 20 /\ Len(pkt) >= offset + headerLen
             /\ Advance(headerLen, "tcp") \/ Advance(headerLen, "udp")
             /\ UNCHANGED proto
      <4>1. ~(Len(pkt) < offset + 20)
        BY <1>1, <2>2
      <4>. QED
        BY <1>8, <4>1 DEF ParseIPv4
    <3>. HIDE DEF headerLen
    <3>4. CASE Skip
      BY <1>5, <3>2, <3>4
    <3>5. CASE /\ headerLen >= 20 /\ Len(pkt) >= offset + headerLen
               /\ Advance(headerLen, "tcp") \/ Advance(headerLen, "udp")
               /\ UNCHANGED proto
      <4>1. offset' = 14 + headerLen /\ pc' \in {"tcp", "udp"}
        BY <3>1, <3>5 DEF Advance, Goto
      <4>2. ParsedInv'
        BY <1>1, <1>2, <1>3, <2>2, <3>1, <3>5, <4>1 DEF ParsedInv
      <4>. QED
        BY <1>4, <3>1, <3>2, <3>5, <4>1, <4>2 DEF IInv, TypeInv, Layers
    <3>. QED
      BY <3>3, <3>4, <3>5
  <2>. QED
    BY <1>1, <2>1, <2>2
<1>9. CASE ParseTCP
  <2>1. CASE Len(pkt) < offset + 20
    BY <1>5, <1>6, <1>9, <2>1 DEF ParseTCP
  <2>2. CASE Len(pkt) >= offset + 20
    <3>. DEFINE headerLen == 4 * HighNibble(offset + 12)
    <3>1. /\ offset = Transport /\ Len(pkt) >= 34 /\ headerLen \in Nat
          /\ offset + 12 \in Nat
      <4>1. offset + 12 \in Nat
        BY <1>1
      <4>2. HighNibble(offset + 12) \in 0 .. 15
        BY <1>1, <4>1, BytesAre
      <4>3. offset = Transport /\ Len(pkt) >= 34
        BY <1>9 DEF ParseTCP, IInv, ParsedInv
      <4>. QED
        BY <4>1, <4>2, <4>3
    <3>2. reach' \in Nat /\ ReadsWithin'
      BY <1>1, <1>2, <1>9, <2>2, ReadInside DEF ParseTCP
    <3>3. \/ Skip
          \/ /\ Len(pkt) >= offset + headerLen
             /\ Advance(headerLen, "job") /\ proto' = "tcp"
      <4>1. ~(Len(pkt) < offset + 20)
        BY <1>1, <2>2
      <4>. QED
        BY <1>9, <4>1 DEF ParseTCP
    <3>4. headerLen = 4 * HighNibble(Transport + 12)
      BY <3>1
    <3>. HIDE DEF headerLen
    <3>5. CASE Skip
      BY <1>5, <3>2, <3>5
    <3>6. CASE /\ Len(pkt) >= offset + headerLen
               /\ Advance(headerLen, "job") /\ proto' = "tcp"
      <4>1. offset' = Transport + headerLen /\ pc' = "job" /\ proto' = "tcp"
        BY <3>1, <3>6 DEF Advance, Goto
      <4>2. offset' = (Transport + 4 * HighNibble(Transport + 12))'
        BY <1>3, <3>4, <4>1
      <4>3. Len(pkt') >= 34 /\ Len(pkt') >= offset' /\ Len(pkt') >= Transport' + 20
        BY <1>1, <1>2, <1>3, <2>2, <3>1, <3>6, <4>1
      <4>4. ParsedInv'
        BY <4>1, <4>2, <4>3 DEF ParsedInv
      <4>5. offset' \in Nat
        BY <1>1, <3>1, <4>1
      <4>. QED
        BY <1>4, <3>2, <4>1, <4>4, <4>5 DEF Layers
    <3>. QED
      BY <3>3, <3>5, <3>6
  <2>. QED
    BY <1>1, <2>1, <2>2
<1>10. CASE ParseUDP
  <2>1. CASE Len(pkt) < offset + 8
    BY <1>5, <1>6, <1>10, <2>1 DEF ParseUDP
  <2>2. CASE Len(pkt) >= offset + 8
    <3>1. offset = Transport /\ Len(pkt) >= 34
      BY <1>10 DEF ParseUDP, IInv, ParsedInv
    <3>2. ~(Len(pkt) < offset + 8)
      BY <1>1, <2>2
    <3>3. reach' \in Nat /\ ReadsWithin'
      BY <1>1, <1>2, <1>10, <2>2, <3>2, ReadInside DEF ParseUDP
    <3>4. offset' = Transport + 8 /\ pc' = "job" /\ proto' = "udp"
      BY <1>10, <3>1, <3>2 DEF ParseUDP, Advance, Goto
    <3>5. ParsedInv'
      BY <1>1, <1>2, <1>3, <2>2, <3>1, <3>4 DEF ParsedInv
    <3>. QED
      BY <1>1, <1>4, <3>1, <3>3, <3>4, <3>5 DEF Layers
  <2>. QED
    BY <1>1, <2>1, <2>2
<1>. QED
  BY <1>7, <1>8, <1>9, <1>10 DEF Parse

-----------------------------------------------------------------------------
(* The job. *)

\* The payload begins where the parser stands: the offset that either engine
\* computes again, with bounds of its own, is the parser's.
LEMMA OffsetIs ==
    ASSUME TypeInv, ParsedInv, pc = "job"
    PROVE  /\ PayloadOffset = offset
           /\ PayloadLength \in Nat /\ offset + PayloadLength = Len(pkt)
           /\ ReadsDataOffset <=> proto = "tcp"
<1>1. /\ pkt \in Seq(Bytes) /\ Len(pkt) \in Nat /\ offset \in Nat
      /\ engine \in {"mt", "first"}
  BY FilesAssumption DEF TypeInv
<1>2. Transport \in Nat
  BY <1>1, TransportIs
<1>3. ReadsDataOffset <=> proto = "tcp"
  BY <1>1, <1>2 DEF ReadsDataOffset, ParsedInv
<1>4. PayloadOffset = offset
  BY <1>3 DEF PayloadOffset, ParsedInv
<1>5. Len(pkt) >= offset
  BY DEF ParsedInv
<1>. QED
  BY <1>1, <1>3, <1>4, <1>5 DEF PayloadLength

\* createPacketJob: the header bytes it reads again are in the packet, and what
\* it makes of them is where the parser stopped.
LEMMA JobStep ==
    ASSUME IInv, MakeJob
    PROVE  IInv'
<1>1. /\ pkt \in Seq(Bytes) /\ Len(pkt) \in Nat /\ offset \in Nat
      /\ next - 1 \in Nat /\ reach \in Nat /\ ReadsWithin /\ jobs \in Seq(Job)
      /\ Transport \in Nat /\ pc = "job"
  BY TransportIs DEF IInv, TypeInv, MakeJob
<1>2. /\ PayloadOffset = offset
      /\ PayloadLength \in Nat /\ offset + PayloadLength = Len(pkt)
      /\ ReadsDataOffset <=> proto = "tcp"
  BY <1>1, OffsetIs DEF IInv
<1>. DEFINE j == [rec |-> next - 1, offset |-> PayloadOffset,
                  length |-> PayloadLength, name |-> <<>>]
<1>3. jobs' = Append(jobs, j) /\ pc' = "hello"
      /\ UNCHANGED <<input, next, pkt, offset, proto, cur, end>>
  BY DEF MakeJob, Goto
<1>4. j \in Job /\ j.offset + j.length = Len(pkt)
  BY <1>1, <1>2 DEF Job, Name
<1>5. reach' \in Nat /\ ReadsWithin'
  <2>1. (Reads(Transport + 13) /\ proto = "tcp") \/ Reads(15)
    BY <1>2 DEF MakeJob
  <2>2. /\ Len(pkt) >= 34
        /\ proto = "tcp" => Len(pkt) >= Transport + 20
    BY <1>1 DEF IInv, ParsedInv
  <2>. QED
    BY <1>1, <1>3, <2>1, <2>2, ReadInside
<1>. HIDE DEF j
<1>6. jobs' \in Seq(Job) /\ jobs' # <<>> /\ jobs'[Len(jobs')] = j
  BY <1>1, <1>3, <1>4
<1>7. JobInv'
  BY <1>3, <1>4, <1>6 DEF JobInv, job, length, Last
<1>. QED
  BY <1>3, <1>5, <1>6, <1>7
  DEF IInv, TypeInv, ParsedInv, EndInv, input, Extractors, Layers

-----------------------------------------------------------------------------
(* The extractors. *)

\* What an extractor sees of the payload, and what it may read.
LEMMA Payload ==
    ASSUME IInv, pc \in Extractors
    PROVE  /\ length \in Nat /\ job \in Job
           /\ \A i \in Nat : At(i) \in Nat /\ U16At(i) \in Nat
           /\ pkt' = pkt /\ jobs # <<>> =>
                  \A n \in Nat : n <= length /\ ReadsAt(n) =>
                                     reach' \in Nat /\ ReadsWithin'
<1>1. /\ pkt \in Seq(Bytes) /\ Len(pkt) \in Nat /\ reach \in Nat /\ ReadsWithin
      /\ jobs \in Seq(Job) /\ jobs # <<>> /\ job.offset + length = Len(pkt)
  BY DEF IInv, TypeInv, JobInv
<1>2. job \in Job
  BY <1>1 DEF job, Last
<1>3. length \in Nat /\ job.offset \in Nat
  BY <1>2 DEF length, Job
<1>4. \A i \in Nat : At(i) \in Nat /\ U16At(i) \in Nat
  <2>. SUFFICES ASSUME NEW i \in Nat PROVE At(i) \in Nat /\ U16At(i) \in Nat
    OBVIOUS
  <2>1. job.offset + i \in Nat /\ \A b \in Bytes : b \in Nat
    BY <1>3 DEF Bytes
  <2>. QED
    BY <1>1, <2>1, BytesAre DEF At, U16At
<1>5. ASSUME NEW n \in Nat, n <= length, ReadsAt(n), pkt' = pkt
      PROVE  reach' \in Nat /\ ReadsWithin'
  <2>1. job.offset + n \in Nat /\ job.offset + n <= Len(pkt)
    BY <1>1, <1>3, <1>5
  <2>. QED
    BY <1>1, <1>5, <2>1, ReadInside DEF ReadsAt
<1>. QED
  BY <1>2, <1>3, <1>4, <1>5

\* What is left to show of a step of an extractor.
LEMMA ExtractorStep ==
    ASSUME IInv, pc \in Extractors, UNCHANGED unread,
           cur' \in Nat, end' \in Nat, reach' \in Nat, ReadsWithin',
           UNCHANGED jobs \/ \E name \in Name : Found(name),
           pc' \in Extractors \cup {"read"},
           pc' = "extension" => end' <= length
    PROVE  IInv'
<1>1. jobs \in Seq(Job) /\ jobs # <<>> /\ job.offset + length = Len(pkt)
  BY DEF IInv, TypeInv, JobInv
<1>2. /\ jobs' \in Seq(Job) /\ jobs' # <<>>
      /\ job'.offset = job.offset /\ job'.length = job.length
  <2>1. CASE UNCHANGED jobs
    BY <1>1, <2>1 DEF job
  <2>2. ASSUME NEW name \in Name, Found(name)
        PROVE  /\ jobs' \in Seq(Job) /\ jobs' # <<>>
               /\ job'.offset = job.offset /\ job'.length = job.length
    <3>. DEFINE n == Len(jobs)
                j == [jobs[n] EXCEPT !.name = name]
    <3>1. n \in 1 .. Len(jobs) /\ jobs[n] \in Job
      BY <1>1
    <3>2. j \in Job /\ j.offset = jobs[n].offset /\ j.length = jobs[n].length
      BY <3>1 DEF Job
    <3>3. jobs' = [jobs EXCEPT ![n] = j]
      BY <2>2 DEF Found
    <3>. HIDE DEF j
    <3>4. jobs' \in Seq(Job) /\ Len(jobs') = n /\ jobs'[n] = j
      BY <1>1, <3>1, <3>2, <3>3
    <3>5. jobs' # <<>>
      BY <3>1, <3>4
    <3>. QED
      BY <3>2, <3>4, <3>5 DEF job, Last
  <2>. QED
    BY <2>1, <2>2
<1>3. JobInv' /\ length' = length
  BY <1>1, <1>2 DEF JobInv, length, unread
<1>. QED
  BY <1>2, <1>3 DEF IInv, TypeInv, ParsedInv, EndInv, unread, input, Extractors, Layers

\* Skip a field of the hello.
LEMMA FieldStep ==
    ASSUME IInv, NEW label \in Extractors, NEW width \in {1, 2},
           NEW then \in {"ciphers", "compression", "extensions"},
           SkipField(label, width, then)
    PROVE  IInv'
<1>1. pc \in Extractors /\ cur \in Nat /\ end \in Nat /\ reach \in Nat
      /\ UNCHANGED unread /\ pkt' = pkt /\ UNCHANGED jobs /\ jobs # <<>>
      /\ end' = end /\ ReadsWithin
  <2>1. pc \in Extractors /\ UNCHANGED unread /\ UNCHANGED jobs /\ end' = end
    BY DEF SkipField, NotFound
  <2>. QED
    BY <2>1 DEF IInv, TypeInv, JobInv, unread
<1>2. length \in Nat /\ At(cur) \in Nat /\ U16At(cur) \in Nat
  BY <1>1, Payload
<1>3. CASE cur + width > length
  <2>1. pc' = "host" /\ UNCHANGED <<cur, reach>>
    BY <1>3 DEF SkipField, NotFound, Goto
  <2>2. ReadsWithin'
    BY <1>1, <2>1 DEF ReadsWithin
  <2>. QED
    BY <1>1, <2>1, <2>2, ExtractorStep DEF Extractors
<1>4. CASE cur + width <= length
  <2>1. /\ ReadsAt(cur + width) /\ pc' = then
        /\ cur' = cur + width + IF width = 1 THEN At(cur) ELSE U16At(cur)
    <3>1. ~(cur + width > length)
      BY <1>1, <1>2, <1>4
    <3>. QED
      BY <3>1 DEF SkipField, Goto
  <2>2. cur' \in Nat /\ cur + width \in Nat
    BY <1>1, <1>2, <2>1
  <2>3. reach' \in Nat /\ ReadsWithin'
    BY <1>1, <1>4, <2>1, <2>2, Payload
  <2>. QED
    BY <1>1, <2>1, <2>2, <2>3, ExtractorStep DEF Extractors
<1>. QED
  BY <1>1, <1>2, <1>3, <1>4

\* The list of extensions ends where it says, or with the payload.
LEMMA ExtensionsStep ==
    ASSUME IInv, Extensions
    PROVE  IInv'
<1>1. pc \in Extractors /\ cur \in Nat /\ end \in Nat /\ reach \in Nat
      /\ UNCHANGED unread /\ pkt' = pkt /\ UNCHANGED jobs /\ jobs # <<>>
      /\ ReadsWithin
  <2>1. pc \in Extractors /\ UNCHANGED unread /\ UNCHANGED jobs
    BY DEF Extensions, NotFound, Extractors
  <2>. QED
    BY <2>1 DEF IInv, TypeInv, JobInv, unread
<1>2. length \in Nat /\ U16At(cur) \in Nat
  BY <1>1, Payload
<1>3. CASE cur + 2 > length
  <2>1. pc' = "host" /\ UNCHANGED <<cur, end, reach>>
    BY <1>3 DEF Extensions, NotFound, Goto
  <2>2. ReadsWithin'
    BY <1>1, <2>1 DEF ReadsWithin
  <2>. QED
    BY <1>1, <2>1, <2>2, ExtractorStep DEF Extractors
<1>4. CASE cur + 2 <= length
  <2>. DEFINE e == cur + 2 + U16At(cur)
  <2>1. e \in Nat
    BY <1>1, <1>2
  <2>2. /\ ReadsAt(cur + 2) /\ pc' = "extension" /\ cur' = cur + 2
        /\ end' = IF e > length THEN length ELSE e
    <3>1. ~(cur + 2 > length)
      BY <1>1, <1>2, <1>4
    <3>. QED
      BY <3>1 DEF Extensions, Goto
  <2>. HIDE DEF e
  <2>3. cur' \in Nat /\ cur + 2 \in Nat /\ end' \in Nat /\ end' <= length
    BY <1>1, <1>2, <2>1, <2>2
  <2>4. reach' \in Nat /\ ReadsWithin'
    BY <1>1, <1>4, <2>2, <2>3, Payload
  <2>. QED
    BY <1>1, <2>2, <2>3, <2>4, ExtractorStep DEF Extractors
<1>. QED
  BY <1>1, <1>2, <1>3, <1>4

\* An extension is read as far as the list reaches, a server name as far as
\* its extension.
LEMMA ExtensionStep ==
    ASSUME IInv, Extension
    PROVE  IInv'
<1>. DEFINE c == cur + 4
            extLen == U16At(cur + 2)
            sniLen == U16At(c + 3)
<1>1. pc = "extension" /\ pc \in Extractors /\ cur \in Nat /\ end \in Nat
      /\ reach \in Nat /\ UNCHANGED unread /\ pkt' = pkt /\ jobs # <<>>
      /\ ReadsWithin /\ end <= length
  <2>1. pc = "extension" /\ UNCHANGED unread
    BY DEF Extension
  <2>. QED
    BY <2>1 DEF IInv, TypeInv, JobInv, EndInv, unread, Extractors
<1>2. length \in Nat /\ extLen \in Nat /\ sniLen \in Nat /\ c \in Nat
      /\ job \in Job
  <2>1. cur + 2 \in Nat /\ c \in Nat /\ c + 3 \in Nat
    BY <1>1
  <2>. HIDE DEF c
  <2>. QED
    BY <1>1, <2>1, Payload
<1>3. \/ NotFound("host") /\ UNCHANGED reach
      \/ c <= end /\ NotFound("host") /\ ReadsAt(c)
      \/ c + extLen <= end /\ ReadsAt(c) /\ cur' = c + extLen
         /\ UNCHANGED <<pc, end, jobs>>
      \/ c + extLen <= end /\ extLen >= 5 /\ NotFound("host") /\ ReadsAt(c + 5)
      \/ /\ c + extLen <= end /\ extLen >= 5 /\ sniLen <= extLen - 5
         /\ ReadsAt(c + 5 + sniLen) /\ Found(<<Span(c + 5, sniLen)>>)
         /\ Goto("read") /\ UNCHANGED <<cur, end>>
  <2>1. /\ c <= end \/ c > end
        /\ c + extLen <= end \/ c + extLen > end
        /\ extLen >= 5 \/ extLen < 5
        /\ sniLen <= extLen - 5 \/ sniLen > extLen - 5
    BY <1>1, <1>2
  <2>2. c + extLen <= end => c <= end
    BY <1>1, <1>2
  <2>. QED
    BY <2>1, <2>2 DEF Extension
<1>. HIDE DEF c, extLen, sniLen
<1>4. ASSUME UNCHANGED reach PROVE reach' \in Nat /\ ReadsWithin'
  BY <1>1, <1>4 DEF ReadsWithin
<1>5. ASSUME NEW n \in Nat, n <= length, ReadsAt(n)
      PROVE  reach' \in Nat /\ ReadsWithin'
  BY <1>1, <1>5, Payload
<1>6. ASSUME NotFound("host"), reach' \in Nat /\ ReadsWithin' PROVE IInv'
  BY <1>1, <1>6, ExtractorStep DEF NotFound, Goto, Extractors
<1>7. CASE NotFound("host") /\ UNCHANGED reach
  BY <1>4, <1>6, <1>7
<1>8. CASE c <= end /\ NotFound("host") /\ ReadsAt(c)
  <2>1. c <= length
    BY <1>1, <1>2, <1>8
  <2>. QED
    BY <1>2, <1>5, <1>6, <1>8, <2>1
<1>9. CASE c + extLen <= end /\ ReadsAt(c) /\ cur' = c + extLen
           /\ UNCHANGED <<pc, end, jobs>>
  <2>1. c <= length /\ cur' \in Nat /\ end' <= length
    BY <1>1, <1>2, <1>9
  <2>2. reach' \in Nat /\ ReadsWithin'
    BY <1>2, <1>5, <1>9, <2>1
  <2>. QED
    BY <1>1, <1>9, <2>1, <2>2, ExtractorStep
<1>10. CASE c + extLen <= end /\ extLen >= 5 /\ NotFound("host") /\ ReadsAt(c + 5)
  <2>1. c + 5 <= length /\ c + 5 \in Nat
    BY <1>1, <1>2, <1>10
  <2>. QED
    BY <1>5, <1>6, <1>10, <2>1
<1>11. CASE /\ c + extLen <= end /\ extLen >= 5 /\ sniLen <= extLen - 5
            /\ ReadsAt(c + 5 + sniLen) /\ Found(<<Span(c + 5, sniLen)>>)
            /\ Goto("read") /\ UNCHANGED <<cur, end>>
  <2>1. c + 5 + sniLen <= length /\ c + 5 + sniLen \in Nat
    BY <1>1, <1>2, <1>11
  <2>2. reach' \in Nat /\ ReadsWithin'
    BY <1>5, <1>11, <2>1
  <2>3. <<Span(c + 5, sniLen)>> \in Name
    <3>1. job.offset + (c + 5) \in Nat
      BY <1>2 DEF Job
    <3>. QED
      BY <1>2, <3>1 DEF Span, Name
  <2>. QED
    BY <1>1, <1>11, <2>2, <2>3, ExtractorStep DEF Goto
<1>. QED
  BY <1>3, <1>7, <1>8, <1>9, <1>10, <1>11

\* The fields of the hello before the extensions, and its beginning.
LEMMA HelloStep ==
    ASSUME IInv, Hello
    PROVE  IInv'
<1>1. pc \in Extractors /\ cur \in Nat /\ end \in Nat /\ reach \in Nat
      /\ UNCHANGED unread /\ pkt' = pkt /\ UNCHANGED jobs /\ jobs # <<>>
      /\ end' = end /\ ReadsWithin
  <2>1. pc \in Extractors /\ UNCHANGED unread /\ UNCHANGED jobs /\ end' = end
    BY DEF Hello, NotFound, Extractors
  <2>. QED
    BY <2>1 DEF IInv, TypeInv, JobInv, unread
<1>2. /\ pc' \in {"session", "host"} /\ cur' \in {cur, 43}
      /\ \/ length >= 9 /\ (ReadsAt(9) \/ ReadsAt(6))
         \/ UNCHANGED reach
  BY DEF Hello, IsTLSClientHello, NotFound, Goto
<1>3. length \in Nat
  BY <1>1, Payload
<1>4. reach' \in Nat /\ ReadsWithin'
  <2>1. CASE UNCHANGED reach
    BY <1>1, <2>1 DEF ReadsWithin
  <2>2. CASE length >= 9 /\ (ReadsAt(9) \/ ReadsAt(6))
    <3>1. 9 \in Nat /\ 6 \in Nat /\ 9 <= length /\ 6 <= length
      BY <1>3, <2>2
    <3>. QED
      BY <1>1, <2>2, <3>1, Payload
  <2>. QED
    BY <1>2, <2>1, <2>2
<1>. QED
  BY <1>1, <1>2, <1>4, ExtractorStep DEF Extractors

\* The question of a query.
LEMMA QueryStep ==
    ASSUME IInv, Query
    PROVE  IInv'
<1>1. pc \in Extractors /\ cur \in Nat /\ end \in Nat /\ reach \in Nat
      /\ UNCHANGED unread /\ pkt' = pkt /\ UNCHANGED jobs /\ jobs # <<>>
      /\ end' = end /\ ReadsWithin
  <2>1. pc \in Extractors /\ UNCHANGED unread /\ UNCHANGED jobs /\ end' = end
    BY DEF Query, NotFound, Extractors
  <2>. QED
    BY <2>1 DEF IInv, TypeInv, JobInv, unread
<1>2. /\ pc' \in {"label", "read"} /\ cur' \in {cur, 12}
      /\ (length >= 12 /\ ReadsAt(6)) \/ UNCHANGED reach
  BY DEF Query, IsDNSQuery, NotFound, Goto
<1>3. length \in Nat
  BY <1>1, Payload
<1>4. reach' \in Nat /\ ReadsWithin'
  <2>1. CASE UNCHANGED reach
    BY <1>1, <2>1 DEF ReadsWithin
  <2>2. CASE length >= 12 /\ ReadsAt(6)
    <3>1. 6 \in Nat /\ 6 <= length
      BY <1>3, <2>2
    <3>. QED
      BY <1>1, <2>2, <3>1, Payload
  <2>. QED
    BY <1>2, <2>1, <2>2
<1>. QED
  BY <1>1, <1>2, <1>4, ExtractorStep DEF Extractors

\* A label is read only if it ends in the payload.
LEMMA LabelStep ==
    ASSUME IInv, Label
    PROVE  IInv'
<1>. DEFINE n == At(cur)
<1>1. pc = "label" /\ pc \in Extractors /\ cur \in Nat /\ end \in Nat
      /\ reach \in Nat /\ UNCHANGED unread /\ pkt' = pkt /\ jobs # <<>>
      /\ end' = end /\ ReadsWithin
  <2>1. pc = "label" /\ UNCHANGED unread /\ end' = end
    BY DEF Label, NotFound
  <2>. QED
    BY <2>1 DEF IInv, TypeInv, JobInv, unread, Extractors
<1>2. length \in Nat /\ job \in Job /\ n \in Nat
  BY <1>1, Payload
<1>3. \/ NotFound("read") /\ UNCHANGED reach
      \/ cur < length /\ NotFound("read") /\ ReadsAt(cur + 1)
      \/ /\ cur + 1 + n <= length /\ ReadsAt(cur + 1 + n)
         /\ Found(Append(job.name, Span(cur + 1, n)))
         /\ cur' = cur + 1 + n /\ UNCHANGED <<pc, end>>
  <2>1. /\ cur >= length \/ cur < length
        /\ cur + 1 + n > length \/ cur + 1 + n <= length
    BY <1>1, <1>2
  <2>. QED
    BY <2>1 DEF Label
<1>. HIDE DEF n
<1>4. ASSUME NotFound("read"), reach' \in Nat /\ ReadsWithin' PROVE IInv'
  BY <1>1, <1>4, ExtractorStep DEF NotFound, Goto
<1>5. CASE NotFound("read") /\ UNCHANGED reach
  BY <1>1, <1>4, <1>5 DEF ReadsWithin
<1>6. CASE cur < length /\ NotFound("read") /\ ReadsAt(cur + 1)
  <2>1. cur + 1 <= length /\ cur + 1 \in Nat
    BY <1>1, <1>2, <1>6
  <2>. QED
    BY <1>1, <1>4, <1>6, <2>1, Payload
<1>7. CASE /\ cur + 1 + n <= length /\ ReadsAt(cur + 1 + n)
           /\ Found(Append(job.name, Span(cur + 1, n)))
           /\ cur' = cur + 1 + n /\ UNCHANGED <<pc, end>>
  <2>1. cur + 1 + n \in Nat /\ cur' \in Nat
    BY <1>1, <1>2, <1>7
  <2>2. reach' \in Nat /\ ReadsWithin'
    BY <1>1, <1>7, <2>1, Payload
  <2>3. Append(job.name, Span(cur + 1, n)) \in Name
    <3>1. Span(cur + 1, n) \in Nat \X Nat /\ job.name \in Name
      BY <1>1, <1>2 DEF Span, Job
    <3>. QED
      BY <3>1 DEF Name
  <2>. QED
    BY <1>1, <1>7, <2>1, <2>2, <2>3, ExtractorStep
<1>. QED
  BY <1>3, <1>5, <1>6, <1>7

-----------------------------------------------------------------------------
(* The request.  The ends of a header's value are places of the payload: the *)
(* search for them stops at its end.                                         *)

\* Every non-empty set of natural numbers has a least element.
LEMMA LeastNumber ==
    ASSUME NEW I \in SUBSET Nat, I # {}
    PROVE  \E x \in I : \A y \in I : x =< y
<1>. DEFINE below(n) == 0 .. n
            T == {below(x) : x \in I}
<1>1. T \subseteq FiniteSubsetsOf(Nat) /\ T # {}
  <2>1. ASSUME NEW x \in I PROVE below(x) \in FiniteSubsetsOf(Nat)
    <3>1. x \in Int /\ below(x) \subseteq Nat
      OBVIOUS
    <3>2. IsFiniteSet(below(x))
      BY <3>1, FS_Interval
    <3>. QED
      BY <3>1, <3>2 DEF FiniteSubsetsOf
  <2>. QED
    BY <2>1
<1>2. PICK t \in T : \A u \in T : ~ (<<u, t>> \in StrictSubsetOrdering(Nat))
  <2>. HIDE DEF T
  <2>. QED
    BY <1>1, FS_StrictSubsetOrderingWellFounded, WFMin
<1>3. PICK x \in I : t = below(x)
  OBVIOUS
<1>4. \A y \in I : x =< y
  <2>1. SUFFICES ASSUME NEW y \in I, y < x PROVE FALSE
    OBVIOUS
  <2>2. below(y) \subseteq below(x) /\ below(y) # below(x)
    BY <2>1
  <2>3. <<below(y), t>> \in StrictSubsetOrdering(Nat)
    BY <1>3, <2>2 DEF StrictSubsetOrdering
  <2>. QED
    BY <1>2, <2>3
<1>. QED
  BY <1>4

\* The search for a byte always ends, in the payload or at its end.
LEMMA SearchEnds ==
    ASSUME length \in Nat, NEW i \in Nat, i <= length, NEW S
    PROVE  /\ FirstIn(i, S) \in i .. length
           /\ FirstIn(i, S) = length \/ At(FirstIn(i, S)) \in S
           /\ \A k \in i .. FirstIn(i, S) - 1 : At(k) \notin S
<1>. DEFINE hit(j) == j = length \/ At(j) \in S
            I == {j \in i .. length : hit(j)}
<1>1. length \in I /\ I \subseteq Nat
  OBVIOUS
<1>2. PICK j \in I : \A k \in I : j <= k
  <2>. HIDE DEF I
  <2>. QED
    BY <1>1, LeastNumber
<1>3. \A k \in i .. j - 1 : At(k) \notin S
  <2>. SUFFICES ASSUME NEW k \in i .. j - 1, At(k) \in S PROVE FALSE
    OBVIOUS
  <2>1. j \in i .. length
    OBVIOUS
  <2>2. k \in i .. length /\ k < j
    BY <2>1
  <2>3. k \in I
    BY <2>2
  <2>. QED
    BY <1>2, <2>1, <2>2, <2>3
<1>4. j \in i .. length /\ (j = length \/ At(j) \in S)
  OBVIOUS
<1>. HIDE DEF I, hit
<1>. QED
  BY <1>3, <1>4 DEF FirstIn

\* The host extractor: wherever the search ends, it has looked at the payload
\* only.
LEMMA HostStep ==
    ASSUME IInv, Host
    PROVE  IInv'
<1>1. pc = "host" /\ pc \in Extractors /\ cur \in Nat /\ end \in Nat
      /\ reach \in Nat /\ UNCHANGED unread /\ pkt' = pkt /\ jobs # <<>>
      /\ cur' = cur /\ end' = end /\ ReadsWithin
  <2>1. pc = "host" /\ UNCHANGED unread /\ cur' = cur /\ end' = end
    BY DEF Host, NotFound
  <2>. QED
    BY <2>1 DEF IInv, TypeInv, JobInv, unread, Extractors
<1>2. length \in Nat /\ job \in Job
  BY <1>1, Payload
<1>3. \/ \E i \in 0 .. length - 1 :
            /\ HasValue(i) /\ ReadsAt(ValueEnd(i)) /\ Found(HostOf(i))
            /\ pc' = "read"
      \/ /\ pc' = "query" /\ UNCHANGED jobs
         /\ (length >= 4 /\ ReadsAt(length)) \/ UNCHANGED reach
  <2>. DEFINE hits == {i \in 0 .. length - 1 : HasValue(i)}
  <2>1. \/ \E i \in hits :
              ReadsAt(ValueEnd(i)) /\ Found(HostOf(i)) /\ Goto("read")
        \/ /\ (length >= 4 /\ ReadsAt(length)) \/ UNCHANGED reach
           /\ NotFound("query")
    BY DEF Host
  <2>. QED
    BY <2>1 DEF NotFound, Goto
<1>4. ASSUME NEW i \in 0 .. length - 1, HasValue(i), ReadsAt(ValueEnd(i)),
             Found(HostOf(i)), pc' = "read"
      PROVE  IInv'
  <2>. DEFINE start == ValueStart(i)
              stop == ValueEnd(i)
              colon == FirstIn(start, {58})
              last == IF colon < stop THEN colon ELSE stop
  <2>1. i + 6 < length /\ i \in Nat /\ start < stop
    BY <1>2, <1>4 DEF HasValue, HeaderAt
  <2>2. i + 5 \in Nat /\ i + 5 <= length
    BY <1>2, <2>1
  <2>3. start \in i + 5 .. length
    BY <1>2, <2>2, SearchEnds DEF ValueStart
  <2>4. start \in Nat /\ start <= length
    BY <1>2, <2>2, <2>3
  <2>5. stop \in start .. length
    BY <1>2, <2>4, SearchEnds DEF ValueEnd
  <2>6. colon \in start .. length
    BY <1>2, <2>4, SearchEnds
  <2>7. stop \in Nat /\ stop <= length /\ last - start \in Nat
    BY <1>2, <2>4, <2>5, <2>6
  <2>8. reach' \in Nat /\ ReadsWithin'
    <3>. HIDE DEF stop
    <3>. QED
      BY <1>1, <1>4, <2>7, Payload DEF stop
  <2>9. HostOf(i) \in Name
    <3>1. HostOf(i) = << <<job.offset + start, last - start>> >>
      BY DEF HostOf, Span
    <3>2. job.offset + start \in Nat
      BY <1>2, <2>4 DEF Job
    <3>. HIDE DEF start, last
    <3>. QED
      BY <2>7, <3>1, <3>2 DEF Name
  <2>. QED
    BY <1>1, <1>4, <2>8, <2>9, ExtractorStep
<1>5. ASSUME pc' = "query", UNCHANGED jobs,
             (length >= 4 /\ ReadsAt(length)) \/ UNCHANGED reach
      PROVE  IInv'
  <2>1. reach' \in Nat /\ ReadsWithin'
    <3>1. CASE UNCHANGED reach
      BY <1>1, <3>1 DEF ReadsWithin
    <3>2. CASE ReadsAt(length)
      <4>1. length <= length
        BY <1>2
      <4>. QED
        BY <1>1, <1>2, <3>2, <4>1, Payload
    <3>. QED
      BY <1>5, <3>1, <3>2
  <2>. QED
    BY <1>1, <1>5, <2>1, ExtractorStep DEF Extractors
<1>. QED
  BY <1>3, <1>4, <1>5

-----------------------------------------------------------------------------
(* The theorems. *)

\* It holds before a file is opened.
LEMMA IInvInit == Init => IInv
<1>. SUFFICES ASSUME Init PROVE IInv
  OBVIOUS
<1>1. Len(pkt) = 0 /\ pkt \in Seq(Bytes) /\ jobs \in Seq(Job)
  BY DEF Init
<1>. QED
  BY <1>1 DEF Init, IInv, TypeInv, ParsedInv, JobInv, EndInv, ReadsWithin,
     Extractors, Layers

\* Every step of reader, parser and extractors keeps it.
LEMMA IInvNext == IInv /\ [Next]_vars => IInv'
<1>. SUFFICES ASSUME IInv, [Next]_vars PROVE IInv'
  OBVIOUS
<1>1. CASE SessionID \/ CipherSuites \/ CompressionMethods
  BY <1>1, FieldStep DEF SessionID, CipherSuites, CompressionMethods, Extractors
<1>2. CASE UNCHANGED vars
  BY <1>2 DEF vars, input, IInv, TypeInv, ParsedInv, JobInv, EndInv, ReadsWithin,
     Extractors, Layers, job, length, Transport, HighNibble, LowNibble, Byte
<1>. QED
  BY <1>1, <1>2, ReaderStep, ParseStep, JobStep, HelloStep, ExtensionsStep,
     ExtensionStep, HostStep, QueryStep, LabelStep DEF Next, Extract

\* Whatever a capture file holds, no step of the reader, the parser, the job
\* or the extractors reads beyond the packet: every nested length is compared
\* with what is left before it is used.
THEOREM NoReadBeyondPacket == Spec => []ReadsWithin
<1>1. IInv => ReadsWithin
  BY DEF IInv
<1>. QED
  BY <1>1, IInvInit, IInvNext, PTL DEF Spec

\* Either engine computes the offset of the payload from the raw bytes, with
\* bounds of its own, and finds it where the parser has stopped, whatever the
\* lengths of the headers: the extractors never see a part of a header.
THEOREM OffsetsAgree ==
    Spec => [](pc = "job" => /\ PayloadOffset = offset
                             /\ offset + PayloadLength = Len(pkt))
<1>1. IInv => (pc = "job" => /\ PayloadOffset = offset
                             /\ offset + PayloadLength = Len(pkt))
  BY OffsetIs DEF IInv
<1>. QED
  BY <1>1, IInvInit, IInvNext, PTL DEF Spec

-----------------------------------------------------------------------------
(* Which packets are passed on. *)

\* A length of a file is read as the file's byte order says.
LEMMA LengthsAre ==
    ASSUME TypeInv
    PROVE  /\ SnapLen = Plain(file, file.snaplen)
           /\ \A r \in DOMAIN file.recs :
                  InclLen(r) = Plain(file, file.recs[r].claim)
<1>1. ASSUME NEW w \in Words PROVE Value(MaybeSwap32(w)) = Plain(file, w)
  <2>1. Len(w) = 4
    BY DEF Words
  <2>2. /\ Reverse(w)[1] = w[4] /\ Reverse(w)[2] = w[3]
        /\ Reverse(w)[3] = w[2] /\ Reverse(w)[4] = w[1]
    BY <2>1 DEF Reverse
  <2>. QED
    BY <2>2 DEF MaybeSwap32, Plain, Value
<1>2. file.snaplen \in Words /\ \A r \in DOMAIN file.recs : file.recs[r].claim \in Words
  BY RecordsAre
<1>. QED
  BY <1>1, <1>2 DEF SnapLen, InclLen

\* The reader takes a record if and only if it and all before it are sound, and
\* then it takes all of its bytes.
LEMMA ReadsSound ==
    ASSUME TypeInv, ReadInv, pc = "read"
    PROVE  /\ Readable(next) <=> next \in DOMAIN file.recs /\ Sound(next)
           /\ Readable(next) =>
                  SubSeq(file.recs[next].bytes, 1, InclLen(next))
                      = file.recs[next].bytes
<1>. DEFINE b == file.recs[next].bytes
            n == InclLen(next)
            s == SnapLen
<1>1. CASE next \notin DOMAIN file.recs
  BY <1>1 DEF Readable
<1>2. CASE next \in DOMAIN file.recs
  <2>1. b \in Seq(Bytes) /\ Len(b) \in Nat
    BY <1>2, RecordsAre
  <2>2. n \in Nat /\ n = Plain(file, file.recs[next].claim)
        /\ s = Plain(file, file.snaplen)
    BY <1>2, LengthType, LengthsAre
  <2>3. Len(b) = n \/ Len(b) < n
    BY <1>2, <2>2, FilesAssumption DEF TypeInv
  <2>4. Sound(next) <=> n <= s /\ n <= 65535 /\ n = Len(b)
    <3>1. next \in Nat \ {0} /\ file.magic # "other" /\ \A r \in 1 .. next - 1 : Sound(r)
      BY DEF TypeInv, ReadInv
    <3>2. \A k \in 1 .. next : k = next \/ (k \in 1 .. next - 1 /\ k \in 1 .. k)
      BY <3>1
    <3>. QED
      BY <2>2, <3>1, <3>2 DEF Sound
  <2>5. Readable(next) <=> n <= s /\ n <= 65535 /\ n <= Len(b)
    BY <1>2 DEF Readable
  <2>. HIDE DEF b, n, s
  <2>6. n <= Len(b) <=> n = Len(b)
    BY <2>1, <2>2, <2>3
  <2>7. SubSeq(b, 1, Len(b)) = b
    BY <2>1, SubSeqFull
  <2>. QED
    BY <1>2, <2>4, <2>5, <2>6, <2>7 DEF b, n
<1>. QED
  BY <1>1, <1>2

\* What makes a packet inspectable, in terms of what the parser looks at.
LEMMA InspectableIs ==
    ASSUME pkt \in Seq(Bytes)
    PROVE  /\ Inspectable(pkt) <=>
                /\ Len(pkt) >= 34
                /\ Byte(12) = 8 /\ Byte(13) = 0 /\ Byte(14) \in 69 .. 79
                /\ \/ /\ Byte(23) = 6 /\ Len(pkt) >= Transport + 20
                      /\ HighNibble(Transport + 12) >= 5
                      /\ Len(pkt) >= Transport + 4 * HighNibble(Transport + 12)
                   \/ Byte(23) = 17 /\ Len(pkt) >= Transport + 8
           /\ Len(pkt) >= 34 /\ Byte(23) = 17 => HeaderEnd(pkt) = Transport + 8
           /\ Len(pkt) >= 34 /\ Len(pkt) >= Transport + 20 /\ Byte(23) = 6 =>
                HeaderEnd(pkt) = Transport + 4 * HighNibble(Transport + 12)
<1>. DEFINE t == TransportAt(pkt)
<1>1. Len(pkt) \in Nat /\ Transport \in Nat
  BY TransportIs
<1>2. \A i \in Nat : i < Len(pkt) => Byte(i) = Field(pkt, i)
  BY DEF Byte, Field
<1>3. CASE Len(pkt) < 34
  BY <1>1, <1>3 DEF Inspectable
<1>4. CASE Len(pkt) >= 34
  <2>1. /\ Byte(12) = Field(pkt, 12) /\ Byte(13) = Field(pkt, 13)
        /\ Byte(14) = Field(pkt, 14) /\ Byte(23) = Field(pkt, 23)
    BY <1>1, <1>2, <1>4
  <2>2. t = Transport
    BY <2>1 DEF Transport, TransportAt, LowNibble
  <2>3. Len(pkt) >= Transport + 20 =>
            HighNibble(Transport + 12) = Field(pkt, t + 12) \div 16
    <3>1. Transport + 12 \in Nat /\
          (Len(pkt) >= Transport + 20 => Transport + 12 < Len(pkt))
      BY <1>1
    <3>. QED
      BY <1>2, <2>2, <3>1 DEF HighNibble
  <2>4. HeaderEnd(pkt) = IF Field(pkt, 23) = 6
                         THEN t + 4 * (Field(pkt, t + 12) \div 16) ELSE t + 8
    BY DEF HeaderEnd
  <2>5. Inspectable(pkt) <=>
            /\ Field(pkt, 12) = 8 /\ Field(pkt, 13) = 0
            /\ Field(pkt, 14) \in 69 .. 79
            /\ \/ /\ Field(pkt, 23) = 6 /\ Len(pkt) >= t + 20
                  /\ Field(pkt, t + 12) \div 16 >= 5
                  /\ Len(pkt) >= HeaderEnd(pkt)
               \/ Field(pkt, 23) = 17 /\ Len(pkt) >= t + 8
    BY <1>4 DEF Inspectable
  <2>. HIDE DEF t
  <2>6. Byte(23) = 17 => HeaderEnd(pkt) = Transport + 8
    BY <2>1, <2>2, <2>4
  <2>7. Len(pkt) >= Transport + 20 /\ Byte(23) = 6 =>
            HeaderEnd(pkt) = Transport + 4 * HighNibble(Transport + 12)
    BY <2>1, <2>2, <2>3, <2>4
  <2>. QED
    BY <1>4, <2>1, <2>2, <2>3, <2>5, <2>6, <2>7
<1>. QED
  BY <1>1, <1>3, <1>4

\* The fields of the first two headers, put together from their bytes.
LEMMA FieldsAre ==
    ASSUME pkt \in Seq(Bytes)
    PROVE  /\ Uint16BE(12) = 2048 <=> Byte(12) = 8 /\ Byte(13) = 0
           /\ HighNibble(14) = 4 /\ 4 * LowNibble(14) >= 20 <=>
                  Byte(14) \in 69 .. 79
<1>. DEFINE v == Byte(14)
            x == Byte(12)
            y == Byte(13)
<1>1. x \in 0 .. 255 /\ y \in 0 .. 255 /\ v \in 0 .. 255
  BY BytesAre DEF Bytes
<1>2. Uint16BE(12) = 256 * x + y
  <2>1. 12 + 1 = 13
    OBVIOUS
  <2>. QED
    BY <2>1 DEF Uint16BE
<1>3. HighNibble(14) = v \div 16 /\ LowNibble(14) = v % 16
  BY DEF HighNibble, LowNibble
<1>. HIDE DEF v, x, y
<1>4. 256 * x + y = 2048 <=> x = 8 /\ y = 0
  BY <1>1
<1>5. v \div 16 = 4 /\ 4 * (v % 16) >= 20 <=> v \in 69 .. 79
  BY <1>1
<1>6. Uint16BE(12) = 2048 <=> x = 8 /\ y = 0
  BY <1>2, <1>4
<1>7. HighNibble(14) = 4 /\ 4 * LowNibble(14) >= 20 <=> v \in 69 .. 79
  BY <1>3, <1>5
<1>. QED
  BY <1>6, <1>7 DEF v, x, y

\* The parser goes on exactly as long as the packet can still be inspectable.
LEMMA ParseSees ==
    ASSUME IInv, SeenInv, Parse
    PROVE  /\ SeenInv'
           /\ pc' \in Layers \/ (pc' = "read" /\ ~Inspectable(pkt))
           /\ UNCHANGED <<file, next, pkt, jobs>> /\ pc \in Layers
<1>1. pkt \in Seq(Bytes) /\ Len(pkt) \in Nat /\ offset \in Nat /\ Transport \in Nat
  BY TransportIs DEF IInv, TypeInv
<1>2. /\ UNCHANGED <<file, next, pkt, jobs>> /\ pc \in Layers
      /\ UNCHANGED proto \/ pc' = "job"
  BY DEF Parse, ParseEthernet, ParseIPv4, ParseTCP, ParseUDP, input, Layers, Skip,
     Goto, Advance
<1>3. /\ Byte(12)' = Byte(12) /\ Byte(13)' = Byte(13) /\ Byte(14)' = Byte(14)
      /\ Byte(23)' = Byte(23)
      /\ HighNibble(Transport + 12)' = HighNibble(Transport + 12)
  BY <1>2 DEF Transport, HighNibble, LowNibble, Byte
<1>. DEFINE Fits == /\ HighNibble(Transport + 12) >= 5
                    /\ Len(pkt) >= Transport + 4 * HighNibble(Transport + 12)
<1>4. Inspectable(pkt) <=>
          /\ Len(pkt) >= 34
          /\ Byte(12) = 8 /\ Byte(13) = 0 /\ Byte(14) \in 69 .. 79
          /\ \/ Byte(23) = 6 /\ Len(pkt) >= Transport + 20 /\ Fits
             \/ Byte(23) = 17 /\ Len(pkt) >= Transport + 8
  BY <1>1, InspectableIs
<1>. HIDE DEF Fits
<1>5. ASSUME Skip, ~Inspectable(pkt)
      PROVE  SeenInv' /\ pc' = "read" /\ ~Inspectable(pkt)
  BY <1>5 DEF Skip, Goto, SeenInv
<1>6. CASE ParseEthernet
  <2>1. CASE Len(pkt) < 14
    BY <1>1, <1>2, <1>4, <1>5, <1>6, <2>1 DEF ParseEthernet
  <2>2. CASE ~(Len(pkt) < 14) /\ Uint16BE(12) = 2048
    <3>1. pc' = "ipv4" /\ Byte(12) = 8 /\ Byte(13) = 0
      BY <1>1, <1>6, <2>2, FieldsAre DEF ParseEthernet, Advance, Goto
    <3>. QED
      BY <1>2, <1>3, <3>1 DEF SeenInv, Layers
  <2>3. CASE ~(Len(pkt) < 14) /\ Uint16BE(12) # 2048
    <3>1. ~Inspectable(pkt)
      BY <1>1, <1>4, <2>3, FieldsAre
    <3>. QED
      BY <1>2, <1>5, <1>6, <2>3, <3>1 DEF ParseEthernet
  <2>. QED
    BY <1>2, <2>1, <2>2, <2>3
<1>7. CASE ParseIPv4
  <2>. DEFINE headerLen == 4 * LowNibble(offset)
              right == HighNibble(offset) = 4 /\ headerLen >= 20
  <2>1. /\ offset = 14 /\ Transport = 14 + headerLen /\ offset + 9 = 23
        /\ Byte(12) = 8 /\ Byte(13) = 0 /\ pc = "ipv4"
    BY <1>1, <1>7, TransportIs DEF ParseIPv4, IInv, ParsedInv, SeenInv
  <2>2. right <=> Byte(14) \in 69 .. 79
    BY <1>1, <2>1, FieldsAre
  <2>3. \/ Len(pkt) < 34 /\ Skip
        \/ /\ Len(pkt) >= 34 /\ right /\ Len(pkt) >= 14 + headerLen
           /\ \/ Byte(23) = 6 /\ pc' = "tcp"
              \/ Byte(23) = 17 /\ pc' = "udp"
        \/ Byte(23) \notin {6, 17} /\ Skip
        \/ ~(right /\ Len(pkt) >= 14 + headerLen) /\ Skip
    <3>1. CASE Len(pkt) < offset + 20
      BY <1>1, <1>7, <2>1, <3>1 DEF ParseIPv4
    <3>2. CASE ~(Len(pkt) < offset + 20)
      <4>1. Len(pkt) >= 34
        BY <1>1, <2>1, <3>2
      <4>2. IF /\ HighNibble(offset) = 4 /\ headerLen >= 20
               /\ Len(pkt) >= offset + headerLen
            THEN CASE Byte(offset + 9) = 6 -> Advance(headerLen, "tcp")
                   [] Byte(offset + 9) = 17 -> Advance(headerLen, "udp")
                   [] OTHER -> Skip
            ELSE Skip
        BY <1>7, <3>2 DEF ParseIPv4
      <4>. QED
        BY <2>1, <4>1, <4>2 DEF Advance, Goto
    <3>. QED
      BY <3>1, <3>2
  <2>4. headerLen \in Nat
    <3>1. LowNibble(offset) \in 0 .. 15
      BY <1>1, BytesAre
    <3>. QED
      BY <3>1
  <2>. HIDE DEF headerLen, right
  <2>5. Len(pkt) < 34 \/ Byte(23) \notin {6, 17}
            \/ ~(right /\ Len(pkt) >= 14 + headerLen) => ~Inspectable(pkt)
    BY <1>1, <1>4, <2>1, <2>2, <2>4
  <2>6. CASE Skip /\ ~Inspectable(pkt)
    BY <1>2, <1>5, <2>6
  <2>7. CASE /\ right
             /\ \/ Byte(23) = 6 /\ pc' = "tcp"
                \/ Byte(23) = 17 /\ pc' = "udp"
    BY <1>2, <1>3, <2>1, <2>2, <2>7 DEF SeenInv, Layers
  <2>. QED
    BY <2>3, <2>5, <2>6, <2>7
<1>8. CASE ParseTCP
  <2>. DEFINE headerLen == 4 * HighNibble(offset + 12)
  <2>1. /\ offset = Transport /\ headerLen = 4 * HighNibble(Transport + 12)
        /\ Byte(12) = 8 /\ Byte(13) = 0 /\ Byte(23) = 6 /\ Byte(14) \in 69 .. 79
    BY <1>8 DEF ParseTCP, IInv, ParsedInv, SeenInv
  <2>2. HighNibble(Transport + 12) \in 0 .. 15
    <3>1. Transport + 12 \in Nat
      BY <1>1
    <3>. QED
      BY <1>1, <3>1, BytesAre
  <2>3. \/ Len(pkt) < Transport + 20 /\ Skip
        \/ /\ headerLen >= 20 /\ Len(pkt) >= Transport + headerLen
           /\ pc' = "job" /\ proto' = "tcp"
        \/ ~(headerLen >= 20 /\ Len(pkt) >= Transport + headerLen) /\ Skip
    <3>1. CASE Len(pkt) < offset + 20
      BY <1>8, <2>1, <3>1 DEF ParseTCP
    <3>2. CASE ~(Len(pkt) < offset + 20)
      <4>1. IF headerLen >= 20 /\ Len(pkt) >= offset + headerLen
            THEN Advance(headerLen, "job") /\ proto' = "tcp"
            ELSE Skip
        BY <1>8, <3>2 DEF ParseTCP
      <4>. QED
        BY <2>1, <4>1 DEF Advance, Goto
    <3>. QED
      BY <3>1, <3>2
  <2>4. headerLen >= 20 <=> HighNibble(Transport + 12) >= 5
    BY <2>1, <2>2
  <2>5. headerLen >= 20 /\ Len(pkt) >= Transport + headerLen <=> Fits
    BY <2>1, <2>4 DEF Fits
  <2>. HIDE DEF headerLen
  <2>6. Len(pkt) < Transport + 20 \/ ~Fits => ~Inspectable(pkt)
    BY <1>1, <1>4, <2>1
  <2>7. CASE Skip /\ ~Inspectable(pkt)
    BY <1>2, <1>5, <2>7
  <2>8. CASE headerLen >= 20 /\ pc' = "job" /\ proto' = "tcp"
    BY <1>2, <1>3, <2>1, <2>4, <2>8 DEF SeenInv, Layers
  <2>. QED
    BY <2>3, <2>5, <2>6, <2>7, <2>8
<1>9. CASE ParseUDP
  <2>1. /\ offset = Transport
        /\ Byte(12) = 8 /\ Byte(13) = 0 /\ Byte(23) = 17 /\ Byte(14) \in 69 .. 79
    BY <1>9 DEF ParseUDP, IInv, ParsedInv, SeenInv
  <2>2. CASE Len(pkt) < offset + 8
    <3>1. ~Inspectable(pkt)
      BY <1>1, <1>4, <2>1, <2>2
    <3>. QED
      BY <1>2, <1>5, <1>9, <2>2, <3>1 DEF ParseUDP
  <2>3. CASE ~(Len(pkt) < offset + 8)
    <3>1. pc' = "job" /\ proto' = "udp"
      BY <1>9, <2>3 DEF ParseUDP, Advance, Goto
    <3>. QED
      BY <1>2, <1>3, <2>1, <3>1 DEF SeenInv, Layers
  <2>. QED
    BY <2>2, <2>3
<1>. QED
  BY <1>2, <1>6, <1>7, <1>8, <1>9 DEF Parse

\* What is passed on is inspectable, and its payload follows its headers.
LEMMA JobIsRight ==
    ASSUME IInv, SeenInv, pc = "job"
    PROVE  /\ Inspectable(pkt) /\ PayloadOffset = HeaderEnd(pkt)
           /\ PayloadLength = Len(pkt) - HeaderEnd(pkt)
<1>1. pkt \in Seq(Bytes) /\ Len(pkt) \in Nat /\ offset \in Nat /\ Transport \in Nat
  BY TransportIs DEF IInv, TypeInv
<1>2. /\ PayloadOffset = offset
      /\ PayloadLength \in Nat /\ offset + PayloadLength = Len(pkt)
  BY OffsetIs DEF IInv
<1>3. /\ Byte(12) = 8 /\ Byte(13) = 0 /\ Byte(14) \in 69 .. 79
      /\ \/ proto = "tcp" /\ Byte(23) = 6 /\ HighNibble(Transport + 12) >= 5
         \/ proto = "udp" /\ Byte(23) = 17
  BY DEF SeenInv
<1>4. /\ Len(pkt) >= 34 /\ Len(pkt) >= offset
      /\ \/ /\ proto = "tcp" /\ Len(pkt) >= Transport + 20
            /\ offset = Transport + 4 * HighNibble(Transport + 12)
         \/ proto = "udp" /\ offset = Transport + 8
  BY DEF IInv, ParsedInv
<1>5. Inspectable(pkt)
  BY <1>1, <1>3, <1>4, InspectableIs
<1>6. offset = HeaderEnd(pkt)
  BY <1>1, <1>3, <1>4, InspectableIs
<1>. QED
  BY <1>1, <1>2, <1>5, <1>6

\* A job keeps what the reader gave it, whatever is found in its packet.
LEMMA ExtractKeeps ==
    ASSUME IInv, Extract
    PROVE  /\ pc \in Extractors /\ pc' \in Extractors \cup {"read"}
           /\ UNCHANGED <<file, engine, next, pkt>>
           /\ DOMAIN jobs' = DOMAIN jobs
           /\ \A j \in DOMAIN jobs : /\ jobs'[j].rec = jobs[j].rec
                                     /\ jobs'[j].offset = jobs[j].offset
                                     /\ jobs'[j].length = jobs[j].length
<1>1. jobs \in Seq(Job)
  BY DEF IInv, TypeInv
<1>2. /\ pc \in Extractors /\ pc' \in Extractors \cup {"read"}
      /\ UNCHANGED unread
      /\ UNCHANGED jobs \/ \E name : Found(name)
  <2>1. CASE Hello \/ Extensions \/ Query
    BY <2>1 DEF Hello, Extensions, Query, NotFound, Goto, Extractors
  <2>2. CASE SessionID \/ CipherSuites \/ CompressionMethods
    BY <2>2 DEF SessionID, CipherSuites, CompressionMethods, SkipField, NotFound, Goto,
       Extractors
  <2>3. CASE Extension
    <3>1. pc = "extension" /\ UNCHANGED unread
      BY <2>3 DEF Extension
    <3>2. \/ NotFound("host") \/ UNCHANGED <<pc, end, jobs>>
          \/ (\E name : Found(name)) /\ Goto("read")
      BY <2>3 DEF Extension
    <3>. QED
      BY <3>1, <3>2 DEF NotFound, Goto, Extractors
  <2>4. CASE Host
    <3>1. pc = "host" /\ UNCHANGED unread
      BY <2>4 DEF Host
    <3>2. NotFound("query") \/ ((\E name : Found(name)) /\ Goto("read"))
      BY <2>4 DEF Host
    <3>. QED
      BY <3>1, <3>2 DEF NotFound, Goto, Extractors
  <2>5. CASE Label
    <3>1. pc = "label" /\ UNCHANGED unread
      BY <2>5 DEF Label
    <3>2. NotFound("read") \/ ((\E name : Found(name)) /\ UNCHANGED <<pc, end>>)
      BY <2>5 DEF Label
    <3>. QED
      BY <3>1, <3>2 DEF NotFound, Goto, Extractors
  <2>. QED
    BY <2>1, <2>2, <2>3, <2>4, <2>5 DEF Extract
<1>3. UNCHANGED <<file, engine, next, pkt>>
  BY <1>2 DEF unread, input
<1>4. CASE UNCHANGED jobs
  BY <1>2, <1>3, <1>4
<1>5. CASE \E name : Found(name)
  <2>1. PICK name : Found(name)
    BY <1>5
  <2>2. jobs' = [jobs EXCEPT ![Len(jobs)].name = name]
    BY <2>1 DEF Found
  <2>3. DOMAIN jobs' = DOMAIN jobs
    BY <2>2
  <2>4. ASSUME NEW j \in DOMAIN jobs
        PROVE  /\ jobs'[j].rec = jobs[j].rec
               /\ jobs'[j].offset = jobs[j].offset
               /\ jobs'[j].length = jobs[j].length
    <3>1. jobs[j] \in Job
      BY <1>1
    <3>2. jobs'[j] = jobs[j] \/ jobs'[j] = [jobs[j] EXCEPT !.name = name]
      BY <2>2
    <3>. QED
      BY <3>1, <3>2 DEF Job
  <2>. QED
    BY <1>2, <1>3, <2>3, <2>4
<1>. QED
  BY <1>2, <1>4, <1>5

\* No record is dealt with, and no job is passed on or changed in this.
LEMMA SentKept ==
    ASSUME SentInv, UNCHANGED file, Done' = Done, DOMAIN jobs' = DOMAIN jobs,
           \A j \in DOMAIN jobs : /\ jobs'[j].rec = jobs[j].rec
                                  /\ jobs'[j].offset = jobs[j].offset
                                  /\ jobs'[j].length = jobs[j].length
    PROVE  SentInv'
  BY DEF SentInv

\* A packet that is not inspectable is dealt with.
LEMMA SentSkipped ==
    ASSUME SentInv, UNCHANGED <<file, jobs>>, Done \in Nat, Done' = Done + 1,
           ~Inspectable(file.recs[Done + 1].bytes)
    PROVE  SentInv'
<1>1. \A r \in 1 .. Done + 1 : r \in 1 .. Done \/ r = Done + 1
  OBVIOUS
<1>2. \A r \in 1 .. Done : r \in 1 .. Done + 1
  OBVIOUS
<1>. QED
  BY <1>1, <1>2 DEF SentInv

\* An inspectable packet is passed on.
LEMMA SentOn ==
    ASSUME SentInv, UNCHANGED file, Done \in Nat, Done' = Done + 1,
           jobs \in Seq(Job), NEW j \in Job, jobs' = Append(jobs, j),
           NEW b, b = file.recs[Done + 1].bytes, Inspectable(b),
           j.rec = Done + 1, j.offset = HeaderEnd(b),
           j.length = Len(b) - HeaderEnd(b)
    PROVE  SentInv'
<1>1. /\ Len(jobs) \in Nat /\ DOMAIN jobs = 1 .. Len(jobs)
      /\ DOMAIN jobs' = 1 .. Len(jobs) + 1
      /\ jobs'[Len(jobs) + 1] = j
      /\ \A i \in DOMAIN jobs : jobs'[i] = jobs[i]
  OBVIOUS
<1>2. /\ \A i \in DOMAIN jobs' : i \in DOMAIN jobs \/ i = Len(jobs) + 1
      /\ \A i \in DOMAIN jobs : i \in DOMAIN jobs'
      /\ Len(jobs) + 1 \in DOMAIN jobs'
  BY <1>1
<1>3. /\ \A r \in 1 .. Done + 1 : r \in 1 .. Done \/ r = Done + 1
      /\ \A r \in 1 .. Done : r \in 1 .. Done + 1 /\ r < Done + 1
      /\ Done + 1 \in 1 .. Done + 1
  OBVIOUS
<1>4. \A i \in DOMAIN jobs' : LET c == file.recs[jobs'[i].rec].bytes IN
          /\ jobs'[i].rec \in 1 .. Done + 1
          /\ Inspectable(c)
          /\ jobs'[i].offset = HeaderEnd(c)
          /\ jobs'[i].length = Len(c) - HeaderEnd(c)
  BY <1>1, <1>2, <1>3 DEF SentInv
<1>5. \A i, k \in DOMAIN jobs' : i < k => jobs'[i].rec < jobs'[k].rec
  <2>. SUFFICES ASSUME NEW i \in DOMAIN jobs', NEW k \in DOMAIN jobs', i < k
                PROVE  jobs'[i].rec < jobs'[k].rec
    OBVIOUS
  <2>1. i \in DOMAIN jobs
    BY <1>1
  <2>2. jobs[i].rec \in 1 .. Done
    BY <2>1 DEF SentInv
  <2>3. CASE k \in DOMAIN jobs
    BY <1>1, <2>1, <2>3 DEF SentInv
  <2>4. CASE k = Len(jobs) + 1
    BY <1>1, <1>3, <2>1, <2>2, <2>4
  <2>. QED
    BY <1>2, <2>3, <2>4
<1>6. \A r \in 1 .. Done + 1 : Inspectable(file.recs[r].bytes) =>
          \E i \in DOMAIN jobs' : jobs'[i].rec = r
  BY <1>1, <1>2, <1>3 DEF SentInv
<1>. QED
  BY <1>4, <1>5, <1>6 DEF SentInv

\* The reader takes the next record or stops at it.
LEMMA ReaderSends ==
    ASSUME IInv, SeenInv, ReadInv, SentInv, Open \/ ReadPacket \/ ReadFails
    PROVE  SeenInv' /\ ReadInv' /\ SentInv'
<1>1. /\ next \in Nat \ {0} /\ Len(file.recs) \in Nat
      /\ DOMAIN file.recs = 1 .. Len(file.recs)
  BY RecordsAre DEF IInv, TypeInv
<1>. USE DEF Layers, Extractors
<1>2. CASE Open
  <2>1. /\ next = 1 /\ pc = "open" /\ UNCHANGED <<file, next, jobs>>
        /\ pc' = IF file.magic = "other" THEN "closed" ELSE "read"
    BY <1>2 DEF Open, ReadInv, input
  <2>2. SentInv'
    BY <2>1, SentKept DEF Done
  <2>3. ReadInv'
    BY <1>1, <2>1 DEF ReadInv, Sound
  <2>. QED
    BY <2>1, <2>2, <2>3 DEF SeenInv
<1>3. CASE ReadPacket
  <2>1. /\ pc = "read" /\ pc' = "ethernet" /\ next' = next + 1
        /\ UNCHANGED <<file, jobs>> /\ Readable(next)
        /\ pkt' = SubSeq(file.recs[next].bytes, 1, InclLen(next))
    BY <1>3 DEF ReadPacket, input
  <2>2. /\ next \in 1 .. Len(file.recs) /\ Sound(next)
        /\ pkt' = file.recs[next].bytes
    BY <1>1, <2>1, ReadsSound DEF IInv
  <2>3. /\ next' - 1 = next /\ next' > 1 /\ Done' = Done
        /\ \A r \in 1 .. next : r \in 1 .. next - 1 \/ r = next
    BY <1>1, <2>1 DEF Done
  <2>4. SentInv'
    BY <2>1, <2>3, SentKept
  <2>5. \A r \in 1 .. next - 1 : Sound(r)
    BY DEF ReadInv
  <2>6. \A r \in 1 .. next' - 1 : Sound(r)'
    BY <2>1, <2>2, <2>3, <2>5 DEF Sound
  <2>7. ReadInv'
    BY <1>1, <2>1, <2>2, <2>3, <2>6 DEF ReadInv
  <2>. QED
    BY <2>1, <2>4, <2>7 DEF SeenInv
<1>4. CASE ReadFails
  <2>1. /\ pc = "read" /\ pc' = "closed" /\ UNCHANGED <<file, next, jobs>>
        /\ ~Readable(next)
    BY <1>4 DEF ReadFails, input
  <2>2. ~(next \in DOMAIN file.recs /\ Sound(next))
    BY <2>1, ReadsSound DEF IInv
  <2>3. ASSUME NEW r \in DOMAIN file.recs, Sound(r), r >= next PROVE FALSE
    <3>1. next \in DOMAIN file.recs /\ \A k \in 1 .. next : k \in 1 .. r
      BY <1>1, <2>3
    <3>2. Sound(next)
      BY <2>3, <3>1 DEF Sound
    <3>. QED
      BY <2>2, <3>1, <3>2
  <2>4. \A r \in DOMAIN file.recs : Sound(r) => r < next
    BY <1>1, <2>3
  <2>5. ReadInv'
    BY <2>1, <2>4 DEF ReadInv, Sound
  <2>6. SentInv'
    BY <2>1, SentKept DEF Done
  <2>. QED
    BY <2>1, <2>5, <2>6 DEF SeenInv
<1>. QED
  BY <1>2, <1>3, <1>4

\* The packet at hand is skipped, looked at further, or passed on.
LEMMA PacketSends ==
    ASSUME IInv, SeenInv, ReadInv, SentInv, Parse \/ MakeJob
    PROVE  SeenInv' /\ ReadInv' /\ SentInv'
<1>1. /\ next \in Nat \ {0} /\ next > 1 /\ pkt = file.recs[next - 1].bytes
      /\ pc \in Layers /\ UNCHANGED <<file, next, pkt>> /\ jobs \in Seq(Job)
  <2>1. pc \in Layers /\ UNCHANGED <<file, next, pkt>>
    BY ParseSees DEF MakeJob, Layers, input
  <2>. QED
    BY <2>1 DEF ReadInv, IInv, TypeInv
<1>2. Done = next - 2 /\ Done \in Nat /\ file.recs[Done + 1].bytes = pkt
  <2>1. next - 2 \in Nat /\ (next - 2) + 1 = next - 1
    BY <1>1
  <2>. QED
    BY <1>1, <2>1 DEF Done
<1>3. pc' \in Layers \cup Extractors \cup {"read"}
  BY ParseSees DEF MakeJob, Goto, Extractors
<1>4. ReadInv'
  BY <1>1, <1>3 DEF ReadInv, Sound, Layers, Extractors
<1>5. pc' \notin Layers => Done' = Done + 1
  BY <1>1, <1>2 DEF Done
<1>6. CASE Parse
  <2>1. SeenInv' /\ UNCHANGED jobs
    BY <1>6, ParseSees
  <2>2. CASE pc' \in Layers
    <3>1. Done' = Done
      BY <1>1, <2>2 DEF Done
    <3>. QED
      BY <1>1, <1>4, <2>1, <3>1, SentKept
  <2>3. CASE pc' = "read" /\ ~Inspectable(pkt)
    <3>1. Done' = Done + 1
      BY <1>5, <2>3 DEF Layers
    <3>. QED
      BY <1>1, <1>2, <1>4, <2>1, <2>3, <3>1, SentSkipped
  <2>. QED
    BY <1>6, <2>2, <2>3, ParseSees
<1>7. CASE MakeJob
  <2>. DEFINE j == [rec |-> next - 1, offset |-> PayloadOffset,
                    length |-> PayloadLength, name |-> <<>>]
  <2>1. pc = "job" /\ pc' = "hello" /\ jobs' = Append(jobs, j)
    BY <1>7 DEF MakeJob, Goto
  <2>2. /\ Inspectable(pkt) /\ PayloadOffset = HeaderEnd(pkt)
        /\ PayloadLength = Len(pkt) - HeaderEnd(pkt)
    BY <2>1, JobIsRight
  <2>3. PayloadOffset \in Nat /\ PayloadLength \in Nat
    BY <2>1, OffsetIs DEF IInv, TypeInv
  <2>4. j \in Job
    BY <1>1, <2>3 DEF Job, Name
  <2>5. /\ j.rec = Done + 1 /\ j.offset = HeaderEnd(pkt)
        /\ j.length = Len(pkt) - HeaderEnd(pkt)
    BY <1>1, <1>2, <2>2
  <2>6. Done' = Done + 1
    BY <1>5, <2>1 DEF Layers
  <2>. HIDE DEF j
  <2>7. SentInv'
    BY <1>1, <1>2, <2>1, <2>2, <2>4, <2>5, <2>6, SentOn
  <2>8. SeenInv'
    BY <2>1 DEF SeenInv
  <2>. QED
    BY <1>4, <2>7, <2>8
<1>. QED
  BY <1>6, <1>7

\* The extractors pass nothing on, and take nothing back.
LEMMA ExtractorsSend ==
    ASSUME IInv, SeenInv, ReadInv, SentInv, Extract
    PROVE  SeenInv' /\ ReadInv' /\ SentInv'
<1>1. Done' = Done
  BY ExtractKeeps DEF Done, Layers, Extractors
<1>2. SentInv'
  BY <1>1, ExtractKeeps, SentKept
<1>3. ReadInv'
  BY ExtractKeeps DEF ReadInv, Sound, Layers, Extractors
<1>4. SeenInv'
  BY ExtractKeeps DEF SeenInv, Extractors
<1>. QED
  BY <1>2, <1>3, <1>4

\* Of what was read and sent on, the inspectable part has its jobs.
SendInv == SeenInv /\ ReadInv /\ SentInv

\* It holds before a file is opened.
LEMMA SendInvInit == Init => SendInv
<1>. SUFFICES ASSUME Init PROVE SendInv
  OBVIOUS
<1>1. /\ next = 1 /\ pc = "open" /\ DOMAIN jobs = {} /\ Done = 0
      /\ Len(file.recs) \in Nat
  BY IInvInit, RecordsAre DEF Init, Done, Layers, IInv
<1>2. ReadInv
  BY <1>1 DEF ReadInv, Layers, Extractors
<1>. QED
  BY <1>1, <1>2 DEF SendInv, SeenInv, SentInv

\* Every step keeps it.
LEMMA SendInvNext == IInv /\ SendInv /\ [Next]_vars => SendInv'
<1>. SUFFICES ASSUME IInv, SeenInv, ReadInv, SentInv, [Next]_vars
              PROVE  SeenInv' /\ ReadInv' /\ SentInv'
  BY DEF SendInv
<1>1. CASE UNCHANGED vars
  BY <1>1 DEF vars, input, SeenInv, ReadInv, SentInv, Done, Sound, Transport,
     HighNibble, LowNibble, Byte
<1>. QED
  BY <1>1, ReaderSends, PacketSends, ExtractorsSend DEF Next

\* When a file has been read, both engines have been given exactly the packets
\* of TCP and UDP over IPv4 whose headers are complete, up to the first record
\* that is not sound, in the file's order and each with the payload that
\* follows its headers: the loops of the reader threads, with everything that
\* the reader and the parser reject, lose and repeat nothing else.
THEOREM PacketsDispatched == Spec => []Dispatched
<1>1. Init => IInv /\ SendInv
  BY IInvInit, SendInvInit
<1>2. IInv /\ SendInv /\ [Next]_vars => (IInv /\ SendInv)'
  BY IInvNext, SendInvNext
<1>3. IInv /\ SendInv => Dispatched
  <2>. SUFFICES ASSUME IInv, SendInv, pc = "closed" PROVE Dispatched
    BY DEF Dispatched
  <2>1. /\ next \in Nat \ {0} /\ next - 1 <= Len(file.recs)
        /\ Len(file.recs) \in Nat /\ DOMAIN file.recs = 1 .. Len(file.recs)
    BY RecordsAre DEF IInv, TypeInv, SendInv, ReadInv
  <2>2. Done = next - 1
    BY DEF Done, Layers
  <2>3. \A r : r \in 1 .. Done <=> r \in DOMAIN file.recs /\ Sound(r)
    BY <2>1, <2>2 DEF SendInv, ReadInv
  <2>4. \A r : r \in {jobs[j].rec : j \in DOMAIN jobs} <=>
               r \in {s \in DOMAIN file.recs :
                         Sound(s) /\ Inspectable(file.recs[s].bytes)}
    BY <2>3 DEF SendInv, SentInv
  <2>5. {jobs[j].rec : j \in DOMAIN jobs} =
            {s \in DOMAIN file.recs : Sound(s) /\ Inspectable(file.recs[s].bytes)}
    BY <2>4
  <2>. QED
    BY <2>5 DEF Dispatched, SendInv, SentInv
<1>. QED
  BY <1>1, <1>2, <1>3, PTL DEF Spec

-----------------------------------------------------------------------------
(* The names. *)

\* The packet at hand is the one of the last job.
LEMMA HandIs ==
    ASSUME IInv, ReadInv, SentInv, pc \in Extractors, job.rec = next - 1
    PROVE  /\ Hand \in PcapRecord /\ pkt = Hand.bytes /\ Means(Hand)
           /\ Inspectable(pkt) /\ job.offset = HeaderEnd(pkt)
           /\ jobs \in Seq(Job) /\ Len(jobs) \in DOMAIN jobs
           /\ job = jobs[Len(jobs)]
<1>1. jobs \in Seq(Job) /\ Len(jobs) \in DOMAIN jobs /\ job = jobs[Len(jobs)]
  BY DEF IInv, TypeInv, JobInv, job, Last
<1>2. pkt = Hand.bytes /\ next - 1 <= Len(file.recs) /\ next > 1
      /\ next \in Nat /\ file \in Files
  BY DEF ReadInv, Hand, IInv, TypeInv
<1>3. next - 1 \in DOMAIN file.recs
  BY <1>2, RecordsAre DEF IInv
<1>4. Hand \in PcapRecord /\ Means(Hand)
  BY <1>2, <1>3, FilesAssumption DEF Hand
<1>5. Inspectable(pkt) /\ job.offset = HeaderEnd(pkt)
  BY <1>1, <1>2 DEF SentInv, Hand
<1>. QED
  BY <1>1, <1>2, <1>4, <1>5

\* An extractor looks at the bytes that follow the headers.
LEMMA PayloadIs ==
    ASSUME IInv, pc \in Extractors, Inspectable(pkt), job.offset = HeaderEnd(pkt)
    PROVE  /\ HeaderEnd(pkt) \in Nat /\ length \in Nat /\ Len(pkt) \in Nat
           /\ HeaderEnd(pkt) + length = Len(pkt)
           /\ \A i \in Nat : i < length =>
                  /\ At(i) = Field(pkt, HeaderEnd(pkt) + i)
                  /\ Field(pkt, HeaderEnd(pkt) + i) \in Bytes
           /\ \A i \in Nat : i + 1 < length =>
                  /\ U16At(i) = Field16(pkt, HeaderEnd(pkt) + i)
                  /\ Field16(pkt, HeaderEnd(pkt) + i) \in Nat
           /\ DstPort = To(pkt) /\ SrcPort = From(pkt)
<1>. DEFINE p == HeaderEnd(pkt)
<1>1. pkt \in Seq(Bytes) /\ Len(pkt) \in Nat /\ p + length = Len(pkt)
      /\ length \in Nat /\ p \in Nat
  <2>1. length \in Nat /\ job \in Job
    BY Payload
  <2>2. pkt \in Seq(Bytes) /\ Len(pkt) \in Nat /\ job.offset + length = Len(pkt)
    BY DEF IInv, TypeInv, JobInv
  <2>3. job.offset \in Nat
    BY <2>1 DEF Job
  <2>. QED
    BY <2>1, <2>2, <2>3
<1>2. \A i \in Nat : i < Len(pkt) => Byte(i) = Field(pkt, i) /\ Field(pkt, i) \in Bytes
  BY <1>1 DEF Byte, Field
<1>3. \A i \in Nat : i + 1 < Len(pkt) =>
          Uint16BE(i) = Field16(pkt, i) /\ Field16(pkt, i) \in Nat
  <2>. SUFFICES ASSUME NEW i \in Nat, i + 1 < Len(pkt)
                PROVE  Uint16BE(i) = Field16(pkt, i) /\ Field16(pkt, i) \in Nat
    OBVIOUS
  <2>1. i < Len(pkt) /\ i + 1 \in Nat
    BY <1>1
  <2>2. /\ Byte(i) = Field(pkt, i) /\ Byte(i + 1) = Field(pkt, i + 1)
    BY <1>2, <2>1
  <2>3. Uint16BE(i) \in Nat
    BY <1>1, BytesAre
  <2>. QED
    BY <2>2, <2>3 DEF Uint16BE, Field16
<1>. HIDE DEF p
<1>4. \A i \in Nat : i < length => At(i) = Field(pkt, p + i) /\ Field(pkt, p + i) \in Bytes
  BY <1>1, <1>2 DEF At, p
<1>5. \A i \in Nat : i + 1 < length =>
          U16At(i) = Field16(pkt, p + i) /\ Field16(pkt, p + i) \in Nat
  <2>. SUFFICES ASSUME NEW i \in Nat, i + 1 < length
                PROVE  U16At(i) = Field16(pkt, p + i) /\ Field16(pkt, p + i) \in Nat
    OBVIOUS
  <2>1. p + i \in Nat /\ (p + i) + 1 < Len(pkt)
    BY <1>1
  <2>2. Uint16BE(p + i) = Field16(pkt, p + i) /\ Field16(pkt, p + i) \in Nat
    BY <1>3, <2>1
  <2>3. U16At(i) = Uint16BE(p + i)
    BY DEF U16At, p
  <2>. QED
    BY <2>2, <2>3
<1>6. DstPort = To(pkt) /\ SrcPort = From(pkt)
  <2>1. Len(pkt) >= 34 /\ Byte(14) = Field(pkt, 14)
    BY <1>1, <1>2 DEF Inspectable
  <2>2. Transport = TransportAt(pkt) /\ Transport \in Nat
    BY <1>1, <2>1, TransportIs DEF Transport, TransportAt, LowNibble
  <2>3. Len(pkt) >= Transport + 8
    BY <1>1, <2>2 DEF Inspectable
  <2>4. /\ Transport \in Nat /\ Transport + 1 < Len(pkt)
        /\ Transport + 2 \in Nat /\ (Transport + 2) + 1 < Len(pkt)
    BY <1>1, <2>2, <2>3
  <2>. QED
    BY <1>3, <2>2, <2>4 DEF DstPort, SrcPort, To, From
<1>. QED
  BY <1>1, <1>4, <1>5, <1>6 DEF p

\* A search finds the first place.
LEMMA FirstIs ==
    ASSUME length \in Nat, NEW i \in Nat, NEW S, NEW j \in i .. length,
           j = length \/ At(j) \in S, \A k \in i .. j - 1 : At(k) \notin S
    PROVE  FirstIn(i, S) = j
<1>. DEFINE P(x) == /\ x = length \/ At(x) \in S
                    /\ \A k \in i .. x - 1 : At(k) \notin S
            x == CHOOSE x \in i .. length : P(x)
<1>1. j \in i .. length /\ P(j)
  OBVIOUS
<1>2. x \in i .. length /\ P(x)
  <2>. HIDE DEF P
  <2>. QED
    BY <1>1
<1>3. FirstIn(i, S) = x
  BY DEF FirstIn
<1>. HIDE DEF x
<1>4. ~(x < j)
  <2>. SUFFICES ASSUME x < j PROVE FALSE
    OBVIOUS
  <2>1. x \in i .. j - 1 /\ x # length
    BY <1>2
  <2>. QED
    BY <1>2, <2>1
<1>5. ~(j < x)
  <2>. SUFFICES ASSUME j < x PROVE FALSE
    OBVIOUS
  <2>1. j \in i .. x - 1 /\ j # length
    BY <1>2
  <2>. QED
    BY <1>2, <2>1
<1>. QED
  BY <1>2, <1>3, <1>4, <1>5

\* A name that is found becomes the one of the last job.
LEMMA FoundIs ==
    ASSUME jobs \in Seq(Job), Len(jobs) \in DOMAIN jobs, jobs' \in Seq(Job),
           NEW found, Found(found)
    PROVE  /\ Len(jobs') = Len(jobs)
           /\ job'.name = found /\ job'.rec = job.rec
           /\ \A j \in DOMAIN jobs : j < Len(jobs) => jobs'[j] = jobs[j]
<1>1. jobs' = [jobs EXCEPT ![Len(jobs)].name = found]
  BY DEF Found
<1>2. DOMAIN jobs' = DOMAIN jobs
  BY <1>1
<1>3. Len(jobs') = Len(jobs)
  BY <1>2
<1>4. jobs[Len(jobs)] \in Job
  BY ElementOfSeq
<1>5. jobs'[Len(jobs)] = [jobs[Len(jobs)] EXCEPT !.name = found]
  BY <1>1
<1>6. jobs'[Len(jobs)].name = found /\ jobs'[Len(jobs)].rec = jobs[Len(jobs)].rec
  BY <1>4, <1>5 DEF Job
<1>7. \A j \in DOMAIN jobs : j < Len(jobs) => jobs'[j] = jobs[j]
  BY <1>1
<1>8. job' = jobs'[Len(jobs)] /\ job = jobs[Len(jobs)]
  BY <1>3 DEF job, Last
<1>. QED
  BY <1>3, <1>6, <1>7, <1>8

\* The whole name is right, and so is none of it if the packet is short.
LEMMA WholeOk ==
    ASSUME NEW r \in PcapRecord PROVE NameOk(r, r.name)
<1>1. r.name \in Seq(Nat \X Nat)
  BY DEF PcapRecord
<1>2. Len(r.name) \in Nat /\ \A i \in DOMAIN r.name : r.name[i][2] \in Nat
  BY <1>1
<1>. QED
  BY <1>2 DEF NameOk, Begins

\* Finding nothing is a beginning, and right if that is all there is to find.
LEMMA EmptyBegins ==
    ASSUME NEW r \in PcapRecord PROVE Begins(<<>>, r.name)
<1>1. r.name \in Seq(Nat \X Nat) /\ Len(r.name) \in Nat
  BY DEF PcapRecord
<1>2. Len(<<>>) = 0 /\ DOMAIN <<>> = {}
  OBVIOUS
<1>. QED
  BY <1>1, <1>2 DEF Begins

\* Nothing found is right where nothing need be found.
LEMMA NoneOk ==
    ASSUME NEW r \in PcapRecord,
           Understood(r.kind) /\ Len(r.bytes) >= r.whole => r.name = <<>>
    PROVE  NameOk(r, <<>>)
  BY EmptyBegins DEF NameOk

\* The lengths of a hello lead from one field to the next, and to the name.
LEMMA HelloLeads ==
    ASSUME IInv, ReadInv, SentInv, pc \in Extractors, job.rec = next - 1,
           Hand.kind = "tls", Leads, Extract
    PROVE  \/ pc' \in Extractors /\ Leads'
           \/ pc' = "read" /\ NameOk(Hand, job.name)'
<1>. DEFINE p == HeaderEnd(pkt)
            path == Hand.path
            last == Len(path)
            c == path[last]
            n == Hand.name[1][2]
            F(i) == Field(pkt, i)
            FF(i) == Field16(pkt, i)
<1>1. /\ Hand \in PcapRecord /\ pkt = Hand.bytes /\ Inspectable(pkt)
      /\ job.offset = p /\ jobs \in Seq(Job) /\ Len(jobs) \in DOMAIN jobs
      /\ job = jobs[Len(jobs)] /\ ServerNameIn(Hand)
  BY HandIs DEF Means
<1>2. /\ p \in Nat /\ length \in Nat /\ Len(pkt) \in Nat /\ p + length = Len(pkt)
      /\ \A i \in Nat : i < length => At(i) = F(p + i) /\ F(p + i) \in 0 .. 255
      /\ \A i \in Nat : i + 1 < length => U16At(i) = FF(p + i) /\ FF(p + i) \in Nat
      /\ DstPort = To(pkt) /\ SrcPort = From(pkt)
  BY <1>1, PayloadIs DEF Bytes
<1>3. /\ path \in Seq(Nat) /\ last \in Nat /\ Hand.whole \in Nat
      /\ \A i \in 1 .. last : path[i] \in Nat
      /\ cur \in Nat /\ end \in Nat /\ DOMAIN path = 1 .. last
  <2>1. path \in Seq(Nat) /\ Hand.whole \in Nat
    BY <1>1 DEF PcapRecord
  <2>. QED
    BY <2>1 DEF IInv, TypeInv
<1>4. /\ To(pkt) = 443 /\ From(pkt) # 53
      /\ last >= 5 /\ path[1] = p + 43 /\ path[5] = path[4] + 2
  BY <1>1 DEF ServerNameIn
<1>5. \A i \in DOMAIN path : path[i] <= c
  BY <1>1 DEF ServerNameIn
<1>6. /\ path[1] + 1 <= Len(pkt) => path[2] = path[1] + 1 + F(path[1])
      /\ path[2] + 2 <= Len(pkt) => path[3] = path[2] + 2 + FF(path[2])
      /\ path[3] + 1 <= Len(pkt) => path[4] = path[3] + 1 + F(path[3])
  BY <1>1 DEF ServerNameIn
<1>7. \A i \in 5 .. last - 1 : path[i] + 4 <= Len(pkt) =>
          FF(path[i]) # 0 /\ path[i + 1] = path[i] + 4 + FF(path[i] + 2)
  BY <1>1 DEF ServerNameIn
<1>8. /\ Hand.name = << <<c + 9, n>> >>
      /\ c + 4 <= Len(pkt) => FF(c) = 0
      /\ c + 9 <= Len(pkt) => FF(c + 7) = n
  BY <1>1 DEF ServerNameIn
<1>9. ~Short => /\ ServerNameAt(pkt, c)
                /\ path[5] + FF(path[4]) >= c + 4 + FF(c + 2)
                /\ F(p) = 22 /\ F(p + 5) = 1
                /\ FF(p + 1) \in 768 .. 772 /\ p + 5 + FF(p + 3) <= Len(pkt)
  <2>1. ~Short => Len(pkt) >= Hand.whole
    BY <1>1, <1>2, <1>3 DEF Short
  <2>. QED
    BY <1>1, <2>1 DEF ServerNameIn
<1>10. /\ job.name = <<>> /\ pc # "label"
       /\ pc = "session" => p + cur = path[1]
       /\ pc = "ciphers" => p + cur = path[2]
       /\ pc = "compression" => p + cur = path[3]
       /\ pc = "extensions" => p + cur = path[4]
       /\ pc = "extension" =>
              /\ \E i \in 5 .. last : p + cur = path[i]
              /\ Short \/ p + end >= c + 4 + FF(c + 2)
       /\ pc \in {"host", "query"} => Short
  BY <1>1 DEF Leads, Place
<1>11. UNCHANGED <<file, engine, next, pkt>> /\ Hand' = Hand /\ Short' = Short
  BY ExtractKeeps DEF Hand, Short
<1>12. ASSUME UNCHANGED jobs, pc' # "label",
              pc' = "session" => p + cur' = path[1],
              pc' = "ciphers" => p + cur' = path[2],
              pc' = "compression" => p + cur' = path[3],
              pc' = "extensions" => p + cur' = path[4],
              pc' = "extension" => \E i \in 5 .. last : p + cur' = path[i],
              pc' = "extension" => Short \/ p + end' >= c + 4 + FF(c + 2),
              pc' \in {"host", "query"} => Short
       PROVE  Leads'
  <2>1. job' = job /\ Place' = p + cur'
    BY <1>1, <1>11, <1>12 DEF job, Place
  <2>. QED
    BY <1>1, <1>10, <1>11, <1>12, <2>1 DEF Leads
<1>13. ASSUME NotFound("host"), Short PROVE pc' \in Extractors /\ Leads'
  BY <1>12, <1>13 DEF NotFound, Goto, Extractors
<1>14. c \in Nat /\ (~Short => c + 9 <= Len(pkt) /\ \A i \in 1 .. last : path[i] + 9 <= Len(pkt))
  <2>1. last \in 1 .. last
    BY <1>3, <1>4
  <2>2. \A i \in 1 .. last : path[i] \in Nat /\ path[i] <= c
    BY <1>3, <1>5
  <2>3. c \in Nat /\ (~Short => c + 9 <= Len(pkt))
    BY <1>9, <2>1, <2>2 DEF ServerNameAt
  <2>. HIDE DEF c, path, last
  <2>. QED
    BY <1>2, <2>2, <2>3
<1>15. /\ path[1] \in Nat /\ path[2] \in Nat /\ path[3] \in Nat /\ path[4] \in Nat
       /\ ~Short => path[1] + 9 <= Len(pkt) /\ path[2] + 9 <= Len(pkt)
                    /\ path[3] + 9 <= Len(pkt) /\ path[4] + 9 <= Len(pkt)
  <2>. HIDE DEF path, last
  <2>1. 1 \in 1 .. last /\ 2 \in 1 .. last /\ 3 \in 1 .. last /\ 4 \in 1 .. last
    BY <1>3, <1>4
  <2>. QED
    BY <1>3, <1>14, <2>1
<1>. HIDE DEF c, path, last, n, F, FF, p
<1>16. ~Short => /\ FF(c + 2) \in Nat /\ FF(c + 2) >= 5
                 /\ c + 4 + FF(c + 2) <= Len(pkt)
  <2>. SUFFICES ASSUME ~Short
                PROVE  FF(c + 2) \in Nat /\ FF(c + 2) >= 5
                       /\ c + 4 + FF(c + 2) <= Len(pkt)
    OBVIOUS
  <2>1. FF(c + 2) >= 5 /\ c + 4 + FF(c + 2) <= Len(pkt)
    BY <1>9 DEF ServerNameAt, FF
  <2>2. path[1] <= c
    BY <1>3, <1>4, <1>5
  <2>3. /\ (c + 2) - p \in Nat /\ p + ((c + 2) - p) = c + 2
        /\ ((c + 2) - p) + 1 < length
    BY <1>2, <1>4, <1>14, <2>2
  <2>4. FF(c + 2) \in Nat
    BY <1>2, <2>3
  <2>. QED
    BY <2>1, <2>4
<1>17. CASE Hello
  <2>1. \/ TriesHello /\ IsTLSClientHello /\ cur' = 43 /\ pc' = "session"
           /\ UNCHANGED jobs
        \/ ~(TriesHello /\ IsTLSClientHello) /\ NotFound("host")
    BY <1>17 DEF Hello, Goto
  <2>2. CASE cur' = 43 /\ pc' = "session" /\ UNCHANGED jobs
    BY <1>4, <1>12, <2>2 DEF Extractors
  <2>3. CASE ~(TriesHello /\ IsTLSClientHello) /\ NotFound("host")
    <3>1. ASSUME ~Short PROVE TriesHello /\ IsTLSClientHello
      <4>1. length >= 52
        BY <1>2, <1>4, <1>15, <3>1
      <4>2. TriesHello
        BY <1>2, <1>4, <4>1, FilesAssumption DEF TriesHello, IInv, TypeInv
      <4>3. /\ At(0) = F(p + 0) /\ At(5) = F(p + 5) /\ U16At(1) = FF(p + 1)
            /\ U16At(3) = FF(p + 3) /\ FF(p + 3) \in Nat
        <5>1. /\ 0 \in Nat /\ 0 < length /\ 5 \in Nat /\ 5 < length
              /\ 1 \in Nat /\ 1 + 1 < length /\ 3 \in Nat /\ 3 + 1 < length
          BY <1>2, <4>1
        <5>. QED
          BY <1>2, <5>1
      <4>4. p + 0 = p
        BY <1>2
      <4>5. U16At(3) <= length - 5
        BY <1>2, <1>9, <3>1, <4>3
      <4>. QED
        BY <1>2, <1>9, <3>1, <4>1, <4>2, <4>3, <4>4, <4>5 DEF IsTLSClientHello
    <3>. QED
      BY <1>13, <2>3, <3>1
  <2>. QED
    BY <2>1, <2>2, <2>3
<1>18. CASE SessionID
  <2>1. pc = "session" /\ p + cur = path[1]
    BY <1>10, <1>18 DEF SessionID, SkipField
  <2>2. \/ cur + 1 > length /\ NotFound("host")
        \/ /\ ~(cur + 1 > length) /\ cur' = cur + 1 + At(cur)
           /\ pc' = "ciphers" /\ UNCHANGED jobs
    BY <1>18 DEF SessionID, SkipField, Goto
  <2>3. CASE cur + 1 > length /\ NotFound("host")
    <3>1. Short
      BY <1>2, <1>3, <1>15, <2>1, <2>3
    <3>. QED
      BY <1>13, <2>3, <3>1
  <2>4. CASE /\ ~(cur + 1 > length) /\ cur' = cur + 1 + At(cur)
             /\ pc' = "ciphers" /\ UNCHANGED jobs
    <3>1. cur < length /\ path[1] + 1 <= Len(pkt)
      BY <1>2, <1>3, <2>1, <2>4
    <3>2. At(cur) = F(path[1]) /\ F(path[1]) \in Nat
      <4>1. At(cur) = F(p + cur) /\ F(p + cur) \in 0 .. 255
        BY <1>2, <1>3, <3>1
      <4>. QED
        BY <2>1, <4>1
    <3>3. p + cur' = path[2]
      BY <1>2, <1>3, <1>6, <2>1, <2>4, <3>1, <3>2
    <3>. QED
      BY <1>12, <2>4, <3>3 DEF Extractors
  <2>. QED
    BY <2>2, <2>3, <2>4
<1>19. CASE CipherSuites
  <2>1. pc = "ciphers" /\ p + cur = path[2]
    BY <1>10, <1>19 DEF CipherSuites, SkipField
  <2>2. \/ cur + 2 > length /\ NotFound("host")
        \/ /\ ~(cur + 2 > length) /\ cur' = cur + 2 + U16At(cur)
           /\ pc' = "compression" /\ UNCHANGED jobs
    BY <1>19 DEF CipherSuites, SkipField, Goto
  <2>3. CASE cur + 2 > length /\ NotFound("host")
    <3>1. Short
      BY <1>2, <1>3, <1>15, <2>1, <2>3
    <3>. QED
      BY <1>13, <2>3, <3>1
  <2>4. CASE /\ ~(cur + 2 > length) /\ cur' = cur + 2 + U16At(cur)
             /\ pc' = "compression" /\ UNCHANGED jobs
    <3>1. cur + 1 < length /\ path[2] + 2 <= Len(pkt)
      BY <1>2, <1>3, <2>1, <2>4
    <3>2. U16At(cur) = FF(path[2]) /\ FF(path[2]) \in Nat
      BY <1>2, <1>3, <2>1, <3>1
    <3>3. p + cur' = path[3]
      BY <1>2, <1>3, <1>6, <2>1, <2>4, <3>1, <3>2
    <3>. QED
      BY <1>12, <2>4, <3>3 DEF Extractors
  <2>. QED
    BY <2>2, <2>3, <2>4
<1>20. CASE CompressionMethods
  <2>1. pc = "compression" /\ p + cur = path[3]
    BY <1>10, <1>20 DEF CompressionMethods, SkipField
  <2>2. \/ cur + 1 > length /\ NotFound("host")
        \/ /\ ~(cur + 1 > length) /\ cur' = cur + 1 + At(cur)
           /\ pc' = "extensions" /\ UNCHANGED jobs
    BY <1>20 DEF CompressionMethods, SkipField, Goto
  <2>3. CASE cur + 1 > length /\ NotFound("host")
    <3>1. Short
      BY <1>2, <1>3, <1>15, <2>1, <2>3
    <3>. QED
      BY <1>13, <2>3, <3>1
  <2>4. CASE /\ ~(cur + 1 > length) /\ cur' = cur + 1 + At(cur)
             /\ pc' = "extensions" /\ UNCHANGED jobs
    <3>1. cur < length /\ path[3] + 1 <= Len(pkt)
      BY <1>2, <1>3, <2>1, <2>4
    <3>2. At(cur) = F(path[3]) /\ F(path[3]) \in Nat
      <4>1. At(cur) = F(p + cur) /\ F(p + cur) \in 0 .. 255
        BY <1>2, <1>3, <3>1
      <4>. QED
        BY <2>1, <4>1
    <3>3. p + cur' = path[4]
      BY <1>2, <1>3, <1>6, <2>1, <2>4, <3>1, <3>2
    <3>. QED
      BY <1>12, <2>4, <3>3 DEF Extractors
  <2>. QED
    BY <2>2, <2>3, <2>4
<1>21. CASE Extensions
  <2>1. pc = "extensions" /\ p + cur = path[4]
    BY <1>10, <1>21 DEF Extensions
  <2>2. \/ cur + 2 > length /\ NotFound("host")
        \/ /\ ~(cur + 2 > length) /\ cur' = cur + 2 /\ UNCHANGED jobs
           /\ end' = IF cur + 2 + U16At(cur) > length THEN length
                     ELSE cur + 2 + U16At(cur)
           /\ pc' = "extension"
    BY <1>21 DEF Extensions, Goto
  <2>3. CASE cur + 2 > length /\ NotFound("host")
    <3>1. Short
      BY <1>2, <1>3, <1>15, <2>1, <2>3
    <3>. QED
      BY <1>13, <2>3, <3>1
  <2>4. CASE /\ ~(cur + 2 > length) /\ cur' = cur + 2 /\ UNCHANGED jobs
             /\ end' = IF cur + 2 + U16At(cur) > length THEN length
                       ELSE cur + 2 + U16At(cur)
             /\ pc' = "extension"
    <3>1. cur + 1 < length
      BY <1>2, <1>3, <2>4
    <3>2. U16At(cur) = FF(path[4]) /\ FF(path[4]) \in Nat
      <4>1. U16At(cur) = FF(p + cur) /\ FF(p + cur) \in Nat
        BY <1>2, <1>3, <3>1
      <4>. QED
        BY <2>1, <4>1
    <3>3. 5 \in 5 .. last /\ p + cur' = path[5]
      BY <1>2, <1>3, <1>4, <2>1, <2>4
    <3>4. ASSUME ~Short PROVE p + end' >= c + 4 + FF(c + 2)
      <4>1. c + 4 + FF(c + 2) <= Len(pkt) /\ FF(c + 2) \in Nat
        BY <1>16, <3>4
      <4>2. /\ path[5] + FF(path[4]) >= c + 4 + FF(c + 2)
            /\ path[5] = p + (cur + 2)
        BY <1>2, <1>3, <1>4, <1>9, <2>1, <3>4
      <4>3. CASE cur + 2 + U16At(cur) > length
        <5>1. end' = length /\ p + length = Len(pkt)
          BY <1>2, <2>4, <4>3
        <5>. QED
          BY <4>1, <5>1
      <4>4. CASE ~(cur + 2 + U16At(cur) > length)
        <5>1. end' = cur + 2 + FF(path[4])
          BY <2>4, <3>2, <4>4
        <5>2. p + end' = path[5] + FF(path[4])
          BY <1>2, <1>3, <3>2, <4>2, <5>1
        <5>. QED
          BY <4>2, <5>2
      <4>. QED
        BY <4>3, <4>4
    <3>. QED
      BY <1>12, <2>4, <3>3, <3>4 DEF Extractors
  <2>. QED
    BY <2>2, <2>3, <2>4
<1>22. CASE Extension
  <2>. DEFINE e == cur + 4
              extLen == U16At(cur + 2)
              sniLen == U16At(e + 3)
  <2>1. pc = "extension" /\ (Short \/ p + end >= c + 4 + FF(c + 2)) /\ end <= length
    BY <1>10, <1>22 DEF Extension, IInv, EndInv
  <2>2. PICK i \in 5 .. last : p + cur = path[i]
    BY <1>10, <2>1
  <2>3. i \in 1 .. last /\ i \in Nat /\ (i = last \/ i \in 5 .. last - 1)
    BY <1>3, <2>2
  <2>4. path[i] \in Nat /\ path[i] <= c
    BY <1>3, <1>5, <2>3
  <2>5. i = last => path[i] = c
    BY DEF c
  <2>6. e <= end => /\ U16At(cur) = FF(path[i]) /\ FF(path[i]) \in Nat
                    /\ extLen = FF(path[i] + 2) /\ extLen \in Nat
                    /\ path[i] + 4 <= Len(pkt)
    <3>. SUFFICES ASSUME e <= end
                  PROVE  /\ U16At(cur) = FF(path[i]) /\ FF(path[i]) \in Nat
                         /\ extLen = FF(path[i] + 2) /\ extLen \in Nat
                         /\ path[i] + 4 <= Len(pkt)
      OBVIOUS
    <3>1. /\ cur + 1 < length /\ cur + 2 \in Nat /\ (cur + 2) + 1 < length
          /\ p + (cur + 2) = path[i] + 2 /\ path[i] + 4 <= Len(pkt)
      BY <1>2, <1>3, <2>1, <2>2
    <3>2. /\ U16At(cur) = FF(p + cur) /\ FF(p + cur) \in Nat
          /\ U16At(cur + 2) = FF(p + (cur + 2)) /\ FF(p + (cur + 2)) \in Nat
      BY <1>2, <1>3, <3>1
    <3>. QED
      BY <2>2, <3>1, <3>2
  <2>7. i \in 5 .. last - 1 /\ e <= end =>
            U16At(cur) # 0 /\ path[i + 1] = path[i] + 4 + extLen
            /\ i + 1 \in 5 .. last /\ path[i + 1] <= c
    <3>1. i \in 5 .. last - 1 => i + 1 \in 5 .. last /\ i + 1 \in 1 .. last
      BY <1>3
    <3>. QED
      BY <1>3, <1>5, <1>7, <2>6, <3>1
  <2>8. i = last /\ e <= end => U16At(cur) = 0
    BY <1>8, <2>5, <2>6
  <2>9. ~Short => /\ e <= end /\ e + extLen <= end
                  /\ U16At(cur) = 0 => extLen >= 5
    <3>. SUFFICES ASSUME ~Short
                  PROVE  /\ e <= end /\ e + extLen <= end
                         /\ U16At(cur) = 0 => extLen >= 5
      OBVIOUS
    <3>1. /\ p + end >= c + 4 + FF(c + 2)
          /\ FF(c + 2) \in Nat /\ FF(c + 2) >= 5
      BY <1>16, <2>1
    <3>2. e <= end
      BY <1>2, <1>3, <1>14, <2>2, <2>4, <3>1
    <3>3. CASE i = last
      <4>1. extLen = FF(c + 2)
        BY <2>5, <2>6, <3>2, <3>3
      <4>. QED
        BY <1>2, <1>3, <1>14, <2>2, <2>5, <3>1, <3>2, <3>3, <4>1
    <3>4. CASE i \in 5 .. last - 1
      <4>1. U16At(cur) # 0 /\ path[i] + 4 + extLen <= c /\ extLen \in Nat
        BY <2>6, <2>7, <3>2, <3>4
      <4>2. p + (e + extLen) <= c
        BY <1>2, <1>3, <2>2, <4>1
      <4>3. c <= p + end
        BY <1>2, <1>3, <1>14, <3>1
      <4>4. p \in Nat /\ end \in Nat /\ c \in Nat
        BY <1>2, <1>3, <1>14
      <4>5. e + extLen \in Nat
        BY <1>3, <4>1
      <4> HIDE DEF e, extLen
      <4>6. e + extLen <= end
        BY <4>2, <4>3, <4>4, <4>5
      <4>. QED
        BY <3>2, <4>1, <4>6
    <3>. QED
      BY <2>3, <3>3, <3>4
  <2>10. \/ NotFound("host") /\ ~(e <= end /\ e + extLen <= end)
         \/ /\ e <= end /\ U16At(cur) # 0 /\ cur' = e + extLen
            /\ UNCHANGED <<pc, end, jobs>>
         \/ /\ e <= end /\ e + extLen <= end /\ U16At(cur) = 0 /\ NotFound("host")
            /\ (extLen < 5 \/ U16At(e) < 3 \/ At(e + 2) # 0 \/ sniLen > extLen - 5)
         \/ /\ e <= end /\ e + extLen <= end /\ U16At(cur) = 0 /\ ~(extLen < 5)
            /\ Found(<<Span(e + 5, sniLen)>>) /\ pc' = "read"
    <3>1. cur \in Nat /\ end \in Nat /\ (e <= end => extLen \in Nat)
      BY <1>3, <2>6
    <3>2. (e > end \/ e <= end) /\ ~(e > end /\ e <= end)
      BY <3>1
    <3>3. e <= end => (e + extLen > end \/ e + extLen <= end)
                      /\ ~(e + extLen > end /\ e + extLen <= end)
      BY <3>1
    <3>. QED
      BY <1>22, <3>2, <3>3 DEF Extension, Goto
  <2>11. CASE NotFound("host") /\ ~(e <= end /\ e + extLen <= end)
    BY <1>13, <2>9, <2>11
  <2>12. CASE /\ e <= end /\ U16At(cur) # 0 /\ cur' = e + extLen
              /\ UNCHANGED <<pc, end, jobs>>
    <3>1. i \in 5 .. last - 1
      BY <2>3, <2>8, <2>12
    <3>2. path[i + 1] = path[i] + 4 + extLen /\ i + 1 \in 5 .. last /\ extLen \in Nat
      BY <2>6, <2>7, <2>12, <3>1
    <3>3. p + cur' = path[i + 1]
      BY <1>2, <1>3, <2>2, <2>12, <3>2
    <3>4. pc' = "extension" /\ UNCHANGED <<end, jobs>>
      BY <2>1, <2>12
    <3>5. \E k \in 5 .. last : p + cur' = path[k]
      BY <3>2, <3>3
    <3>6. Leads'
      BY <1>12, <2>1, <3>4, <3>5
    <3>. QED
      BY <3>4, <3>6 DEF Extractors
  <2>13. CASE /\ e <= end /\ e + extLen <= end /\ U16At(cur) = 0 /\ NotFound("host")
              /\ (extLen < 5 \/ U16At(e) < 3 \/ At(e + 2) # 0 \/ sniLen > extLen - 5)
    <3>1. ASSUME ~Short PROVE FALSE
      <4>1. i = last /\ extLen >= 5 /\ extLen \in Nat /\ extLen = FF(c + 2) /\ p + cur = c
        BY <2>2, <2>3, <2>5, <2>6, <2>7, <2>9, <2>13, <3>1
      <4>2. FF(c + 4) >= 3 /\ F(c + 6) = 0 /\ FF(c + 7) <= FF(c + 2) - 5
        BY <1>9, <3>1 DEF ServerNameAt, F, FF
      <4>3. /\ e \in Nat /\ e + 1 < length /\ e + 2 \in Nat /\ e + 2 < length
            /\ e + 3 \in Nat /\ (e + 3) + 1 < length
        BY <1>2, <1>3, <2>1, <2>13, <4>1
      <4>4. /\ U16At(e) = FF(p + e) /\ At(e + 2) = F(p + (e + 2))
            /\ U16At(e + 3) = FF(p + (e + 3))
            /\ FF(p + e) \in Nat /\ FF(p + (e + 3)) \in Nat
        BY <1>2, <4>3
      <4>5. p + e = c + 4 /\ p + (e + 2) = c + 6 /\ p + (e + 3) = c + 7
        BY <1>2, <1>3, <1>14, <4>1
      <4>6. /\ U16At(e) = FF(c + 4) /\ At(e + 2) = 0 /\ sniLen = FF(c + 7)
            /\ FF(c + 4) \in Nat /\ FF(c + 7) \in Nat
        BY <4>2, <4>4, <4>5
      <4>7. sniLen <= extLen - 5 /\ U16At(e) >= 3
        BY <4>1, <4>2, <4>6
      <4>. QED
        BY <2>13, <4>1, <4>6, <4>7
    <3>. QED
      BY <1>13, <2>13, <3>1
  <2>14. CASE /\ e <= end /\ e + extLen <= end /\ U16At(cur) = 0 /\ ~(extLen < 5)
              /\ Found(<<Span(e + 5, sniLen)>>) /\ pc' = "read"
    <3>1. i = last /\ extLen >= 5 /\ extLen \in Nat /\ p + cur = c
      BY <2>2, <2>3, <2>5, <2>6, <2>7, <2>14
    <3>2. /\ e + 3 \in Nat /\ (e + 3) + 1 < length /\ c + 9 <= Len(pkt)
          /\ p + (e + 3) = c + 7 /\ p + (e + 5) = c + 9
      BY <1>2, <1>3, <1>14, <2>1, <2>14, <3>1
    <3>3. sniLen = n
      <4>1. sniLen = FF(p + (e + 3))
        BY <1>2, <3>2
      <4>. QED
        BY <1>8, <3>2, <4>1
    <3>4. <<Span(e + 5, sniLen)>> = Hand.name
      BY <1>1, <1>8, <3>2, <3>3 DEF Span
    <3>5. jobs' \in Seq(Job)
      BY IInvNext DEF Next, IInv, TypeInv
    <3>6. job'.name = Hand.name
      BY <1>1, <2>14, <3>4, <3>5, FoundIs
    <3>7. NameOk(Hand, Hand.name) /\ engine' = engine
      BY <1>1, <1>11, WholeOk
    <3>8. NameOk(Hand, job.name)'
      BY <1>11, <3>6, <3>7 DEF NameOk, Understood
    <3>. QED
      BY <2>14, <3>8
  <2>. QED
    BY <2>10, <2>11, <2>12, <2>13, <2>14
<1>23. CASE Host
  <2>1. Short /\ ~TriesHost
    BY <1>2, <1>4, <1>10, <1>23 DEF Host, TriesHost
  <2>2. NotFound("query")
    BY <1>23, <2>1 DEF Host
  <2>3. pc' = "query" /\ UNCHANGED jobs
    BY <2>2 DEF NotFound, Goto
  <2>. QED
    BY <1>12, <2>1, <2>3 DEF Extractors
<1>24. CASE Query
  <2>1. Short /\ ~TriesQuery
    BY <1>2, <1>4, <1>10, <1>24 DEF Query, TriesQuery
  <2>2. pc' = "read" /\ UNCHANGED jobs
    BY <1>24, <2>1 DEF Query, NotFound, Goto
  <2>3. job' = job /\ job.name = <<>>
    BY <1>10, <2>2 DEF job
  <2>4. NameOk(Hand, <<>>)
    BY <1>1, <1>2, <1>3, <2>1, NoneOk DEF Short
  <2>5. NameOk(Hand, job.name)'
    BY <1>11, <2>3, <2>4 DEF NameOk, Understood
  <2>. QED
    BY <2>2, <2>5
<1>25. CASE Label
  BY <1>10, <1>25 DEF Label
<1>. QED
  BY <1>17, <1>18, <1>19, <1>20, <1>21, <1>22, <1>23, <1>24, <1>25 DEF Extract

\* What a request says, told from where its payload begins: the first header
\* for the host, the place of the name and its length.
Request(h, s, n) ==
    /\ h >= 4 /\ s >= h + 5 /\ n > 0
    /\ Hand.name = << <<job.offset + s, n>> >>
    /\ \A i \in Nat : HeaderAt(i) => h <= i
    /\ h + 6 < length => HeaderAt(h)
    /\ \A i \in h + 5 .. s - 1 : i < length => At(i) \in {32, 9}
    /\ s < length => At(s) \in Bytes \ {32, 9}
    /\ \A i \in s .. s + n - 1 : i < length => At(i) \notin {13, 10, 58}
    /\ s + n < length => At(s + n) \in {13, 10, 58}
    /\ Short \/ s + n < length
    /\ length >= 4 => IsHTTPRequest /\ At(0) # 22
    /\ DstPort = 80 /\ SrcPort # 53

\* How a request begins.
LEMMA MethodsBegin ==
    ASSUME NEW m \in Methods PROVE m[1] \in {71, 80, 72, 68, 79}
BY DEF Methods

\* The loop looks for the header where it is.
LEMMA HeaderIs ==
    ASSUME IInv, pc \in Extractors, Inspectable(pkt), job.offset = HeaderEnd(pkt),
           NEW i \in Nat, i + 6 < length
    PROVE  HeaderAt(i) <=> HostAt(pkt, HeaderEnd(pkt) + i)
<1>. DEFINE p == HeaderEnd(pkt)
            F(k) == Field(pkt, k)
<1>1. /\ p \in Nat /\ length \in Nat /\ Len(pkt) \in Nat /\ p + length = Len(pkt)
      /\ \A k \in Nat : k < length => At(k) = F(p + k)
  BY PayloadIs
<1>. HIDE DEF p, F
<1>2. /\ i < length /\ i + 1 \in Nat /\ i + 1 < length /\ i + 2 \in Nat /\ i + 2 < length
      /\ i + 3 \in Nat /\ i + 3 < length /\ i + 4 \in Nat /\ i + 4 < length
  BY <1>1
<1>3. /\ At(i) = F(p + i) /\ At(i + 1) = F(p + (i + 1)) /\ At(i + 2) = F(p + (i + 2))
      /\ At(i + 3) = F(p + (i + 3)) /\ At(i + 4) = F(p + (i + 4))
  BY <1>1, <1>2
<1>4. /\ p + (i + 1) = (p + i) + 1 /\ p + (i + 2) = (p + i) + 2
      /\ p + (i + 3) = (p + i) + 3 /\ p + (i + 4) = (p + i) + 4
      /\ (p + i) + 5 <= Len(pkt)
  BY <1>1
<1>5. HeaderAt(i) <=> HostAt(pkt, p + i)
  BY <1>3, <1>4 DEF HeaderAt, HostAt, F
<1>. QED
  BY <1>5 DEF p

\* Its bytes say so.
LEMMA RequestIs ==
    ASSUME IInv, ReadInv, SentInv, pc \in Extractors, job.rec = next - 1,
           Hand.kind = "http", HostFirst(Hand)
    PROVE  \E h, s, n \in Nat : Request(h, s, n)
<1>. DEFINE p == HeaderEnd(pkt)
            H == Hand.path[1]
            S == Hand.name[1][1]
            n == Hand.name[1][2]
            F(i) == Field(pkt, i)
            four == [i \in 1 .. 4 |-> F(p + i - 1)]
<1>1. /\ Hand \in PcapRecord /\ pkt = Hand.bytes /\ Inspectable(pkt)
      /\ job.offset = p /\ HostIn(Hand)
  BY HandIs DEF Means
<1>2. /\ p \in Nat /\ length \in Nat /\ Len(pkt) \in Nat /\ p + length = Len(pkt)
      /\ \A i \in Nat : i < length => At(i) = F(p + i) /\ F(p + i) \in Bytes
      /\ DstPort = To(pkt) /\ SrcPort = From(pkt)
  BY <1>1, PayloadIs
<1>3. /\ To(pkt) = 80 /\ From(pkt) # 53
      /\ Len(pkt) >= p + 4 => four \in Methods
      /\ Len(Hand.path) = 1 /\ H >= p + 4
      /\ Hand.name = << <<S, n>> >> /\ S >= H + 5 /\ n > 0
      /\ Hand.whole > S + n
  BY <1>1 DEF HostIn
<1>4. /\ \A i \in p .. H - 1 : ~HostAt(pkt, i)
      /\ H + 5 <= Len(pkt) => HostAt(pkt, H)
  BY <1>1 DEF HostIn, HostFirst
<1>5. /\ \A i \in {i \in H + 5 .. S - 1 : i < Len(pkt)} : F(i) \in {32, 9}
      /\ S < Len(pkt) => F(S) \notin {32, 9}
      /\ \A i \in {i \in S .. S + n - 1 : i < Len(pkt)} : F(i) \notin {13, 10, 58}
      /\ S + n < Len(pkt) => F(S + n) \in {13, 10, 58}
  BY <1>1 DEF HostIn
<1>6. H \in Nat /\ S \in Nat /\ n \in Nat /\ Hand.whole \in Nat
  <2>1. Hand.path \in Seq(Nat) /\ Hand.name \in Seq(Nat \X Nat) /\ Hand.whole \in Nat
    BY <1>1 DEF PcapRecord
  <2>2. Len(Hand.name) = 1
    BY <1>3
  <2>3. Hand.path[1] \in Nat /\ Hand.name[1] \in Nat \X Nat
    BY <1>3, <2>1, <2>2
  <2>. QED
    BY <2>1, <2>3
<1>. HIDE DEF H, S, n, p, F, four
<1>. DEFINE h == H - p
            s == S - p
<1>7. h \in Nat /\ s \in Nat /\ h >= 4 /\ s >= h + 5 /\ n > 0 /\ p + h = H /\ p + s = S
  BY <1>2, <1>3, <1>6
<1>8. Hand.name = << <<job.offset + s, n>> >>
  BY <1>1, <1>3, <1>7
<1>. HIDE DEF h, s
<1>9. \A i \in Nat : i + 6 < length => (HeaderAt(i) <=> HostAt(pkt, p + i))
  BY <1>1, HeaderIs DEF p
<1>10. \A i \in Nat : HeaderAt(i) => h <= i
  <2>. SUFFICES ASSUME NEW i \in Nat, HeaderAt(i), i < h PROVE FALSE
    BY <1>7
  <2>1. HostAt(pkt, p + i)
    BY <1>9 DEF HeaderAt
  <2>2. p + i \in p .. H - 1
    BY <1>2, <1>6, <1>7
  <2>. QED
    BY <1>4, <2>1, <2>2
<1>11. h + 6 < length => HeaderAt(h)
  <2>. SUFFICES ASSUME h + 6 < length PROVE HeaderAt(h)
    OBVIOUS
  <2>1. H + 5 <= Len(pkt)
    BY <1>2, <1>6, <1>7
  <2>. QED
    BY <1>4, <1>7, <1>9, <2>1
<1>12. \A i \in h + 5 .. s - 1 : i < length => At(i) \in {32, 9}
  <2>. SUFFICES ASSUME NEW i \in h + 5 .. s - 1, i < length PROVE At(i) \in {32, 9}
    OBVIOUS
  <2>1. i \in Nat /\ p + i \in H + 5 .. S - 1 /\ p + i < Len(pkt)
    BY <1>2, <1>6, <1>7
  <2>2. At(i) = F(p + i)
    BY <1>2, <2>1
  <2>. QED
    BY <1>5, <2>1, <2>2
<1>13. s < length => At(s) \in Bytes \ {32, 9}
  <2>. SUFFICES ASSUME s < length PROVE At(s) \in Bytes \ {32, 9}
    OBVIOUS
  <2>1. At(s) = F(S) /\ F(S) \in Bytes
    BY <1>2, <1>7
  <2>2. S < Len(pkt)
    BY <1>2, <1>6, <1>7
  <2>. QED
    BY <1>5, <2>1, <2>2
<1>14. \A i \in s .. s + n - 1 : i < length => At(i) \notin {13, 10, 58}
  <2>. SUFFICES ASSUME NEW i \in s .. s + n - 1, i < length
                PROVE  At(i) \notin {13, 10, 58}
    OBVIOUS
  <2>1. i \in Nat /\ p + i \in S .. S + n - 1 /\ p + i < Len(pkt)
    BY <1>2, <1>6, <1>7
  <2>2. At(i) = F(p + i)
    BY <1>2, <2>1
  <2>. QED
    BY <1>5, <2>1, <2>2
<1>15. s + n < length => At(s + n) \in {13, 10, 58}
  <2>. SUFFICES ASSUME s + n < length PROVE At(s + n) \in {13, 10, 58}
    OBVIOUS
  <2>1. s + n \in Nat /\ p + (s + n) = S + n /\ S + n < Len(pkt)
    BY <1>2, <1>6, <1>7
  <2>2. At(s + n) = F(p + (s + n))
    BY <1>2, <2>1
  <2>. QED
    BY <1>5, <2>1, <2>2
<1>16. Short \/ s + n < length
  BY <1>1, <1>2, <1>3, <1>6, <1>7 DEF Short
<1>17. length >= 4 => IsHTTPRequest /\ At(0) # 22
  <2>. SUFFICES ASSUME length >= 4 PROVE IsHTTPRequest /\ At(0) # 22
    OBVIOUS
  <2>1. four \in Methods
    BY <1>2, <1>3
  <2>2. \A i \in 1 .. 4 : At(i - 1) = F(p + i - 1)
    <3>. SUFFICES ASSUME NEW i \in 1 .. 4 PROVE At(i - 1) = F(p + i - 1)
      OBVIOUS
    <3>1. i - 1 \in Nat /\ i - 1 < length /\ p + (i - 1) = p + i - 1
      BY <1>2
    <3>. QED
      BY <1>2, <3>1
  <2>3. [i \in 1 .. 4 |-> At(i - 1)] = four
    BY <2>2 DEF four
  <2>4. four[1] = At(0)
    BY <2>3
  <2>5. four[1] \in {71, 80, 72, 68, 79}
    BY <2>1, MethodsBegin
  <2>. QED
    BY <2>1, <2>3, <2>4, <2>5 DEF IsHTTPRequest
<1>18. DstPort = 80 /\ SrcPort # 53
  BY <1>2, <1>3
<1>19. Request(h, s, n)
  BY <1>7, <1>8, <1>10, <1>11, <1>12, <1>13, <1>14, <1>15, <1>16, <1>17, <1>18 DEF Request
<1>. QED
  BY <1>6, <1>7, <1>19

\* A header for the host that has a value is the first one, or after it.
LEMMA HeaderSeen ==
    ASSUME length \in Nat, NEW h \in Nat, NEW s \in Nat, NEW n \in Nat,
           Request(h, s, n), NEW i \in Nat, HasValue(i)
    PROVE  h <= i /\ h + 6 < length /\ s < length
<1>1. h <= i /\ h + 6 < length /\ i + 6 < length /\ HeaderAt(i)
  BY DEF Request, HasValue, HeaderAt
<1>2. HeaderAt(h)
  BY <1>1 DEF Request
<1>3. s < length
  <2>1. SUFFICES ASSUME s >= length PROVE FALSE
    OBVIOUS
  <2>2. At(i) \in {72, 104}
    BY <1>1 DEF HeaderAt
  <2>3. ~(h + 5 <= i)
    <3>1. SUFFICES ASSUME h + 5 <= i PROVE FALSE
      OBVIOUS
    <3>2. i \in h + 5 .. s - 1 /\ i < length
      BY <1>1, <2>1, <3>1
    <3>3. At(i) \in {32, 9}
      BY <3>2 DEF Request
    <3>. QED
      BY <2>2, <3>3
  <2>4. i # h + 1 /\ i # h + 2 /\ i # h + 3 /\ i # h + 4
    BY <1>2, <2>2 DEF HeaderAt
  <2>5. i = h
    BY <1>1, <2>3, <2>4
  <2>. DEFINE k == ValueStart(h)
  <2>6. h + 5 \in Nat /\ h + 5 <= length
    BY <1>1
  <2>7. k \in h + 5 .. length /\ (k = length \/ At(k) \in Bytes \ {32, 9})
    BY <2>6, SearchEnds DEF ValueStart
  <2>8. k \in Nat /\ k <= length
    BY <2>6, <2>7
  <2>9. ValueEnd(h) \in k .. length
    BY <2>8, SearchEnds DEF ValueEnd
  <2>10. k < length
    <3>1. k < ValueEnd(h)
      BY <2>5 DEF HasValue
    <3>. HIDE DEF k
    <3>. QED
      BY <2>8, <2>9, <3>1
  <2>11. k \in h + 5 .. s - 1
    <3>. HIDE DEF k
    <3>. QED
      BY <2>1, <2>7, <2>10
  <2>12. At(k) \in {32, 9}
    BY <2>10, <2>11 DEF Request
  <2>. QED
    BY <2>7, <2>10, <2>12
<1>. QED
  BY <1>1, <1>3

\* The value of that header is the name, as far as it is there.
LEMMA ValueIs ==
    ASSUME length \in Nat, NEW h \in Nat, NEW s \in Nat, NEW n \in Nat,
           Request(h, s, n), h + 6 < length, s < length
    PROVE  /\ HasValue(h)
           /\ \E m \in Nat : /\ HostOf(h) = << <<job.offset + s, m>> >>
                            /\ m <= n /\ (s + n < length => m = n)
<1>1. /\ s >= h + 5 /\ n > 0 /\ HeaderAt(h) /\ At(s) \in Bytes \ {32, 9}
      /\ \A i \in h + 5 .. s - 1 : i < length => At(i) \in {32, 9}
      /\ \A i \in s .. s + n - 1 : i < length => At(i) \notin {13, 10, 58}
      /\ s + n < length => At(s + n) \in {13, 10, 58}
  BY DEF Request
<1>2. ValueStart(h) = s
  <2>1. h + 5 \in Nat /\ s \in h + 5 .. length
    BY <1>1
  <2>2. \A k \in h + 5 .. s - 1 : At(k) \notin Bytes \ {32, 9}
    BY <1>1
  <2>. QED
    BY <1>1, <2>1, <2>2, FirstIs DEF ValueStart
<1>. DEFINE stop == FirstIn(s, {13, 10})
            colon == FirstIn(s, {58})
            last == IF colon < stop THEN colon ELSE stop
<1>3. /\ stop \in s .. length /\ (stop = length \/ At(stop) \in {13, 10})
      /\ \A k \in s .. stop - 1 : At(k) \notin {13, 10}
  BY SearchEnds
<1>4. /\ colon \in s .. length /\ (colon = length \/ At(colon) \in {58})
      /\ \A k \in s .. colon - 1 : At(k) \notin {58}
  BY SearchEnds
<1>5. ValueEnd(h) = stop
  BY <1>2 DEF ValueEnd
<1>6. HostOf(h) = << <<job.offset + s, last - s>> >>
  BY <1>2, <1>5 DEF HostOf, Span
<1>. HIDE DEF stop, colon
<1>7. stop >= s + n \/ stop = length
  <2>1. SUFFICES ASSUME stop < s + n, stop # length PROVE FALSE
    BY <1>3
  <2>2. stop \in s .. s + n - 1 /\ stop < length
    BY <1>3, <2>1
  <2>. QED
    BY <1>1, <1>3, <2>1, <2>2
<1>8. colon >= s + n \/ colon = length
  <2>1. SUFFICES ASSUME colon < s + n, colon # length PROVE FALSE
    BY <1>4
  <2>2. colon \in s .. s + n - 1 /\ colon < length
    BY <1>4, <2>1
  <2>. QED
    BY <1>1, <1>4, <2>1, <2>2
<1>9. s + n < length => stop <= s + n \/ colon <= s + n
  <2>1. SUFFICES ASSUME s + n < length, stop > s + n, colon > s + n PROVE FALSE
    BY <1>3, <1>4
  <2>2. s + n \in s .. stop - 1 /\ s + n \in s .. colon - 1
    BY <1>3, <1>4, <2>1
  <2>. QED
    BY <1>1, <1>3, <1>4, <2>1, <2>2
<1>10. HasValue(h)
  BY <1>1, <1>2, <1>3, <1>5, <1>7 DEF HasValue
<1>11. /\ last - s \in Nat /\ last - s <= n
       /\ s + n < length => last - s = n
  BY <1>3, <1>4, <1>7, <1>8, <1>9
<1>. HIDE DEF last
<1>. QED
  BY <1>6, <1>10, <1>11

\* Whatever is found is the beginning of the name, and all of it if it ends
\* in the packet.
LEMMA BeginningOk ==
    ASSUME NEW r, NEW place, NEW n \in Nat, NEW m \in Nat, m <= n,
           r.name = << <<place, n>> >>, r.kind # "tls",
           Understood(r.kind) /\ Len(r.bytes) >= r.whole => m = n
    PROVE  NameOk(r, << <<place, m>> >>)
<1>1. Begins(<< <<place, m>> >>, << <<place, n>> >>)
  BY DEF Begins
<1>. QED
  BY <1>1 DEF NameOk

\* A request leads to the first header for the host, and to the name.
LEMMA RequestAsks ==
    ASSUME IInv, ReadInv, SentInv, pc \in Extractors, job.rec = next - 1,
           Hand.kind = "http", HostFirst(Hand), Asks, Extract
    PROVE  \/ pc' \in Extractors /\ Asks'
           \/ pc' = "read" /\ NameOk(Hand, job.name)'
<1>1. /\ Hand \in PcapRecord /\ jobs \in Seq(Job) /\ Len(jobs) \in DOMAIN jobs
      /\ length \in Nat /\ Len(Hand.bytes) \in Nat /\ Hand.whole \in Nat
  BY HandIs, Payload DEF PcapRecord
<1>2. job.name = <<>> /\ pc \in {"hello", "host", "query"} /\ (pc = "query" => Short)
  BY DEF Asks
<1>3. UNCHANGED <<file, engine, next, pkt>> /\ Hand' = Hand /\ Short' = Short
  BY ExtractKeeps DEF Hand, Short
<1>4. PICK h \in Nat, s \in Nat, n \in Nat : Request(h, s, n)
  BY RequestIs
<1>5. /\ h >= 4 /\ s >= h + 5 /\ n > 0 /\ Hand.name = << <<job.offset + s, n>> >>
      /\ Short \/ s + n < length
      /\ length >= 4 => IsHTTPRequest /\ At(0) # 22
      /\ DstPort = 80 /\ SrcPort # 53
  BY <1>4 DEF Request
<1>6. CASE Hello
  <2>1. ~IsTLSClientHello
    BY <1>1, <1>5 DEF IsTLSClientHello
  <2>2. pc' = "host" /\ UNCHANGED jobs
    BY <1>6, <2>1 DEF Hello, NotFound, Goto
  <2>. QED
    BY <1>2, <2>2 DEF Asks, job, Extractors
<1>7. CASE Host
  <2>. DEFINE hits == {i \in 0 .. length - 1 : HasValue(i)}
  <2>1. \/ \E i \in hits : /\ \A k \in hits : i <= k
                          /\ Found(HostOf(i)) /\ pc' = "read"
        \/ ~(TriesHost /\ IsHTTPRequest /\ hits # {}) /\ pc' = "query" /\ UNCHANGED jobs
    BY <1>7 DEF Host, NotFound, Goto
  <2>2. CASE \E i \in hits : /\ \A k \in hits : i <= k
                            /\ Found(HostOf(i)) /\ pc' = "read"
    <3>1. PICK i \in hits : /\ \A k \in hits : i <= k
                            /\ Found(HostOf(i)) /\ pc' = "read"
      BY <2>2
    <3>2. i \in Nat /\ HasValue(i)
      BY <1>1
    <3>3. h <= i /\ h + 6 < length /\ s < length
      BY <1>1, <1>4, <3>2, HeaderSeen
    <3>4. PICK m \in Nat : /\ HostOf(h) = << <<job.offset + s, m>> >>
                            /\ m <= n /\ (s + n < length => m = n)
      BY <1>1, <1>4, <3>3, ValueIs
    <3>5. h \in hits
      BY <1>1, <1>4, <3>3, ValueIs
    <3>6. i = h
      BY <3>1, <3>2, <3>3, <3>5
    <3>7. jobs' \in Seq(Job)
      BY IInvNext DEF Next, IInv, TypeInv
    <3>8. job'.name = << <<job.offset + s, m>> >>
      BY <1>1, <3>1, <3>4, <3>6, <3>7, FoundIs
    <3>9. Len(Hand.bytes) >= Hand.whole => m = n
      BY <1>1, <1>5, <3>4 DEF Short
    <3>10. NameOk(Hand, << <<job.offset + s, m>> >>)
      BY <1>5, <3>4, <3>9, BeginningOk
    <3>11. NameOk(Hand, job.name)'
      BY <1>3, <3>8, <3>10 DEF NameOk, Understood
    <3>. QED
      BY <3>1, <3>11
  <2>3. CASE ~(TriesHost /\ IsHTTPRequest /\ hits # {}) /\ pc' = "query" /\ UNCHANGED jobs
    <3>1. ASSUME ~Short PROVE FALSE
      <4>1. s + n < length /\ length > 10 /\ h + 6 < length /\ s < length /\ h \in 0 .. length - 1
        BY <1>1, <1>5, <3>1
      <4>2. TriesHost /\ IsHTTPRequest
        BY <1>1, <1>5, <4>1 DEF TriesHost
      <4>3. HasValue(h)
        BY <1>1, <1>4, <4>1, ValueIs
      <4>. QED
        BY <2>3, <4>1, <4>2, <4>3
    <3>. QED
      BY <1>2, <1>3, <2>3, <3>1 DEF Asks, job, Extractors
  <2>. QED
    BY <2>1, <2>2, <2>3
<1>8. CASE Query
  <2>1. Short /\ ~TriesQuery
    BY <1>2, <1>5, <1>8 DEF Query, TriesQuery
  <2>2. pc' = "read" /\ UNCHANGED jobs
    BY <1>8, <2>1 DEF Query, NotFound, Goto
  <2>3. job' = job /\ job.name = <<>>
    BY <1>2, <2>2 DEF job
  <2>4. NameOk(Hand, <<>>)
    BY <1>1, <2>1, NoneOk DEF Short
  <2>5. NameOk(Hand, job.name)'
    BY <1>3, <2>3, <2>4 DEF NameOk, Understood
  <2>. QED
    BY <2>2, <2>5
<1>9. CASE \/ SessionID \/ CipherSuites \/ CompressionMethods
           \/ Extensions \/ Extension \/ Label
  BY <1>2, <1>9 DEF SessionID, CipherSuites, CompressionMethods, SkipField, Extensions,
     Extension, Label
<1>. QED
  BY <1>6, <1>7, <1>8, <1>9 DEF Extract

\* What a query says: where its labels are, and where they end.
Spelled ==
    LET name == Hand.name
        k == Len(name)
        p == HeaderEnd(pkt)
    IN
    /\ Spot(0) = p + 12
    /\ \A m \in 0 .. k - 1 :
         LET n == name[m + 1][2] IN
         /\ Spot(m) \in Nat /\ n \in 1 .. 63 /\ name[m + 1] = <<Spot(m) + 1, n>>
         /\ Spot(m + 1) = Spot(m) + 1 + n /\ Spot(m + 1) <= Spot(k)
         /\ \A i \in Nat : p + i = Spot(m) /\ i < length => At(i) = n
    /\ Spot(k) \in Nat /\ Hand.whole > Spot(k)
    /\ \A i \in Nat : p + i = Spot(k) /\ i < length => At(i) = 0
    /\ length > 0 => At(0) \notin {22, 71, 80, 72, 68, 79}
    /\ 53 \in {DstPort, SrcPort} /\ (length >= 12 => IsDNSQuery)

\* A query looks like one.
LEMMA QueryIs ==
    ASSUME IInv, pc \in Extractors, Inspectable(pkt), job.offset = HeaderEnd(pkt),
           QueryAt(pkt)
    PROVE  53 \in {DstPort, SrcPort} /\ (length >= 12 => IsDNSQuery)
<1>. DEFINE p == HeaderEnd(pkt)
<1>1. /\ p \in Nat /\ length \in Nat /\ Len(pkt) \in Nat /\ p + length = Len(pkt)
      /\ \A i \in Nat : i < length => At(i) = Field(pkt, p + i)
      /\ \A i \in Nat : i + 1 < length => U16At(i) = Field16(pkt, p + i)
      /\ DstPort = To(pkt) /\ SrcPort = From(pkt)
  BY PayloadIs
<1>2. /\ 53 \in {From(pkt), To(pkt)}
      /\ Len(pkt) >= p + 12 => Field(pkt, p + 2) < 128 /\ Field16(pkt, p + 4) # 0
  BY DEF QueryAt
<1>. HIDE DEF p
<1>3. ASSUME length >= 12 PROVE IsDNSQuery
  <2>1. At(2) = Field(pkt, p + 2) /\ U16At(4) = Field16(pkt, p + 4) /\ Len(pkt) >= p + 12
    BY <1>1, <1>3
  <2>. QED
    BY <1>2, <1>3, <2>1 DEF IsDNSQuery
<1>. QED
  BY <1>1, <1>2, <1>3

\* Its bytes say so.
LEMMA SpelledIs ==
    ASSUME IInv, ReadInv, SentInv, pc \in Extractors, job.rec = next - 1,
           Hand.kind = "dns"
    PROVE  Spelled /\ Hand.name \in Seq(Nat \X Nat) /\ Len(Hand.name) \in Nat \ {0}
<1>. DEFINE p == HeaderEnd(pkt)
            name == Hand.name
            k == Len(name)
            F(i) == Field(pkt, i)
            stop == name[k][1] + name[k][2]
<1>1. /\ Hand \in PcapRecord /\ pkt = Hand.bytes /\ Inspectable(pkt)
      /\ job.offset = p /\ LabelsIn(Hand)
  BY HandIs DEF Means
<1>2. /\ p \in Nat /\ length \in Nat /\ Len(pkt) \in Nat /\ p + length = Len(pkt)
      /\ \A i \in Nat : i < length => At(i) = F(p + i)
  BY <1>1, PayloadIs
<1>3. /\ QueryAt(pkt)
      /\ Len(pkt) > p => F(p) \notin {22, 71, 80, 72, 68, 79}
      /\ k > 0 /\ name[1][1] = p + 13
      /\ stop < Len(pkt) => F(stop) = 0
      /\ Hand.whole > stop
  BY <1>1 DEF LabelsIn
<1>4. \A i \in DOMAIN name :
          /\ name[i][2] \in 1 .. 63 /\ name[i][1] + name[i][2] <= stop
          /\ name[i][1] <= Len(pkt) => F(name[i][1] - 1) = name[i][2]
          /\ i < k => name[i + 1][1] = name[i][1] + name[i][2] + 1
  BY <1>1 DEF LabelsIn
<1>5. name \in Seq(Nat \X Nat) /\ k \in Nat \ {0} /\ DOMAIN name = 1 .. k
  <2>1. name \in Seq(Nat \X Nat)
    BY <1>1 DEF PcapRecord
  <2>. QED
    BY <1>3, <2>1
<1>6. \A i \in 1 .. k : /\ name[i] = <<name[i][1], name[i][2]>>
                        /\ name[i][1] \in Nat /\ name[i][2] \in Nat
  <2>. SUFFICES ASSUME NEW i \in 1 .. k
                PROVE  /\ name[i] = <<name[i][1], name[i][2]>>
                       /\ name[i][1] \in Nat /\ name[i][2] \in Nat
    OBVIOUS
  <2>1. name[i] \in Nat \X Nat
    BY <1>5, ElementOfSeq
  <2>. QED
    BY <2>1
<1>7. Spot(k) = stop /\ \A m \in 0 .. k - 1 : Spot(m) = name[m + 1][1] - 1
  BY <1>5 DEF Spot
<1>8. 1 \in 1 .. k /\ k \in 1 .. k
  BY <1>5
<1>9. stop \in Nat
  BY <1>6, <1>8
<1>. HIDE DEF name, k, p, F, stop
<1>10. ASSUME NEW m \in 0 .. k - 1
       PROVE  LET n == name[m + 1][2] IN
              /\ Spot(m) \in Nat /\ n \in 1 .. 63 /\ name[m + 1] = <<Spot(m) + 1, n>>
              /\ Spot(m + 1) = Spot(m) + 1 + n /\ Spot(m + 1) <= Spot(k)
              /\ \A i \in Nat : p + i = Spot(m) /\ i < length => At(i) = n
  <2>1. m + 1 \in 1 .. k /\ m \in Nat
    BY <1>5
  <2>. DEFINE s == name[m + 1][1]
              n == name[m + 1][2]
  <2>2. /\ s \in Nat /\ n \in 1 .. 63 /\ n \in Nat /\ s + n <= stop
        /\ s <= Len(pkt) => F(s - 1) = n
        /\ m + 1 < k => name[(m + 1) + 1][1] = s + n + 1
        /\ name[m + 1] = <<s, n>> /\ Spot(m) = s - 1
    BY <1>4, <1>5, <1>6, <1>7, <2>1
  <2>3. s > 0
    <3>1. CASE m = 0
      BY <1>2, <1>3, <3>1
    <3>2. CASE m > 0
      <4>1. m \in 1 .. k /\ m < k
        BY <1>5, <3>2
      <4>2. s = name[m][1] + name[m][2] + 1 /\ name[m][1] \in Nat /\ name[m][2] \in Nat
        BY <1>4, <1>5, <1>6, <4>1
      <4>. HIDE DEF s
      <4>. QED
        BY <4>2
    <3>. QED
      BY <2>1, <3>1, <3>2
  <2>4. Spot(m + 1) = s + n
    <3>1. CASE m + 1 < k
      <4>1. m + 1 \in 0 .. k - 1
        BY <1>5, <2>1, <3>1
      <4>2. Spot(m + 1) = name[(m + 1) + 1][1] - 1
        BY <1>7, <4>1
      <4>. HIDE DEF s, n
      <4>. QED
        BY <2>2, <3>1, <4>2
    <3>2. CASE m + 1 = k
      BY <1>7, <3>2 DEF stop
    <3>. QED
      BY <1>5, <2>1, <3>1, <3>2
  <2>. HIDE DEF s, n
  <2>5. ASSUME NEW i \in Nat, p + i = Spot(m), i < length PROVE At(i) = n
    <3>1. p + i = s - 1 /\ s <= Len(pkt)
      BY <1>2, <2>2, <2>5
    <3>. QED
      BY <1>2, <2>2, <2>5, <3>1
  <2>6. Spot(m) \in Nat /\ Spot(m) + 1 = s /\ Spot(m + 1) = Spot(m) + 1 + n
    BY <2>2, <2>3, <2>4
  <2>7. Spot(m + 1) <= Spot(k)
    BY <1>7, <2>2, <2>4
  <2>. QED
    BY <2>2, <2>5, <2>6, <2>7 DEF n
<1>11. Spot(0) = p + 12
  <2>1. 0 \in 0 .. k - 1 /\ 0 + 1 = 1
    BY <1>5
  <2>. QED
    BY <1>2, <1>3, <1>7, <2>1
<1>12. ASSUME NEW i \in Nat, p + i = Spot(k), i < length PROVE At(i) = 0
  <2>1. p + i = stop /\ stop < Len(pkt)
    BY <1>2, <1>7, <1>12
  <2>. QED
    BY <1>2, <1>3, <1>12, <2>1
<1>13. length > 0 => At(0) \notin {22, 71, 80, 72, 68, 79}
  <2>1. length > 0 => At(0) = F(p) /\ Len(pkt) > p
    BY <1>2
  <2>. QED
    BY <1>3, <2>1
<1>14. 53 \in {DstPort, SrcPort} /\ (length >= 12 => IsDNSQuery)
  BY <1>1, <1>3, QueryIs DEF p
<1>15. Spelled
  BY <1>3, <1>7, <1>9, <1>10, <1>11, <1>12, <1>13, <1>14 DEF Spelled, name, k, p
<1>. QED
  BY <1>5, <1>15 DEF name, k

\* A payload that begins like neither is no hello and no request.
LEMMA NeitherIs ==
    ASSUME length \in Nat, length > 0 => At(0) \notin {22, 71, 80, 72, 68, 79}
    PROVE  ~IsTLSClientHello /\ ~IsHTTPRequest
<1>1. ~IsTLSClientHello
  BY DEF IsTLSClientHello
<1>2. ASSUME IsHTTPRequest PROVE FALSE
  <2>1. length > 0 /\ [i \in 1 .. 4 |-> At(i - 1)] \in Methods
    BY <1>2 DEF IsHTTPRequest
  <2>2. [i \in 1 .. 4 |-> At(i - 1)][1] \in {71, 80, 72, 68, 79}
    BY <2>1, MethodsBegin
  <2>. QED
    BY <2>1, <2>2
<1>. QED
  BY <1>1, <1>2

\* The labels so far are a beginning of the name.
LEMMA BeginningIs ==
    ASSUME NEW r \in PcapRecord, NEW m \in 0 .. Len(r.name)
    PROVE  /\ Begins(SubSeq(r.name, 1, m), r.name)
           /\ m = Len(r.name) => SubSeq(r.name, 1, m) = r.name
<1>. DEFINE name == r.name
            found == SubSeq(name, 1, m)
<1>1. name \in Seq(Nat \X Nat) /\ Len(name) \in Nat
  BY DEF PcapRecord
<1>2. Len(found) = m /\ \A i \in 1 .. m : found[i] = name[i]
  BY <1>1
<1>3. found \in Seq(Nat \X Nat)
  BY <1>1
<1>4. DOMAIN found = 1 .. m
  BY <1>2, <1>3
<1>5. \A i \in 1 .. m : name[i][2] \in Nat
  <2>1. ASSUME NEW i \in 1 .. m PROVE name[i] \in Nat \X Nat
    BY <1>1
  <2>. QED
    BY <2>1
<1>6. m = Len(name) => found = name
  BY <1>1
<1>7. m <= Len(name)
  BY <1>1
<1>. HIDE DEF found, name
<1>8. ASSUME NEW i \in DOMAIN found
      PROVE  found[i] = name[i] /\ found[i][2] <= name[i][2]
  <2>1. found[i] = name[i] /\ name[i][2] \in Nat
    BY <1>2, <1>4, <1>5
  <2>. QED
    BY <2>1
<1>9. Begins(found, name)
  BY <1>2, <1>7, <1>8 DEF Begins
<1>. QED
  BY <1>6, <1>9 DEF found, name

\* The first labels of a name are right, and all of them if it is whole.
LEMMA LabelsOk ==
    ASSUME NEW r \in PcapRecord, NEW m \in 0 .. Len(r.name), r.kind # "tls",
           Understood(r.kind) /\ Len(r.bytes) >= r.whole => m = Len(r.name)
    PROVE  NameOk(r, SubSeq(r.name, 1, m))
  BY BeginningIs DEF NameOk

\* The labels of a query lead from one to the next, up to the end.
LEMMA QuerySpells ==
    ASSUME IInv, ReadInv, SentInv, pc \in Extractors, job.rec = next - 1,
           Hand.kind = "dns", Spells, Extract
    PROVE  \/ pc' \in Extractors /\ Spells'
           \/ pc' = "read" /\ NameOk(Hand, job.name)'
<1>. DEFINE name == Hand.name
            k == Len(name)
            p == HeaderEnd(pkt)
<1>1. /\ Hand \in PcapRecord /\ jobs \in Seq(Job) /\ Len(jobs) \in DOMAIN jobs
      /\ pkt = Hand.bytes /\ job.offset = p
  BY HandIs
<1>2. /\ p \in Nat /\ length \in Nat /\ Len(pkt) \in Nat /\ p + length = Len(pkt)
      /\ Hand.whole \in Nat /\ cur \in Nat
  BY <1>1, HandIs, PayloadIs DEF PcapRecord, IInv, TypeInv
<1>3. Spelled /\ name \in Seq(Nat \X Nat) /\ k \in Nat \ {0}
  BY SpelledIs
<1>4. /\ length > 0 => At(0) \notin {22, 71, 80, 72, 68, 79}
      /\ 53 \in {DstPort, SrcPort} /\ (length >= 12 => IsDNSQuery)
      /\ Spot(0) = p + 12 /\ Spot(k) \in Nat /\ Hand.whole > Spot(k)
      /\ \A i \in Nat : p + i = Spot(k) /\ i < length => At(i) = 0
  BY <1>3 DEF Spelled
<1>5. \A m \in 0 .. k - 1 :
         /\ Spot(m) \in Nat /\ name[m + 1][2] \in 1 .. 63
         /\ name[m + 1] = <<Spot(m) + 1, name[m + 1][2]>>
         /\ Spot(m + 1) = Spot(m) + 1 + name[m + 1][2] /\ Spot(m + 1) <= Spot(k)
         /\ \A i \in Nat : p + i = Spot(m) /\ i < length => At(i) = name[m + 1][2]
  BY <1>3 DEF Spelled
<1>6. ~IsTLSClientHello /\ ~IsHTTPRequest
  BY <1>2, <1>4, NeitherIs
<1>7. /\ pc \in {"hello", "host", "query", "label"}
      /\ pc # "label" => job.name = <<>>
      /\ pc = "label" => \E m \in 0 .. k : job.name = SubSeq(name, 1, m) /\ p + cur = Spot(m)
  BY <1>1 DEF Spells, Place
<1>8. /\ UNCHANGED <<file, engine, next, pkt>> /\ Hand' = Hand
      /\ \A m : Spot(m)' = Spot(m)
  BY ExtractKeeps DEF Hand, Spot
<1>. HIDE DEF name, k, p
<1>9. CASE Hello
  <2>1. pc = "hello" /\ pc' = "host" /\ UNCHANGED jobs
    BY <1>6, <1>9 DEF Hello, NotFound, Goto
  <2>. QED
    BY <1>7, <2>1 DEF Spells, job, Extractors
<1>10. CASE Host
  <2>1. pc = "host" /\ pc' = "query" /\ UNCHANGED jobs
    BY <1>6, <1>10 DEF Host, NotFound, Goto
  <2>. QED
    BY <1>7, <2>1 DEF Spells, job, Extractors
<1>11. CASE Query
  <2>1. \/ cur' = 12 /\ pc' = "label" /\ UNCHANGED jobs
        \/ ~(TriesQuery /\ IsDNSQuery) /\ pc' = "read" /\ UNCHANGED jobs
    BY <1>11 DEF Query, NotFound, Goto
  <2>2. pc = "query" /\ job.name = <<>>
    BY <1>7, <1>11 DEF Query
  <2>3. CASE cur' = 12 /\ pc' = "label" /\ UNCHANGED jobs
    <3>1. job' = job /\ Place' = p + 12
      BY <1>1, <1>8, <2>3 DEF job, Place, p
    <3>2. SubSeq(name, 1, 0) = <<>>
      BY <1>3
    <3>3. 0 \in 0 .. k
      BY <1>3
    <3>4. Place' = Spot(0)
      BY <1>4, <3>1
    <3>5. job'.name = SubSeq(name, 1, 0) /\ Place' = Spot(0) /\ 0 \in 0 .. k
      BY <2>2, <3>1, <3>2, <3>3, <3>4
    <3>6. \E m \in 0 .. Len(Hand'.name) : job'.name = SubSeq(Hand'.name, 1, m) /\ Place' = Spot(m)'
      BY <1>8, <3>5 DEF name, k
    <3>. QED
      BY <2>3, <3>6 DEF Spells, Extractors
  <2>4. CASE ~(TriesQuery /\ IsDNSQuery) /\ pc' = "read" /\ UNCHANGED jobs
    <3>1. ASSUME Understood(Hand.kind), Len(Hand.bytes) >= Hand.whole PROVE FALSE
      <4>1. engine = "first"
        BY <3>1 DEF Understood
      <4>2. 0 \in 0 .. k - 1 /\ 0 + 1 = 1
        BY <1>3
      <4>3. /\ Spot(0 + 1) <= Spot(k) /\ Spot(0 + 1) = Spot(0) + 1 + name[0 + 1][2]
            /\ name[0 + 1][2] \in 1 .. 63
        BY <1>5, <4>2
      <4>4. PICK l \in 1 .. 63 : l = name[0 + 1][2]
        BY <4>3
      <4>5. p + 12 + 1 + l <= Spot(k) /\ Spot(k) < Len(pkt) /\ Spot(k) \in Nat
        BY <1>1, <1>2, <1>4, <3>1, <4>4, <4>3
      <4>6. length >= 12
        BY <1>2, <4>5
      <4>. QED
        BY <1>2, <1>4, <2>4, <4>1, <4>6 DEF TriesQuery
    <3>2. NameOk(Hand, <<>>)
      BY <1>1, <3>1, NoneOk
    <3>3. job' = job
      BY <2>4 DEF job
    <3>4. NameOk(Hand, job.name)'
      BY <1>8, <2>2, <3>2, <3>3 DEF NameOk, Understood
    <3>. QED
      BY <2>4, <3>4
  <2>. QED
    BY <2>1, <2>3, <2>4
<1>12. CASE Label
  <2>. DEFINE n == At(cur)
  <2>1. PICK m \in 0 .. k : job.name = SubSeq(name, 1, m) /\ p + cur = Spot(m)
    BY <1>7, <1>12 DEF Label
  <2>2. \/ /\ cur >= length \/ n = 0 \/ n > 63 \/ cur + 1 + n > length
           /\ pc' = "read" /\ UNCHANGED jobs
        \/ /\ ~(cur >= length) /\ n # 0
           /\ Found(Append(job.name, Span(cur + 1, n)))
           /\ cur' = cur + 1 + n /\ pc' = "label"
    BY <1>12 DEF Label, NotFound, Goto
  <2>3. m = k \/ m \in 0 .. k - 1
    BY <1>3, <2>1
  <2>4. m \in 0 .. k - 1 /\ cur < length => n = name[m + 1][2]
    BY <1>2, <1>5, <2>1
  <2>5. m = k /\ cur < length => n = 0
    BY <1>2, <1>4, <2>1
  <2>6. CASE /\ cur >= length \/ n = 0 \/ n > 63 \/ cur + 1 + n > length
             /\ pc' = "read" /\ UNCHANGED jobs
    <3>1. ASSUME m \in 0 .. k - 1, Len(Hand.bytes) >= Hand.whole PROVE FALSE
      <4>1. /\ name[m + 1][2] \in 1 .. 63 /\ Spot(m + 1) <= Spot(k)
            /\ Spot(m + 1) = Spot(m) + 1 + name[m + 1][2] /\ Spot(m) \in Nat
        BY <1>5, <3>1
      <4>2. PICK l \in 1 .. 63 : l = name[m + 1][2]
        BY <4>1
      <4>3. Spot(m) + 1 + l <= Spot(k) /\ Spot(k) < Len(pkt) /\ Spot(k) \in Nat
        BY <1>1, <1>2, <1>4, <3>1, <4>1, <4>2
      <4>4. p + cur + 1 + l <= Spot(k)
        BY <2>1, <4>3
      <4>5. cur + 1 + l < length
        BY <1>2, <4>3, <4>4
      <4>6. cur < length
        BY <1>2, <4>5
      <4>7. n = name[m + 1][2]
        BY <2>4, <3>1, <4>6
      <4>. QED
        <5>1. n = l
          BY <4>2, <4>7
        <5>. HIDE DEF n
        <5>2. ~(cur >= length) /\ ~(n = 0) /\ ~(n > 63) /\ ~(cur + 1 + n > length)
          BY <1>2, <4>5, <4>6, <5>1
        <5>. QED
          BY <2>6, <5>2
    <3>2. NameOk(Hand, SubSeq(name, 1, m))
      BY <1>1, <2>1, <2>3, <3>1, LabelsOk DEF name, k
    <3>3. job' = job
      BY <2>6 DEF job
    <3>4. NameOk(Hand, job.name)'
      BY <1>8, <2>1, <3>2, <3>3 DEF NameOk, Understood
    <3>. QED
      BY <2>6, <3>4
  <2>7. CASE /\ ~(cur >= length) /\ n # 0
             /\ Found(Append(job.name, Span(cur + 1, n)))
             /\ cur' = cur + 1 + n /\ pc' = "label"
    <3>1. m \in 0 .. k - 1 /\ n = name[m + 1][2]
      BY <1>2, <2>3, <2>4, <2>5, <2>7
    <3>2. name[m + 1] = <<Spot(m) + 1, n>> /\ Spot(m + 1) = Spot(m) + 1 + n /\ n \in Nat
      BY <1>5, <3>1
    <3>3. Span(cur + 1, n) = name[m + 1]
      <4>1. p + (cur + 1) = Spot(m) + 1
        BY <1>2, <2>1
      <4>. QED
        BY <1>1, <3>2, <4>1 DEF Span
    <3>4. m + 1 \in 1 .. k /\ m + 1 \in 0 .. k /\ m \in Nat
      BY <1>3, <3>1
    <3>5. Append(job.name, Span(cur + 1, n)) = SubSeq(name, 1, m + 1)
      BY <1>3, <2>1, <3>3, <3>4
    <3>6. jobs' \in Seq(Job)
      BY IInvNext DEF Next, IInv, TypeInv
    <3>7. job'.name = SubSeq(name, 1, m + 1)
      BY <1>1, <2>7, <3>5, <3>6, FoundIs
    <3>8. Place' = p + cur'
      BY <1>1, <1>8 DEF Place, p
    <3>9. Place' = Spot(m + 1)
      BY <1>2, <2>1, <2>7, <3>2, <3>8
    <3>10. \E i \in 0 .. Len(Hand'.name) : job'.name = SubSeq(Hand'.name, 1, i) /\ Place' = Spot(i)'
      BY <1>8, <3>4, <3>7, <3>9 DEF name, k
    <3>. QED
      BY <2>7, <3>10 DEF Spells, Extractors
  <2>. QED
    BY <2>2, <2>6, <2>7
<1>13. CASE \/ SessionID \/ CipherSuites \/ CompressionMethods
            \/ Extensions \/ Extension
  BY <1>7, <1>13 DEF SessionID, CipherSuites, CompressionMethods, SkipField, Extensions,
     Extension
<1>. QED
  BY <1>9, <1>10, <1>11, <1>12, <1>13 DEF Extract

\* Where there is nothing that could be taken for a name, none is found.
LEMMA NothingFinds ==
    ASSUME IInv, ReadInv, SentInv, pc \in Extractors, job.rec = next - 1,
           Hand.kind = "other", Finds, Extract
    PROVE  \/ pc' \in Extractors /\ Finds'
           \/ pc' = "read" /\ NameOk(Hand, job.name)'
<1>. DEFINE p == HeaderEnd(pkt)
            F(i) == Field(pkt, i)
            FF(i) == Field16(pkt, i)
<1>1. /\ Hand \in PcapRecord /\ pkt = Hand.bytes /\ Inspectable(pkt)
      /\ job.offset = p /\ NothingIn(Hand)
  BY HandIs DEF Means
<1>2. /\ p \in Nat /\ length \in Nat /\ Len(pkt) \in Nat /\ p + length = Len(pkt)
      /\ \A i \in Nat : i < length => At(i) = F(p + i) /\ F(p + i) \in 0 .. 255
      /\ \A i \in Nat : i + 1 < length => U16At(i) = FF(p + i) /\ FF(p + i) \in Nat
      /\ DstPort = To(pkt) /\ SrcPort = From(pkt)
  BY <1>1, PayloadIs DEF Bytes
<1>3. /\ Hand.name = <<>>
      /\ \A i \in p .. Len(pkt) : ~ServerNameAt(pkt, i) /\ ~HostAt(pkt, i)
      /\ QueryAt(pkt) /\ Len(pkt) > p + 12 =>
            F(p + 12) = 0 \/ F(p + 12) > 63 \/ p + 13 + F(p + 12) > Len(pkt)
  BY <1>1 DEF NothingIn
<1>4. job.name = <<>> /\ (pc = "label" => cur = 12 /\ QueryAt(pkt))
  BY <1>1 DEF Finds
<1>5. UNCHANGED <<file, engine, next, pkt>> /\ Hand' = Hand
  BY ExtractKeeps DEF Hand
<1>6. ASSUME UNCHANGED jobs, pc' = "read" PROVE NameOk(Hand, job.name)'
  <2>1. job' = job
    BY <1>6 DEF job
  <2>2. NameOk(Hand, <<>>)
    BY <1>1, <1>3, NoneOk
  <2>. QED
    BY <1>4, <1>5, <2>1, <2>2 DEF NameOk, Understood
<1>7. ASSUME UNCHANGED jobs, pc' \in Extractors, pc' = "label" => cur' = 12 /\ QueryAt(pkt)
      PROVE  pc' \in Extractors /\ Finds'
  BY <1>1, <1>4, <1>5, <1>7 DEF Finds, job
<1>. HIDE DEF p, F, FF
<1>8. CASE Hello \/ SessionID \/ CipherSuites \/ CompressionMethods \/ Extensions
  <2>1. UNCHANGED jobs /\ pc' \in Extractors \ {"label"}
    BY <1>8 DEF Hello, SessionID, CipherSuites, CompressionMethods, SkipField, Extensions,
       NotFound, Goto, Extractors
  <2>. QED
    BY <1>7, <2>1
<1>9. CASE Extension
  <2>. DEFINE e == cur + 4
              extLen == U16At(cur + 2)
              sniLen == U16At(e + 3)
  <2>1. pc = "extension" /\ end <= length /\ cur \in Nat /\ end \in Nat
    BY <1>9 DEF Extension, IInv, EndInv, TypeInv
  <2>2. extLen \in Nat
    <3>1. cur + 2 \in Nat /\ pc \in Extractors
      BY <2>1 DEF Extractors
    <3>. QED
      BY <3>1, Payload
  <2>3. \/ NotFound("host") \/ UNCHANGED <<pc, end, jobs>>
        \/ /\ ~(e > end) /\ ~(e + extLen > end) /\ U16At(cur) = 0 /\ ~(extLen < 5)
           /\ ~(U16At(e) < 3 \/ At(e + 2) # 0 \/ sniLen > extLen - 5)
    BY <1>9 DEF Extension
  <2>4. ASSUME ~(e > end), ~(e + extLen > end), U16At(cur) = 0, ~(extLen < 5),
               ~(U16At(e) < 3 \/ At(e + 2) # 0 \/ sniLen > extLen - 5)
        PROVE  FALSE
    <3>1. e + extLen <= end /\ extLen >= 5
      BY <2>1, <2>2, <2>4
    <3>. DEFINE c == p + cur
    <3>2. /\ cur + 1 < length
          /\ cur + 2 \in Nat /\ (cur + 2) + 1 < length
          /\ e \in Nat /\ e + 1 < length
          /\ e + 2 \in Nat /\ e + 2 < length
          /\ e + 3 \in Nat /\ (e + 3) + 1 < length
      BY <1>2, <2>1, <2>2, <3>1
    <3>3. /\ U16At(cur) = FF(p + cur)
          /\ U16At(cur + 2) = FF(p + (cur + 2)) /\ U16At(e) = FF(p + e)
          /\ At(e + 2) = F(p + (e + 2)) /\ U16At(e + 3) = FF(p + (e + 3))
          /\ FF(p + e) \in Nat /\ FF(p + (e + 3)) \in Nat
      BY <1>2, <2>1, <3>2
    <3>4. /\ p + (cur + 2) = c + 2 /\ p + e = c + 4
          /\ p + (e + 2) = c + 6 /\ p + (e + 3) = c + 7
          /\ c \in p .. Len(pkt) /\ c + 9 <= Len(pkt) /\ c + 4 + extLen <= Len(pkt)
      BY <1>2, <2>1, <2>2, <3>1
    <3>5. /\ FF(c) = 0 /\ FF(c + 2) = extLen /\ FF(c + 4) = U16At(e)
          /\ F(c + 6) = At(e + 2) /\ FF(c + 7) = sniLen
          /\ U16At(e) \in Nat /\ sniLen \in Nat
      BY <2>4, <3>3, <3>4
    <3>. HIDE DEF c, e, extLen, sniLen
    <3>6. /\ FF(c + 2) >= 5 /\ c + 4 + FF(c + 2) <= Len(pkt)
          /\ FF(c + 4) >= 3 /\ F(c + 6) = 0 /\ FF(c + 7) <= FF(c + 2) - 5
      BY <2>2, <2>4, <3>1, <3>4, <3>5
    <3>7. ServerNameAt(pkt, c)
      BY <3>4, <3>5, <3>6 DEF ServerNameAt, F, FF
    <3>. QED
      BY <1>3, <3>4, <3>7
  <2>5. UNCHANGED jobs /\ pc' \in Extractors \ {"label"}
    BY <2>1, <2>3, <2>4 DEF NotFound, Goto, Extractors
  <2>. QED
    BY <1>7, <2>5
<1>10. CASE Host
  <2>1. ASSUME NEW i \in Nat, HasValue(i) PROVE FALSE
    <3>1. HeaderAt(i) /\ i + 6 < length
      BY <2>1 DEF HasValue, HeaderAt
    <3>2. HostAt(pkt, p + i)
      BY <1>1, <3>1, HeaderIs DEF p
    <3>3. p + i \in p .. Len(pkt)
      BY <1>2, <3>1
    <3>. QED
      BY <1>3, <3>2, <3>3
  <2>2. {i \in 0 .. length - 1 : HasValue(i)} = {}
    BY <1>2, <2>1
  <2>3. NotFound("query")
    BY <1>10, <2>2 DEF Host
  <2>4. UNCHANGED jobs /\ pc' = "query"
    BY <2>3 DEF NotFound, Goto
  <2>. QED
    BY <1>7, <2>4 DEF Extractors
<1>11. CASE Query
  <2>1. \/ TriesQuery /\ IsDNSQuery /\ cur' = 12 /\ pc' = "label" /\ UNCHANGED jobs
        \/ pc' = "read" /\ UNCHANGED jobs
    BY <1>11 DEF Query, NotFound, Goto
  <2>2. CASE TriesQuery /\ IsDNSQuery /\ cur' = 12 /\ pc' = "label" /\ UNCHANGED jobs
    <3>1. length >= 12 /\ At(2) < 128 /\ U16At(4) # 0
      BY <2>2 DEF IsDNSQuery
    <3>2. At(2) = F(p + 2) /\ U16At(4) = FF(p + 4)
      BY <1>2, <3>1
    <3>3. 53 \in {From(pkt), To(pkt)}
      BY <1>2, <2>2 DEF TriesQuery
    <3>4. QueryAt(pkt)
      BY <3>1, <3>2, <3>3 DEF QueryAt, p, F, FF
    <3>. QED
      BY <1>7, <2>2, <3>4 DEF Extractors
  <2>. QED
    BY <1>6, <2>1, <2>2
<1>12. CASE Label
  <2>1. cur = 12 /\ QueryAt(pkt)
    BY <1>4, <1>12 DEF Label
  <2>. DEFINE n == At(cur)
  <2>2. length > 12 => n = 0 \/ n > 63 \/ cur + 1 + n > length
    <3>1. SUFFICES ASSUME length > 12 PROVE n = 0 \/ n > 63 \/ cur + 1 + n > length
      OBVIOUS
    <3>2. n = F(p + 12) /\ F(p + 12) \in 0 .. 255
      BY <1>2, <2>1, <3>1
    <3>3. Len(pkt) > p + 12
      BY <1>2, <3>1
    <3>4. F(p + 12) = 0 \/ F(p + 12) > 63 \/ p + 13 + F(p + 12) > Len(pkt)
      BY <1>3, <2>1, <3>3
    <3>5. p + length = Len(pkt) /\ p \in Nat /\ length \in Nat
      BY <1>2
    <3>6. PICK k \in 0 .. 255 : k = F(p + 12)
      BY <3>2
    <3>7. k = 0 \/ k > 63 \/ 13 + k > length
      BY <3>4, <3>5, <3>6
    <3>8. n = k
      BY <3>2, <3>6
    <3>. HIDE DEF n
    <3>. QED
      BY <2>1, <3>5, <3>7, <3>8
  <2>3. cur >= length \/ n = 0 \/ n > 63 \/ cur + 1 + n > length
    BY <1>2, <2>1, <2>2
  <2>4. NotFound("read")
    BY <1>12, <2>3 DEF Label
  <2>5. UNCHANGED jobs /\ pc' = "read"
    BY <2>4 DEF NotFound, Goto
  <2>. QED
    BY <1>6, <2>5
<1>. QED
  BY <1>8, <1>9, <1>10, <1>11, <1>12 DEF Extract

-----------------------------------------------------------------------------
\* What is said of the names of the packets that are done with.
LEMMA NamesKept ==
    ASSUME IInv, NameInv, UNCHANGED <<file, engine, jobs>>,
           pc \notin Extractors, pc' \notin Extractors
    PROVE  NameInv'
  BY DEF NameInv, NameOk, Understood, Extractors

\* What an extractor finds is right, and the other names stay as they are.
LEMMA ExtractorsFind ==
    ASSUME IInv, ReadInv, SentInv, NameInv, Extract
    PROVE  NameInv'
<1>1. /\ pc \in Extractors /\ pc' \in Extractors \cup {"read"}
      /\ UNCHANGED <<file, engine, next, pkt>> /\ Hand' = Hand
      /\ DOMAIN jobs' = DOMAIN jobs
      /\ \A j \in DOMAIN jobs : jobs'[j].rec = jobs[j].rec
  BY ExtractKeeps DEF Hand
<1>2. jobs \in Seq(Job) /\ jobs' \in Seq(Job)
  BY IInvNext DEF Next, IInv, TypeInv
<1>3. Len(jobs') = Len(jobs) /\ Len(jobs) \in Nat /\ DOMAIN jobs = 1 .. Len(jobs)
  BY <1>1, <1>2
<1>4. Len(jobs) \in DOMAIN jobs
  BY <1>1, <1>2 DEF IInv, JobInv
<1>5. job'.rec = job.rec /\ job.rec = next - 1 /\ job = jobs[Len(jobs)] /\ job' = jobs'[Len(jobs)]
  BY <1>1, <1>3, <1>4 DEF NameInv, job, Last
<1>6. \A j \in DOMAIN jobs : j < Len(jobs) => jobs'[j] = jobs[j]
  <2>1. UNCHANGED jobs \/ \E found : Found(found)
    BY DEF Extract, Hello, SessionID, CipherSuites, CompressionMethods, SkipField,
       Extensions, Extension, Host, Query, Label, NotFound
  <2>. QED
    BY <1>2, <1>4, <2>1, FoundIs
<1>7. ASSUME NEW j \in DOMAIN jobs, j < Len(jobs)
      PROVE  NameOk(file.recs[jobs[j].rec], jobs[j].name)'
  <2>1. NameOk(file.recs[jobs[j].rec], jobs[j].name)
    BY <1>7 DEF NameInv
  <2>. QED
    BY <1>1, <1>6, <1>7, <2>1 DEF NameOk, Understood
<1>8. Hand \in PcapRecord
  BY <1>1, <1>5, HandIs
<1>9. \/ pc' = "read" /\ NameOk(Hand, job.name)'
      \/ /\ pc' \in Extractors
         /\ Hand'.kind = "tls" => Leads'
         /\ Hand'.kind = "http" /\ HostFirst(Hand') => Asks'
         /\ Hand'.kind = "dns" => Spells'
         /\ Hand'.kind = "other" => Finds'
  <2>1. CASE Hand.kind = "tls"
    BY <1>1, <1>5, <2>1, HelloLeads DEF NameInv
  <2>2. CASE Hand.kind = "http" /\ HostFirst(Hand)
    BY <1>1, <1>5, <2>2, RequestAsks DEF NameInv
  <2>3. CASE Hand.kind = "dns"
    BY <1>1, <1>5, <2>3, QuerySpells DEF NameInv
  <2>4. CASE Hand.kind = "other"
    BY <1>1, <1>5, <2>4, NothingFinds DEF NameInv
  <2>5. CASE Exempt(Hand)
    BY <1>1, <2>5 DEF NameOk, Exempt
  <2>. QED
    BY <1>8, <2>1, <2>2, <2>3, <2>4, <2>5 DEF PcapRecord, Kinds, Exempt
<1>10. CASE pc' = "read" /\ NameOk(Hand, job.name)'
  <2>1. NameOk(file.recs[jobs[Len(jobs)].rec], jobs[Len(jobs)].name)'
    BY <1>1, <1>3, <1>5, <1>10 DEF Hand
  <2>2. ASSUME NEW j \in DOMAIN jobs'
        PROVE  NameOk(file.recs[jobs[j].rec], jobs[j].name)'
    BY <1>1, <1>3, <1>7, <2>1
  <2>. QED
    BY <1>10, <2>2 DEF NameInv, Extractors
<1>11. CASE /\ pc' \in Extractors
            /\ Hand'.kind = "tls" => Leads'
            /\ Hand'.kind = "http" /\ HostFirst(Hand') => Asks'
            /\ Hand'.kind = "dns" => Spells'
            /\ Hand'.kind = "other" => Finds'
  <2>1. ASSUME NEW j \in DOMAIN jobs', j < Len(jobs')
        PROVE  NameOk(file.recs[jobs[j].rec], jobs[j].name)'
    BY <1>1, <1>3, <1>7, <2>1
  <2>2. job'.rec = next' - 1
    BY <1>1, <1>5
  <2>. QED
    BY <1>11, <2>1, <2>2 DEF NameInv
<1>. QED
  BY <1>9, <1>10, <1>11

\* A job is made without a name.
LEMMA JobBegins ==
    ASSUME IInv, ReadInv, NameInv, MakeJob
    PROVE  NameInv'
<1>1. /\ pc = "job" /\ pc' = "hello" /\ UNCHANGED <<file, engine, next>>
      /\ Hand' = Hand /\ jobs \in Seq(Job) /\ jobs' \in Seq(Job)
  BY IInvNext DEF Next, MakeJob, Goto, IInv, TypeInv, input, Hand
<1>2. PICK new \in [rec : {next - 1}, offset : {PayloadOffset},
                     length : {PayloadLength}, name : {<<>>}] :
         jobs' = Append(jobs, new)
  BY DEF MakeJob
<1>3. /\ Len(jobs') = Len(jobs) + 1 /\ Len(jobs) \in Nat
      /\ jobs'[Len(jobs) + 1] = new
      /\ \A j \in 1 .. Len(jobs) : jobs'[j] = jobs[j]
      /\ DOMAIN jobs = 1 .. Len(jobs) /\ DOMAIN jobs' = 1 .. Len(jobs) + 1
  BY <1>1, <1>2
<1>4. job' = new
  BY <1>3 DEF job, Last
<1>5. job'.rec = next - 1 /\ job'.name = <<>>
  BY <1>4
<1>6. ASSUME NEW j \in DOMAIN jobs', j < Len(jobs')
      PROVE  NameOk(file.recs[jobs[j].rec], jobs[j].name)'
  <2>1. j \in DOMAIN jobs /\ jobs'[j] = jobs[j]
    BY <1>3, <1>6
  <2>2. NameOk(file.recs[jobs[j].rec], jobs[j].name)
    BY <1>1, <2>1 DEF NameInv, Extractors
  <2>. QED
    BY <1>1, <2>1, <2>2 DEF NameOk, Understood
<1>7. Leads' /\ Asks' /\ Spells' /\ Finds'
  BY <1>1, <1>5 DEF Leads, Asks, Spells, Finds
<1>. QED
  BY <1>1, <1>5, <1>6, <1>7 DEF NameInv, Extractors

\* The reader and the parser have no part in the names.
LEMMA OthersKeep ==
    ASSUME IInv, NameInv, Open \/ ReadPacket \/ ReadFails \/ Parse
    PROVE  NameInv'
<1>1. pc \notin Extractors /\ pc' \notin Extractors /\ UNCHANGED <<file, engine, jobs>>
  BY DEF Open, ReadPacket, ReadFails, Parse, ParseEthernet, ParseIPv4, ParseTCP, ParseUDP,
     Skip, Advance, Goto, Extractors, input
<1>. QED
  BY <1>1, NamesKept

\* The invariant of the names holds at first.
LEMMA NameInvInit == Init => NameInv
  BY DEF Init, NameInv, Extractors

\* Every step keeps it.
LEMMA NameInvNext == IInv /\ SendInv /\ NameInv /\ [Next]_vars => NameInv'
<1>. SUFFICES ASSUME IInv, SeenInv, ReadInv, SentInv, NameInv, [Next]_vars
              PROVE  NameInv'
  BY DEF SendInv
<1>1. CASE UNCHANGED vars
  BY <1>1 DEF vars, input, NameInv, NameOk, Understood, Leads, Asks, Spells, Finds, Hand,
     Place, Short, Spot, job
<1>. QED
  BY <1>1, OthersKeep, JobBegins, ExtractorsFind DEF Next

\* Whatever the lengths in a hello, a request or a query, and wherever the
\* packet was cut: the name that the extractors find is the one that the bytes
\* say, or nothing of it (a server name) or its beginning (a host, a query),
\* and where nothing in the packet looks like a name, none is found.  Requests
\* that say "host:" before their header for the host are left out: the name
\* that is found in these is another one.
THEOREM NamesRight == Spec => []NameRight
<1>1. Init => IInv /\ SendInv /\ NameInv
  BY IInvInit, SendInvInit, NameInvInit
<1>2. IInv /\ SendInv /\ NameInv /\ [Next]_vars => (IInv /\ SendInv /\ NameInv)'
  BY IInvNext, SendInvNext, NameInvNext
<1>3. IInv /\ SendInv /\ NameInv => NameRight
  <2>. SUFFICES ASSUME IInv, ReadInv, SentInv, NameInv, NEW j \in DOMAIN jobs,
                       ~Exempt(file.recs[jobs[j].rec])
                PROVE  LET r == file.recs[jobs[j].rec]
                           settled == j < Len(jobs) \/ pc \in {"read", "closed"}
                       IN
                       /\ Begins(jobs[j].name, r.name)
                       /\ r.kind = "tls" => jobs[j].name \in {<<>>, r.name}
                       /\ settled /\ Understood(r.kind) /\ Len(r.bytes) >= r.whole
                              => jobs[j].name = r.name
    BY DEF NameRight, SendInv
  <2>1. CASE j < Len(jobs) \/ pc \notin Extractors
    <3>1. NameOk(file.recs[jobs[j].rec], jobs[j].name)
      BY <2>1 DEF NameInv
    <3>. QED
      BY <3>1 DEF NameOk
  <2>2. CASE ~(j < Len(jobs)) /\ pc \in Extractors
    <3>1. /\ Hand \in PcapRecord /\ jobs \in Seq(Job) /\ Len(jobs) \in DOMAIN jobs
          /\ job = jobs[Len(jobs)] /\ job.rec = next - 1
      BY <2>2, HandIs DEF NameInv
    <3>2. j = Len(jobs)
      BY <2>2, <3>1
    <3>3. jobs[j].name = job.name /\ file.recs[jobs[j].rec] = Hand
      BY <3>1, <3>2 DEF Hand
    <3>4. job.name = <<>> \/ (Hand.kind = "dns" /\ pc = "label")
      BY <2>2, <3>1, <3>3 DEF NameInv, Leads, Asks, Spells, Finds, PcapRecord, Kinds,
         Exempt
    <3>5. Begins(job.name, Hand.name)
      <4>1. ASSUME NEW m \in 0 .. Len(Hand.name) PROVE Begins(SubSeq(Hand.name, 1, m), Hand.name)
        BY <3>1, BeginningIs
      <4>2. CASE job.name = <<>>
        BY <3>1, <4>2, EmptyBegins
      <4>3. CASE Hand.kind = "dns" /\ pc = "label"
        BY <2>2, <4>1, <4>3 DEF NameInv, Spells
      <4>. QED
        BY <3>4, <4>2, <4>3
    <3>. QED
      BY <2>2, <3>3, <3>4, <3>5 DEF Extractors
  <2>. QED
    BY <2>1, <2>2
<1>. QED
  BY <1>1, <1>2, <1>3, PTL DEF Spec
==============================================================================
