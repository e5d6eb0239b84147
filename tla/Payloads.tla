------------------------------- MODULE Payloads -------------------------------
(***************************************************************************)
(* What capture files and the packets in them say, told from their bytes   *)
(* alone and not by the reader, the parser and the extractors of Dissector *)
(* that have to find it out.                                               *)
(***************************************************************************)
EXTENDS Integers, Sequences

Bytes == 0 .. 255
Words == [1 .. 4 -> Bytes]  \* uint32_t as in memory, low byte first
Value(w) == w[1] + 256 * (w[2] + 256 * (w[3] + 256 * w[4]))

\* What a length in a file is, by the byte order that its magic number tells.
Plain(f, w) ==
    IF f.magic = "swapped" THEN Value(<<w[4], w[3], w[2], w[1]>>) ELSE Value(w)

\* A record of a file: the length it claims and its bytes.  The rest is what
\* they mean: the kind of traffic, the places of the fields before the name,
\* the name, as the spans <<start, length>> it is made of (one for a server
\* name or a host, one per label for DNS), and how many bytes hold all of it.
\* Of a packet of unknown kind nothing is said.
Kinds == {"tls", "http", "dns", "other", "unknown"}
PcapRecord ==
    [claim : Words, bytes : Seq(Bytes), kind : Kinds,
     path : Seq(Nat), name : Seq(Nat \X Nat), whole : Nat]

-----------------------------------------------------------------------------
(* Headers. *)

Field(b, i) == b[i + 1]
Field16(b, i) == 256 * Field(b, i) + Field(b, i + 1)

\* A packet of TCP or UDP over IPv4 whose headers are complete.
TransportAt(b) == 14 + 4 * (Field(b, 14) % 16)
HeaderEnd(b) ==
    LET t == TransportAt(b)
    IN  IF Field(b, 23) = 6 THEN t + 4 * (Field(b, t + 12) \div 16) ELSE t + 8
Inspectable(b) ==
    /\ Len(b) >= 34
    /\ Field(b, 12) = 8 /\ Field(b, 13) = 0
    /\ Field(b, 14) \in 69 .. 79
    /\ LET t == TransportAt(b) IN
       \/ /\ Field(b, 23) = 6
          /\ Len(b) >= t + 20
          /\ Field(b, t + 12) \div 16 >= 5
          /\ Len(b) >= HeaderEnd(b)
       \/ Field(b, 23) = 17 /\ Len(b) >= t + 8

From(b) == Field16(b, TransportAt(b))
To(b) == Field16(b, TransportAt(b) + 2)

-----------------------------------------------------------------------------
(* Names.  A packet that was cut short says what is left of it. *)

\* A server name extension that ends in the packet.
ServerNameAt(b, c) ==
    LET extLen == Field16(b, c + 2) IN
    /\ c + 9 <= Len(b)
    /\ Field16(b, c) = 0
    /\ extLen >= 5 /\ c + 4 + extLen <= Len(b)
    /\ Field16(b, c + 4) >= 3 /\ Field(b, c + 6) = 0
    /\ Field16(b, c + 7) <= extLen - 5

\* A hello: path leads from the session id over the cipher suites, the
\* compression methods, the list of extensions and each of them to the server
\* name.
ServerNameIn(r) ==
    LET b == r.bytes
        p == HeaderEnd(b)
        path == r.path
        last == Len(path)
        c == path[last]
        n == r.name[1][2]
    IN
    /\ To(b) = 443 /\ From(b) # 53
    /\ last >= 5 /\ \A i \in DOMAIN path : path[i] <= c
    /\ path[1] = p + 43
    /\ path[1] + 1 <= Len(b) => path[2] = path[1] + 1 + Field(b, path[1])
    /\ path[2] + 2 <= Len(b) => path[3] = path[2] + 2 + Field16(b, path[2])
    /\ path[3] + 1 <= Len(b) => path[4] = path[3] + 1 + Field(b, path[3])
    /\ path[5] = path[4] + 2
    /\ \A i \in 5 .. last - 1 : path[i] + 4 <= Len(b) =>
          /\ Field16(b, path[i]) # 0
          /\ path[i + 1] = path[i] + 4 + Field16(b, path[i] + 2)
    /\ r.name = << <<c + 9, n>> >>
    /\ c + 4 <= Len(b) => Field16(b, c) = 0
    /\ c + 9 <= Len(b) => Field16(b, c + 7) = n
    /\ Len(b) >= r.whole =>
          /\ ServerNameAt(b, c)
          /\ path[5] + Field16(b, path[4]) >= c + 4 + Field16(b, c + 2)
          /\ Field(b, p) = 22 /\ Field(b, p + 5) = 1
          /\ Field16(b, p + 1) \in 768 .. 772
          /\ p + 5 + Field16(b, p + 3) <= Len(b)

\* "GET ", "POST", "PUT ", "HEAD", "DELE", "PATC", "OPTI"
Methods == { <<71, 69, 84, 32>>, <<80, 79, 83, 84>>, <<80, 85, 84, 32>>,
             <<72, 69, 65, 68>>, <<68, 69, 76, 69>>, <<80, 65, 84, 67>>,
             <<79, 80, 84, 73>> }

\* "host:"
HostAt(b, i) ==
    /\ i + 5 <= Len(b)
    /\ Field(b, i) \in {72, 104}
    /\ Field(b, i + 1) \in {79, 111}
    /\ Field(b, i + 2) \in {83, 115}
    /\ Field(b, i + 3) \in {84, 116}
    /\ Field(b, i + 4) = 58

\* A request: path leads to the header for the host, the first line among the
\* headers that begins with "host:"; a line or a port follows the name.
HostIn(r) ==
    LET b == r.bytes
        p == HeaderEnd(b)
        h == r.path[1]
        s == r.name[1][1]
        n == r.name[1][2]
        Left(from, to) == {i \in from .. to : i < Len(b)}
    IN
    /\ To(b) = 80 /\ From(b) # 53
    /\ Len(b) >= p + 4 => [i \in 1 .. 4 |-> Field(b, p + i - 1)] \in Methods
    /\ Len(r.path) = 1 /\ h >= p + 4
    /\ h <= Len(b) => Field(b, h - 1) = 10
    /\ \A i \in Left(p, h - 1) : Field(b, i - 1) = 10 =>
          ~HostAt(b, i) /\ Field(b, i) \notin {13, 10}
    /\ h + 5 <= Len(b) => HostAt(b, h)
    /\ r.name = << <<s, n>> >> /\ s >= h + 5 /\ n > 0
    /\ \A i \in Left(h + 5, s - 1) : Field(b, i) \in {32, 9}
    /\ s < Len(b) => Field(b, s) \notin {32, 9}
    /\ \A i \in Left(s, s + n - 1) : Field(b, i) \notin {13, 10, 58}
    /\ s + n < Len(b) => Field(b, s + n) \in {13, 10, 58}
    /\ r.whole > s + n

\* The request does not say "host:" before that header, neither in the line of
\* the request nor in another header, as in "X-Forwarded-Host:".
HostFirst(r) ==
    \A i \in HeaderEnd(r.bytes) .. r.path[1] - 1 : ~HostAt(r.bytes, i)

\* A query, that does not begin like a hello or a request.
QueryAt(b) ==
    LET p == HeaderEnd(b) IN
    /\ 53 \in {From(b), To(b)}
    /\ Len(b) >= p + 12 => Field(b, p + 2) < 128 /\ Field16(b, p + 4) # 0
LabelsIn(r) ==
    LET b == r.bytes
        p == HeaderEnd(b)
        name == r.name
        After(i) == name[i][1] + name[i][2]
        stop == After(Len(name))
    IN
    /\ QueryAt(b)
    /\ Len(b) > p => Field(b, p) \notin {22, 71, 80, 72, 68, 79}
    /\ Len(name) > 0 /\ name[1][1] = p + 13
    /\ \A i \in DOMAIN name :
          /\ name[i][2] \in 1 .. 63 /\ After(i) <= stop
          /\ name[i][1] <= Len(b) => Field(b, name[i][1] - 1) = name[i][2]
          /\ i < Len(name) => name[i + 1][1] = After(i) + 1
    /\ stop < Len(b) => Field(b, stop) = 0
    /\ r.whole > stop

\* Nothing that could be taken for a name.
NothingIn(r) ==
    LET b == r.bytes
        p == HeaderEnd(b)
        first == Field(b, p + 12)
    IN
    /\ r.name = <<>>
    /\ \A i \in p .. Len(b) : ~ServerNameAt(b, i) /\ ~HostAt(b, i)
    /\ QueryAt(b) /\ Len(b) > p + 12 =>
          first = 0 \/ first > 63 \/ p + 13 + first > Len(b)

Means(r) ==
    Inspectable(r.bytes) =>
        /\ r.kind = "tls" => ServerNameIn(r)
        /\ r.kind = "http" => HostIn(r)
        /\ r.kind = "dns" => LabelsIn(r)
        /\ r.kind = "other" => NothingIn(r)
=============================================================================
