----------------------- MODULE EngineRefinement_proof -----------------------
(***************************************************************************)
(* Theorems about Engine beside two simpler descriptions of it: to every   *)
(* flow it is a FlowChannel, and what it writes and reports is what the    *)
(* single-threaded program does with the same capture (SameVerdicts).      *)
(***************************************************************************)
EXTENDS Engine_proof, SameVerdicts

-----------------------------------------------------------------------------
(* The engine is a FlowChannel to every flow.  What a flow has in the      *)
(* queues and the hands, selected from left to right, is its channel; a     *)
(* selection from a concatenation is the concatenation of the selections.   *)

\* Concatenation and the sequence of one packet, by name: the provers spell out
\* \o and <<x>> element by element.
Glue(s, t) == s \o t
Unit(x) == <<x>>

\* Its type.
LEMMA GlueType ==
    ASSUME NEW S, NEW a \in Seq(S), NEW b \in Seq(S)
    PROVE  Glue(a, b) \in Seq(S)
  BY DEF Glue

\* The empty sequence adds nothing.
LEMMA GlueNone ==
    ASSUME NEW S, NEW a \in Seq(S)
    PROVE  Glue(a, <<>>) = a /\ Glue(<<>>, a) = a
  BY DEF Glue

\* Grouping does not matter.
LEMMA GlueAssoc ==
    ASSUME NEW S, NEW a \in Seq(S), NEW b \in Seq(S), NEW d \in Seq(S)
    PROVE  Glue(Glue(a, b), d) = Glue(a, Glue(b, d))
  BY ConcatAssociative DEF Glue

\* The type of short sequences.
LEMMA UnitType ==
    ASSUME NEW S, NEW x \in S
    PROVE  Unit(x) \in Seq(S) /\ <<>> \in Seq(S)
  BY DEF Unit

\* Append is to glue one packet on; head and tail undo gluing before.
LEMMA GlueUnit ==
    ASSUME NEW S, NEW a \in Seq(S), NEW x \in S
    PROVE  /\ Append(a, x) = Glue(a, Unit(x))
           /\ Head(Glue(Unit(x), a)) = x /\ Tail(Glue(Unit(x), a)) = a
           /\ Glue(Unit(x), a) # <<>>
  BY DEF Glue, Unit

\* A sequence that is not empty is its head glued before its tail.
LEMMA GlueHead ==
    ASSUME NEW S, NEW a \in Seq(S), a # <<>>
    PROVE  Head(a) \in S /\ Tail(a) \in Seq(S) /\ a = Glue(Unit(Head(a)), Tail(a))
  BY DEF Glue, Unit

\* The packets of a flow in a sequence, for a capture that does not change.
Select(c, s, f) ==
    LET upTo[n \in 0 .. Len(s)] ==
            IF n = 0 THEN <<>>
            ELSE IF c[s[n]].flow = f THEN Append(upTo[n - 1], s[n])
            ELSE upTo[n - 1]
    IN upTo[Len(s)]
\* h selects the packets of flow f from every prefix of s.
Selects(c, s, f, h) ==
    h = [n \in 0 .. Len(s) |->
            IF n = 0 THEN <<>>
            ELSE IF c[s[n]].flow = f THEN Append(h[n - 1], s[n])
            ELSE h[n - 1]]

\* There is a function that selects, from the left.
LEMMA SelectsSome ==
    ASSUME NEW S, NEW c, NEW s \in Seq(S), NEW f
    PROVE  \E h \in [0 .. Len(s) -> Seq(S)] : Selects(c, s, f, h)
<1>. DEFINE Upto(n, h) ==
                /\ h \in [0 .. n -> Seq(S)]
                /\ \A m \in 0 .. n :
                       h[m] = IF m = 0 THEN <<>>
                              ELSE IF c[s[m]].flow = f THEN Append(h[m - 1], s[m])
                              ELSE h[m - 1]
            Bad == {n \in 0 .. Len(s) : ~\E h : Upto(n, h)}
<1>1. Bad = {}
  <2>1. SUFFICES ASSUME Bad # {} PROVE FALSE
    OBVIOUS
  <2>2. PICK n \in Bad : \A m \in Bad : n =< m
    <3>1. Bad \in SUBSET Nat
      OBVIOUS
    <3>. HIDE DEF Bad
    <3>. QED
      BY <2>1, <3>1, LeastNumber
  <2>3. n # 0
    <3>1. Upto(0, [m \in 0 .. 0 |-> <<>>])
      OBVIOUS
    <3>. QED
      BY <3>1
  <2>4. n - 1 \in 0 .. Len(s) /\ n \in 1 .. Len(s) /\ n - 1 \notin Bad
    <3>1. n \in 0 .. Len(s) /\ Len(s) \in Nat
      OBVIOUS
    <3>. HIDE DEF Bad
    <3>2. n - 1 \in 0 .. Len(s) /\ n \in 1 .. Len(s) /\ ~(n =< n - 1)
      BY <2>3, <3>1
    <3>. QED
      BY <2>2, <3>2
  <2>5. PICK h : Upto(n - 1, h)
    BY <2>4
  <2>. DEFINE next == IF c[s[n]].flow = f THEN Append(h[n - 1], s[n]) ELSE h[n - 1]
              g == [m \in 0 .. n |-> IF m = n THEN next ELSE h[m]]
  <2>6. next \in Seq(S)
    BY <2>4, <2>5
  <2>7. g \in [0 .. n -> Seq(S)] /\ g[n] = next /\ \A m \in 0 .. n - 1 : g[m] = h[m]
    <3>1. h \in [0 .. n - 1 -> Seq(S)]
      BY <2>5
    <3>2. n \in Nat /\ \A m \in 0 .. n : m # n => m \in 0 .. n - 1
      BY <2>4
    <3>. HIDE DEF next
    <3>. QED
      BY <2>4, <2>6, <3>1, <3>2
  <2>. HIDE DEF g
  <2>8. ASSUME NEW m \in 0 .. n
        PROVE  g[m] = IF m = 0 THEN <<>>
                      ELSE IF c[s[m]].flow = f THEN Append(g[m - 1], s[m])
                      ELSE g[m - 1]
    <3>1. CASE m = n
      BY <2>4, <2>7, <3>1
    <3>2. CASE m # n /\ m = 0
      BY <2>4, <2>5, <2>7, <3>2
    <3>3. CASE m # n /\ m # 0
      <4>1. m \in 0 .. n - 1 /\ m - 1 \in 0 .. n - 1
        BY <2>4, <3>3
      <4>2. g[m] = h[m] /\ g[m - 1] = h[m - 1]
        BY <2>7, <4>1
      <4>. QED
        BY <2>5, <3>3, <4>1, <4>2
    <3>. QED
      BY <3>1, <3>2, <3>3
  <2>9. Upto(n, g)
    BY <2>7, <2>8
  <2>. QED
    BY <2>2, <2>9
<1>2. Len(s) \in 0 .. Len(s)
  OBVIOUS
<1>3. PICK h : Upto(Len(s), h)
  BY <1>1, <1>2
<1>. QED
  BY <1>3 DEF Selects

\* There is only one.
LEMMA SelectsOne ==
    ASSUME NEW S, NEW c, NEW s \in Seq(S), NEW f, NEW g, NEW h,
           Selects(c, s, f, g), Selects(c, s, f, h)
    PROVE  \A n \in 0 .. Len(s) : g[n] = h[n]
<1>. DEFINE Bad == {n \in 0 .. Len(s) : g[n] # h[n]}
<1>1. SUFFICES ASSUME Bad # {} PROVE FALSE
  OBVIOUS
<1>2. PICK n \in Bad : \A m \in Bad : n =< m
  <2>1. Bad \in SUBSET Nat
    OBVIOUS
  <2>. HIDE DEF Bad
  <2>. QED
    BY <1>1, <2>1, LeastNumber
<1>3. \A m \in 0 .. Len(s) :
          /\ g[m] = IF m = 0 THEN <<>>
                    ELSE IF c[s[m]].flow = f THEN Append(g[m - 1], s[m]) ELSE g[m - 1]
          /\ h[m] = IF m = 0 THEN <<>>
                    ELSE IF c[s[m]].flow = f THEN Append(h[m - 1], s[m]) ELSE h[m - 1]
  BY Zenon DEF Selects
<1>4. n # 0
  BY <1>2, <1>3
<1>5. n - 1 \in 0 .. Len(s) /\ n - 1 \notin Bad
  BY <1>2, <1>4
<1>. QED
  BY <1>2, <1>3, <1>4, <1>5

\* It gives the selection.
LEMMA Selection ==
    ASSUME NEW S, NEW c, NEW s \in Seq(S), NEW f, NEW h, Selects(c, s, f, h)
    PROVE  Select(c, s, f) = h[Len(s)]
<1>1. PICK g : Selects(c, s, f, g) /\ Select(c, s, f) = g[Len(s)]
  BY Zenon DEF Select, Selects
<1>2. Len(s) \in 0 .. Len(s)
  OBVIOUS
<1>. QED
  BY <1>1, <1>2, SelectsOne

\* What is selected from nothing, from one packet, and from two sequences.
LEMMA SelectNone ==
    ASSUME NEW c, NEW f
    PROVE  Select(c, <<>>, f) = <<>>
<1>. DEFINE h == [n \in 0 .. 0 |-> <<>>]
<1>1. Selects(c, <<>>, f, h)
  BY DEF Selects
<1>2. Select(c, <<>>, f) = h[0]
  <2>1. <<>> \in Seq({}) /\ Len(<<>>) = 0
    OBVIOUS
  <2>. HIDE DEF h
  <2>. QED
    BY <1>1, <2>1, Selection
<1>. QED
  BY <1>2

\* A selection is a sequence of the same packets.
LEMMA SelectType ==
    ASSUME NEW S, NEW c, NEW s \in Seq(S), NEW f
    PROVE  Select(c, s, f) \in Seq(S)
<1>1. PICK h \in [0 .. Len(s) -> Seq(S)] : Selects(c, s, f, h)
  BY SelectsSome
<1>2. Len(s) \in 0 .. Len(s) /\ Select(c, s, f) = h[Len(s)]
  BY <1>1, Selection
<1>. QED
  BY <1>2

\* Selecting from a longer sequence.
LEMMA SelectAppend ==
    ASSUME NEW S, NEW c, NEW s \in Seq(S), NEW x \in S, NEW f
    PROVE  Select(c, Append(s, x), f) =
               IF c[x].flow = f THEN Append(Select(c, s, f), x) ELSE Select(c, s, f)
<1>1. PICK h \in [0 .. Len(s) -> Seq(S)] : Selects(c, s, f, h)
  BY SelectsSome
<1>2. Select(c, s, f) = h[Len(s)]
  BY <1>1, Selection
<1>. DEFINE t == Append(s, x)
            new == IF c[x].flow = f THEN Append(h[Len(s)], x) ELSE h[Len(s)]
            g == [n \in 0 .. Len(t) |-> IF n = Len(t) THEN new ELSE h[n]]
<1>3. /\ t \in Seq(S) /\ Len(t) = Len(s) + 1 /\ t[Len(t)] = x
      /\ \A n \in 1 .. Len(s) : t[n] = s[n]
  OBVIOUS
<1>. HIDE DEF new, t
<1>4. g[Len(t)] = new /\ \A n \in 0 .. Len(s) : g[n] = h[n]
  BY <1>3
<1>. HIDE DEF g
<1>5. ASSUME NEW n \in 0 .. Len(t)
      PROVE  g[n] = IF n = 0 THEN <<>>
                    ELSE IF c[t[n]].flow = f THEN Append(g[n - 1], t[n]) ELSE g[n - 1]
  <2>1. \A m \in 0 .. Len(s) :
            h[m] = IF m = 0 THEN <<>>
                   ELSE IF c[s[m]].flow = f THEN Append(h[m - 1], s[m]) ELSE h[m - 1]
    BY <1>1, Zenon DEF Selects
  <2>2. CASE n = Len(t)
    BY <1>3, <1>4, <2>2 DEF new
  <2>3. CASE n = 0
    BY <1>3, <1>4, <2>1, <2>3
  <2>4. CASE n # Len(t) /\ n # 0
    <3>1. n \in 0 .. Len(s) /\ n - 1 \in 0 .. Len(s) /\ n \in 1 .. Len(s)
      BY <1>3, <2>4
    <3>2. g[n] = h[n] /\ g[n - 1] = h[n - 1] /\ t[n] = s[n]
      BY <1>3, <1>4, <3>1
    <3>. QED
      BY <2>1, <2>4, <3>1, <3>2
  <2>. QED
    BY <2>2, <2>3, <2>4
<1>6. Selects(c, t, f, g)
  BY <1>5 DEF Selects, g
<1>7. Select(c, t, f) = g[Len(t)]
  BY <1>3, <1>6, Selection
<1>. QED
  BY <1>2, <1>4, <1>7 DEF t, new

\* What one packet contributes to the selection.
Chosen(c, x, f) == IF c[x].flow = f THEN Unit(x) ELSE <<>>

\* Its type.
LEMMA ChosenType ==
    ASSUME NEW S, NEW c, NEW x \in S, NEW f
    PROVE  Chosen(c, x, f) \in Seq(S)
  BY DEF Chosen, Unit

\* SelectAppend by gluing.
LEMMA SelectPut ==
    ASSUME NEW S, NEW c, NEW s \in Seq(S), NEW x \in S, NEW f
    PROVE  Select(c, Glue(s, Unit(x)), f) = Glue(Select(c, s, f), Chosen(c, x, f))
<1>. DEFINE b == Select(c, s, f)
<1>1. b \in Seq(S)
  BY SelectType
<1>2. Append(s, x) = Glue(s, Unit(x))
  BY GlueUnit
<1>3. Select(c, Append(s, x), f) = IF c[x].flow = f THEN Append(b, x) ELSE b
  BY SelectAppend
<1>. HIDE DEF b
<1>4. Append(b, x) = Glue(b, Unit(x)) /\ b = Glue(b, <<>>)
  BY <1>1, GlueUnit, GlueNone
<1>5. Select(c, Glue(s, Unit(x)), f) = Glue(b, Chosen(c, x, f))
  BY <1>2, <1>3, <1>4, Zenon DEF Chosen
<1>. QED
  BY <1>5 DEF b

\* The step of SelectGlue.
LEMMA SelectStep ==
    ASSUME NEW S, NEW c, NEW s \in Seq(S), NEW u \in Seq(S), NEW x \in S, NEW f,
           Select(c, Glue(s, u), f) = Glue(Select(c, s, f), Select(c, u, f))
    PROVE  Select(c, Glue(s, Glue(u, Unit(x))), f) =
               Glue(Select(c, s, f), Select(c, Glue(u, Unit(x)), f))
<1>1. /\ Glue(s, u) \in Seq(S) /\ Unit(x) \in Seq(S)
      /\ Select(c, s, f) \in Seq(S) /\ Select(c, u, f) \in Seq(S)
      /\ Chosen(c, x, f) \in Seq(S)
  BY GlueType, UnitType, SelectType, ChosenType
<1>2. Glue(s, Glue(u, Unit(x))) = Glue(Glue(s, u), Unit(x))
  BY <1>1, GlueAssoc
<1>3. Select(c, Glue(Glue(s, u), Unit(x)), f)
          = Glue(Select(c, Glue(s, u), f), Chosen(c, x, f))
  BY <1>1, SelectPut
<1>4. Select(c, Glue(u, Unit(x)), f) = Glue(Select(c, u, f), Chosen(c, x, f))
  BY <1>1, SelectPut
<1>5. Glue(Glue(Select(c, s, f), Select(c, u, f)), Chosen(c, x, f))
          = Glue(Select(c, s, f), Glue(Select(c, u, f), Chosen(c, x, f)))
  BY <1>1, GlueAssoc
<1>. QED
  BY <1>2, <1>3, <1>4, <1>5, Zenon

\* The selection from a concatenation is the concatenation of the selections:
\* the shortest prefix of t for which it were not has a shorter one.
LEMMA SelectGlue ==
    ASSUME NEW S, NEW c, NEW s \in Seq(S), NEW t \in Seq(S), NEW f
    PROVE  Select(c, Glue(s, t), f) = Glue(Select(c, s, f), Select(c, t, f))
<1>. DEFINE Part(n) == SubSeq(t, 1, n)
            Good(n) == Select(c, Glue(s, Part(n)), f)
                           = Glue(Select(c, s, f), Select(c, Part(n), f))
            Bad == {n \in 0 .. Len(t) : ~Good(n)}
<1>0. Len(t) \in Nat
  OBVIOUS
<1>1. Good(0)
  <2>1. Part(0) = <<>>
    OBVIOUS
  <2>. HIDE DEF Part
  <2>2. Glue(s, <<>>) = s /\ Glue(Select(c, s, f), <<>>) = Select(c, s, f)
    BY SelectType, GlueNone
  <2>. QED
    BY <2>1, <2>2, SelectNone, Zenon
<1>2. ASSUME NEW n \in 1 .. Len(t), Good(n - 1) PROVE Good(n)
  <2>1. /\ Part(n - 1) \in Seq(S) /\ t[n] \in S
        /\ Part(n) = Append(Part(n - 1), t[n])
    OBVIOUS
  <2>2. PICK u, x : u = Part(n - 1) /\ x = t[n]
    OBVIOUS
  <2>. HIDE DEF Part
  <2>3. u \in Seq(S) /\ x \in S
    BY <2>1, <2>2
  <2>4. Part(n) = Glue(u, Unit(x))
    <3>1. Append(u, x) = Glue(u, Unit(x))
      BY <2>3, GlueUnit
    <3>. QED
      BY <2>1, <2>2, <3>1, Zenon
  <2>5. Select(c, Glue(s, u), f) = Glue(Select(c, s, f), Select(c, u, f))
    BY <1>2, <2>2, Zenon
  <2>6. Select(c, Glue(s, Glue(u, Unit(x))), f)
            = Glue(Select(c, s, f), Select(c, Glue(u, Unit(x)), f))
    BY <2>3, <2>5, SelectStep
  <2>. QED
    BY <2>4, <2>6, Zenon
<1>. HIDE DEF Good
<1>3. Bad = {}
  <2>1. SUFFICES ASSUME Bad # {} PROVE FALSE
    OBVIOUS
  <2>2. Bad \in SUBSET Nat
    OBVIOUS
  <2>3. PICK n \in Bad : \A m \in Bad : n =< m
    <3>. HIDE DEF Bad
    <3>. QED
      BY <2>1, <2>2, LeastNumber
  <2>4. n \in 0 .. Len(t) /\ ~Good(n)
    OBVIOUS
  <2>5. n - 1 \in 0 .. Len(t) /\ n \in 1 .. Len(t)
    BY <1>0, <1>1, <2>4
  <2>6. Good(n - 1)
    BY <1>0, <2>3, <2>5
  <2>. QED
    BY <1>2, <2>4, <2>5, <2>6
<1>4. Good(Len(t))
  BY <1>0, <1>3
<1>5. Part(Len(t)) = t
  OBVIOUS
<1>. HIDE DEF Part
<1>. QED
  BY <1>4, <1>5, Zenon DEF Good

\* The selection from one packet.
LEMMA SelectUnit ==
    ASSUME NEW S, NEW c, NEW x \in S, NEW f
    PROVE  Select(c, Unit(x), f) = Chosen(c, x, f)
<1>1. <<>> \in Seq(S) /\ Unit(x) \in Seq(S) /\ Chosen(c, x, f) \in Seq(S)
  BY UnitType, ChosenType
<1>2. Select(c, Glue(<<>>, Unit(x)), f) = Glue(Select(c, <<>>, f), Chosen(c, x, f))
  BY <1>1, SelectPut
<1>3. Glue(<<>>, Unit(x)) = Unit(x) /\ Glue(<<>>, Chosen(c, x, f)) = Chosen(c, x, f)
  BY <1>1, GlueNone
<1>. QED
  BY <1>2, <1>3, SelectNone, Zenon

\* A packet more at the end, and one less at the front.
LEMMA SelectMore ==
    ASSUME NEW S, NEW c, NEW s \in Seq(S), NEW x \in S, NEW f
    PROVE  Select(c, Append(s, x), f) = Glue(Select(c, s, f), Chosen(c, x, f))
<1>1. Append(s, x) = Glue(s, Unit(x))
  BY GlueUnit
<1>2. Select(c, Glue(s, Unit(x)), f) = Glue(Select(c, s, f), Chosen(c, x, f))
  BY SelectPut
<1>. QED
  BY <1>1, <1>2, Zenon

\* The selection from a sequence, by its head and its tail.
LEMMA SelectLess ==
    ASSUME NEW S, NEW c, NEW s \in Seq(S), s # <<>>, NEW f
    PROVE  Select(c, s, f) = Glue(Chosen(c, Head(s), f), Select(c, Tail(s), f))
<1>1. Head(s) \in S /\ Tail(s) \in Seq(S) /\ s = Glue(Unit(Head(s)), Tail(s))
  BY GlueHead
<1>2. PICK x, t : x = Head(s) /\ t = Tail(s)
  OBVIOUS
<1>3. x \in S /\ t \in Seq(S) /\ Unit(x) \in Seq(S)
  BY <1>1, <1>2, UnitType
<1>4. Select(c, Glue(Unit(x), t), f) = Glue(Select(c, Unit(x), f), Select(c, t, f))
  BY <1>3, SelectGlue
<1>5. Select(c, Unit(x), f) = Chosen(c, x, f)
  BY <1>3, SelectUnit
<1>6. s = Glue(Unit(x), t)
  BY <1>1, <1>2, Zenon
<1>. QED
  BY <1>2, <1>4, <1>5, <1>6, Zenon

-----------------------------------------------------------------------------
(* The pieces the channel of a flow is made of. *)

\* Named for where the packets are, from the reader to the file.
QueuedLB(f) == OfFlow(queue[SelectLB(f)], f)
HeldLB(f) == OfFlow(Held(SelectLB(f), "push"), f)
QueuedFP(f) == OfFlow(queue[Home(f)], f)
HeldFP(f) == OfFlow(Held(Home(f), "inspect"), f)
Leaving(f) == OfFlow(Held(Home(f), "push"), f)
QueuedOut(f) == OfFlow(queue[Writer], f)
Arrived(f) == OfFlow(written, f)

\* The same, of a capture, the queues, the places and the hands.
Queued(c, q, t, f) == Select(c, q[t], f)
\* The packet in the hands of t at a place.
InHand(c, p, h, t, place, f) ==
    IF p[t] = place THEN Chosen(c, h[t], f) ELSE <<>>

\* Held and InHand are the same.
LEMMA HeldIs ==
    ASSUME NEW S, NEW t, NEW place, NEW f, pc[t] = place => hand[t] \in S
    PROVE  /\ Held(t, place) \in Seq(S)
           /\ Select(capture, Held(t, place), f)
                  = InHand(capture, pc, hand, t, place, f)
<1>1. CASE pc[t] = place
  <2>1. Held(t, place) = Unit(hand[t]) /\ hand[t] \in S
    BY <1>1 DEF Unit, Held
  <2>2. Select(capture, Unit(hand[t]), f) = Chosen(capture, hand[t], f)
    BY <2>1, SelectUnit
  <2>3. Unit(hand[t]) \in Seq(S)
    BY <2>1, UnitType
  <2>. QED
    BY <1>1, <2>1, <2>2, <2>3, Zenon DEF InHand
<1>2. CASE pc[t] # place
  BY <1>2, SelectNone DEF InHand, Held
<1>. QED
  BY <1>1, <1>2

\* What is selected from four sequences in a row.
LEMMA SelectTwo ==
    ASSUME NEW S, NEW c, NEW f, NEW i \in Seq(S), NEW j \in Seq(S)
    PROVE  Select(c, i \o j, f) = Glue(Select(c, i, f), Select(c, j, f))
<1>1. i \o j = Glue(i, j)
  BY Zenon DEF Glue
<1>2. Select(c, Glue(i, j), f) = Glue(Select(c, i, f), Select(c, j, f))
  BY SelectGlue
<1>. QED
  BY <1>1, <1>2, Zenon

\* The selection from four sequences.
LEMMA SelectFour ==
    ASSUME NEW S, NEW c, NEW f, NEW i \in Seq(S), NEW j \in Seq(S),
           NEW k \in Seq(S), NEW l \in Seq(S)
    PROVE  Select(c, i \o j \o k \o l, f) =
                  Glue(Glue(Glue(Select(c, i, f), Select(c, j, f)),
                            Select(c, k, f)), Select(c, l, f))
<1>1. i \o j = Glue(i, j) /\ i \o j \o k \o l = Glue(Glue(Glue(i, j), k), l)
  BY Zenon DEF Glue
<1>2. Glue(i, j) \in Seq(S) /\ Glue(Glue(i, j), k) \in Seq(S)
  BY GlueType
<1>3. Select(c, Glue(i, j), f) = Glue(Select(c, i, f), Select(c, j, f))
  BY SelectGlue
<1>4. Select(c, Glue(Glue(i, j), k), f)
          = Glue(Select(c, Glue(i, j), f), Select(c, k, f))
  BY <1>2, SelectGlue
<1>5. Select(c, Glue(Glue(Glue(i, j), k), l), f)
          = Glue(Select(c, Glue(Glue(i, j), k), f), Select(c, l, f))
  BY <1>2, SelectGlue
<1>. QED
  BY <1>1, <1>3, <1>4, <1>5, Zenon

\* The flow's packets as Engine has them.
LEMMA Selected ==
    ASSUME NEW s, NEW f
    PROVE  OfFlow(s, f) = Select(capture, s, f)
  BY DEF OfFlow, Select, Flow

\* A row of four sequences.
Row(i, j, k, l) == Glue(Glue(Glue(i, j), k), l)

\* A packet that moves from one of the four to the one before it leaves the row
\* as it is; one that leaves at the left or joins at the right is the row's.
LEMMA RowShifts ==
    ASSUME NEW S, NEW i \in Seq(S), NEW j \in Seq(S), NEW k \in Seq(S),
           NEW l \in Seq(S), NEW x \in Seq(S)
    PROVE  /\ Row(i, j, k, l) \in Seq(S)
           /\ Row(i, j, <<>>, Glue(x, l)) = Row(i, j, x, l)
           /\ Row(i, Glue(j, x), <<>>, l) = Row(i, j, x, l)
           /\ Row(<<>>, Glue(x, j), k, l) = Row(x, j, k, l)
           /\ Row(x, j, k, l) = Glue(x, Row(<<>>, j, k, l))
           /\ Row(i, j, k, Glue(l, x)) = Glue(Row(i, j, k, l), x)
<1>1. /\ Glue(i, j) \in Seq(S) /\ Glue(j, x) \in Seq(S) /\ Glue(x, j) \in Seq(S)
      /\ Glue(j, k) \in Seq(S)
      /\ Glue(Glue(i, j), k) \in Seq(S) /\ Glue(Glue(i, j), x) \in Seq(S)
      /\ Row(i, j, k, l) \in Seq(S)
  BY GlueType DEF Row
<1>2. Row(i, j, <<>>, Glue(x, l)) = Row(i, j, x, l)
  <2>1. Glue(Glue(i, j), <<>>) = Glue(i, j)
    BY <1>1, GlueNone
  <2>2. Glue(Glue(i, j), Glue(x, l)) = Glue(Glue(Glue(i, j), x), l)
    BY <1>1, GlueAssoc
  <2>. QED
    BY <2>1, <2>2, Zenon DEF Row
<1>3. Row(i, Glue(j, x), <<>>, l) = Row(i, j, x, l)
  <2>1. Glue(i, Glue(j, x)) = Glue(Glue(i, j), x)
    BY GlueAssoc
  <2>2. Glue(Glue(i, Glue(j, x)), <<>>) = Glue(i, Glue(j, x))
    BY <1>1, <2>1, GlueNone
  <2>. QED
    BY <2>1, <2>2, Zenon DEF Row
<1>4. Row(<<>>, Glue(x, j), k, l) = Row(x, j, k, l)
  <2>1. Glue(<<>>, Glue(x, j)) = Glue(x, j)
    BY <1>1, GlueNone
  <2>. QED
    BY <2>1, Zenon DEF Row
<1>5. Row(x, j, k, l) = Glue(x, Row(<<>>, j, k, l))
  <2>1. Glue(<<>>, j) = j
    BY GlueNone
  <2>2. Glue(Glue(x, j), k) = Glue(x, Glue(j, k))
    BY GlueAssoc
  <2>3. Glue(Glue(x, Glue(j, k)), l) = Glue(x, Glue(Glue(j, k), l))
    BY <1>1, GlueAssoc
  <2>. QED
    BY <2>1, <2>2, <2>3, Zenon DEF Row
<1>6. Row(i, j, k, Glue(l, x)) = Glue(Row(i, j, k, l), x)
  <2>1. Glue(Glue(Glue(Glue(i, j), k), l), x) = Glue(Glue(Glue(i, j), k), Glue(l, x))
    BY <1>1, GlueAssoc
  <2>. QED
    BY <2>1, Zenon DEF Row
<1>. QED
  BY <1>1, <1>2, <1>3, <1>4, <1>5, <1>6

\* What the channel of f is made of.
Built(f) ==
    LET c == capture
        lb == SelectLB(f)
        fp == Home(f)
    IN
    /\ QueuedLB(f) = Queued(c, queue, lb, f)
    /\ HeldLB(f) = InHand(c, pc, hand, lb, "push", f)
    /\ QueuedFP(f) = Queued(c, queue, fp, f)
    /\ HeldFP(f) = InHand(c, pc, hand, fp, "inspect", f)
    /\ Leaving(f) = InHand(c, pc, hand, fp, "push", f)
    /\ QueuedOut(f) = Queued(c, queue, Writer, f)
    /\ Arrived(f) = Select(c, written, f)
    /\ FlowPending(f) = Row(HeldFP(f), QueuedFP(f), HeldLB(f), QueuedLB(f))
    /\ FlowTransit(f) = Glue(QueuedOut(f), Leaving(f))
\* The pieces are sequences of packets.
Typed(f) ==
    /\ QueuedLB(f) \in Seq(Ids) /\ HeldLB(f) \in Seq(Ids)
    /\ QueuedFP(f) \in Seq(Ids) /\ HeldFP(f) \in Seq(Ids)
    /\ Leaving(f) \in Seq(Ids) /\ QueuedOut(f) \in Seq(Ids)
    /\ Arrived(f) \in Seq(Ids)

\* Every channel is made of them.
LEMMA Pieces ==
    ASSUME TypeOK, NEW f \in Flows
    PROVE  Built(f) /\ Typed(f)
<1>. DEFINE c == capture
            lb == SelectLB(f)
            fp == Home(f)
<1>1. lb \in Threads /\ fp \in Threads /\ Writer \in Threads
  BY Routing, Apart DEF Home
<1>2. /\ queue[lb] \in Seq(Ids) /\ queue[fp] \in Seq(Ids)
      /\ queue[Writer] \in Seq(Ids)
      /\ \A t \in Threads : /\ pc[t] = "push" => hand[t] \in Ids
                            /\ pc[t] = "inspect" => hand[t] \in Ids
  BY <1>1 DEF TypeOK
<1>. HIDE DEF lb, fp
<1>3. /\ Held(lb, "push") \in Seq(Ids)
      /\ Select(c, Held(lb, "push"), f) = InHand(c, pc, hand, lb, "push", f)
  <2>1. pc[lb] = "push" => hand[lb] \in Ids
    BY <1>1, <1>2
  <2>. QED
    BY <2>1, HeldIs
<1>4. /\ Held(fp, "push") \in Seq(Ids)
      /\ Select(c, Held(fp, "push"), f) = InHand(c, pc, hand, fp, "push", f)
  <2>1. pc[fp] = "push" => hand[fp] \in Ids
    BY <1>1, <1>2
  <2>. QED
    BY <2>1, HeldIs
<1>5. /\ Held(fp, "inspect") \in Seq(Ids)
      /\ Select(c, Held(fp, "inspect"), f) = InHand(c, pc, hand, fp, "inspect", f)
  <2>1. pc[fp] = "inspect" => hand[fp] \in Ids
    BY <1>1, <1>2
  <2>. QED
    BY <2>1, HeldIs
<1>6. /\ QueuedLB(f) = Select(c, queue[lb], f)
      /\ HeldLB(f) = Select(c, Held(lb, "push"), f)
      /\ QueuedFP(f) = Select(c, queue[fp], f)
      /\ HeldFP(f) = Select(c, Held(fp, "inspect"), f)
      /\ Leaving(f) = Select(c, Held(fp, "push"), f)
      /\ QueuedOut(f) = Select(c, queue[Writer], f)
      /\ Arrived(f) = Select(c, written, f)
  BY Selected, Zenon
  DEF QueuedLB, HeldLB, QueuedFP, HeldFP, Leaving, QueuedOut, Arrived, lb, fp
<1>7. FlowPending(f) = Select(c, Held(fp, "inspect") \o queue[fp]
                                   \o Held(lb, "push") \o queue[lb], f)
  BY Selected, Zenon DEF FlowPending, Home, lb, fp
<1>8. FlowTransit(f) = Select(c, queue[Writer] \o Held(fp, "push"), f)
  BY Selected, Zenon DEF FlowTransit, Home, lb, fp
<1>9. FlowPending(f) =
          Glue(Glue(Glue(HeldFP(f), QueuedFP(f)), HeldLB(f)), QueuedLB(f))
  <2>1. Select(c, Held(fp, "inspect") \o queue[fp]
                      \o Held(lb, "push") \o queue[lb], f)
            = Glue(Glue(Glue(Select(c, Held(fp, "inspect"), f),
                             Select(c, queue[fp], f)),
                        Select(c, Held(lb, "push"), f)),
                   Select(c, queue[lb], f))
    BY <1>2, <1>3, <1>5, SelectFour
  <2>. QED
    BY <1>6, <1>7, <2>1, Zenon
<1>10. FlowTransit(f) = Glue(QueuedOut(f), Leaving(f))
  <2>1. Select(c, queue[Writer] \o Held(fp, "push"), f)
            = Glue(Select(c, queue[Writer], f), Select(c, Held(fp, "push"), f))
    BY <1>2, <1>4, SelectTwo
  <2>. QED
    BY <1>6, <1>8, <2>1, Zenon
<1>11. Built(f)
  BY <1>3, <1>4, <1>5, <1>6, <1>9, <1>10, Zenon DEF Built, Row, Queued, lb, fp
<1>12. Typed(f)
  <2>1. written \in Seq(Ids)
    BY DEF TypeOK
  <2>. QED
    BY <1>2, <1>3, <1>4, <1>5, <1>6, <2>1, SelectType DEF Typed
<1>. QED
  BY <1>11, <1>12

\* The channels are made of what the threads hold, in every state.
Chain == \A f \in Flows : Built(f) /\ Typed(f)

\* In every state.
LEMMA ChainHolds == TypeOK => Chain
  BY Pieces DEF Chain

\* The pieces after a step, from what the step left of the queues and hands.
LEMMA PiecesNext ==
    ASSUME Chain, Chain', capture' = capture, NEW f \in Flows
    PROVE  LET c == capture
               lb == SelectLB(f)
               fp == Home(f)
           IN
           /\ QueuedLB(f) = Queued(c, queue, lb, f)
           /\ QueuedLB(f)' = Queued(c, queue', lb, f)
           /\ HeldLB(f) = InHand(c, pc, hand, lb, "push", f)
           /\ HeldLB(f)' = InHand(c, pc', hand', lb, "push", f)
           /\ QueuedFP(f) = Queued(c, queue, fp, f)
           /\ QueuedFP(f)' = Queued(c, queue', fp, f)
           /\ HeldFP(f) = InHand(c, pc, hand, fp, "inspect", f)
           /\ HeldFP(f)' = InHand(c, pc', hand', fp, "inspect", f)
           /\ Leaving(f) = InHand(c, pc, hand, fp, "push", f)
           /\ Leaving(f)' = InHand(c, pc', hand', fp, "push", f)
           /\ QueuedOut(f) = Queued(c, queue, Writer, f)
           /\ QueuedOut(f)' = Queued(c, queue', Writer, f)
           /\ Arrived(f) = Select(c, written, f)
           /\ Arrived(f)' = Select(c, written', f)
<1>1. Built(f) /\ Built(f)'
  BY DEF Chain
<1>. QED
  BY <1>1 DEF Built

\* A channel before and after a step, in its pieces.
LEMMA RowsNext ==
    ASSUME Chain, Chain', capture' = capture, NEW f \in Flows
    PROVE  /\ FlowPending(f) = Row(HeldFP(f), QueuedFP(f), HeldLB(f), QueuedLB(f))
           /\ FlowPending(f)' =
                  Row(HeldFP(f)', QueuedFP(f)', HeldLB(f)', QueuedLB(f)')
           /\ FlowTransit(f) = Glue(QueuedOut(f), Leaving(f))
           /\ FlowTransit(f)' = Glue(QueuedOut(f)', Leaving(f)')
           /\ QueuedLB(f) \in Seq(Ids) /\ HeldLB(f) \in Seq(Ids)
           /\ QueuedFP(f) \in Seq(Ids) /\ HeldFP(f) \in Seq(Ids)
           /\ Leaving(f) \in Seq(Ids) /\ QueuedOut(f) \in Seq(Ids)
           /\ Arrived(f) \in Seq(Ids)
           /\ QueuedLB(f)' \in Seq(Ids) /\ HeldLB(f)' \in Seq(Ids)
           /\ QueuedFP(f)' \in Seq(Ids) /\ HeldFP(f)' \in Seq(Ids)
           /\ Leaving(f)' \in Seq(Ids) /\ QueuedOut(f)' \in Seq(Ids)
           /\ Arrived(f)' \in Seq(Ids)
<1>1. Built(f) /\ Built(f)' /\ Typed(f) /\ Typed(f)' /\ Ids' = Ids
  BY DEF Chain, Ids
<1>. QED
  BY <1>1 DEF Built, Typed

\* A thread that a step leaves alone keeps its pieces.
LEMMA Untouched ==
    ASSUME Chain, Chain', capture' = capture, NEW f \in Flows
    PROVE  LET lb == SelectLB(f)
               fp == Home(f)
           IN
           /\ queue'[lb] = queue[lb] => QueuedLB(f)' = QueuedLB(f)
           /\ pc'[lb] = pc[lb] /\ hand'[lb] = hand[lb] => HeldLB(f)' = HeldLB(f)
           /\ queue'[fp] = queue[fp] => QueuedFP(f)' = QueuedFP(f)
           /\ pc'[fp] = pc[fp] /\ hand'[fp] = hand[fp] =>
                  HeldFP(f)' = HeldFP(f) /\ Leaving(f)' = Leaving(f)
           /\ queue'[Writer] = queue[Writer] => QueuedOut(f)' = QueuedOut(f)
           /\ written' = written => Arrived(f)' = Arrived(f)
  BY PiecesNext DEF Queued, InHand

\* Where the packets of a flow are handled.
LEMMA Handlers ==
    ASSUME NEW f \in Flows
    PROVE  /\ SelectLB(f) \in LBs /\ Home(f) \in FPs
           /\ SelectLB(f) \in Threads /\ Home(f) \in Threads /\ Writer \in Threads
           /\ SelectLB(f) # Home(f) /\ SelectLB(f) # Writer /\ Home(f) # Writer
  BY Routing, Apart DEF Home

-----------------------------------------------------------------------------
(* What each step does to the channels. *)

\* The reader's packet joins its flow's pending ones at the back.
LEMMA ReadAccepts ==
    ASSUME TypeOK, ShutdownOrder, Chain, Chain', Read, NEW f \in Flows
    PROVE  /\ total + 1 \in Ids
           /\ FlowPending(f)' = Glue(FlowPending(f), Chosen(capture, total + 1, f))
           /\ FlowTransit(f)' = FlowTransit(f) /\ Arrived(f)' = Arrived(f)
<1>. DEFINE x == total + 1
            lb0 == SelectLB(Flow(x))
            ch == Chosen(capture, x, f)
<1>1. x \in Ids
  BY CaptureAssumption DEF Read, TypeOK, Ids
<1>2. lb0 \in LBs /\ lb0 \in Threads /\ lb0 # Writer
  BY <1>1, Routes, Apart
<1>3. ~shut[lb0]
  BY <1>2 DEF Read, ShutdownOrder
<1>4. /\ queue' = [queue EXCEPT ![lb0] = Append(queue[lb0], x)]
      /\ UNCHANGED <<capture, pc, hand, written>>
  BY <1>3 DEF Read, Pushed
<1>5. queue \in [Threads -> Seq(Ids)]
  BY DEF TypeOK
<1>6. ch \in Seq(Ids)
  BY <1>1, ChosenType
<1>7. lb0 # SelectLB(f) => ch = <<>>
  BY DEF Chosen, Flow
<1>8. /\ queue'[Home(f)] = queue[Home(f)] /\ queue'[Writer] = queue[Writer]
      /\ lb0 # SelectLB(f) => queue'[SelectLB(f)] = queue[SelectLB(f)]
      /\ queue'[lb0] = Append(queue[lb0], x)
      /\ lb0 # Home(f)
  BY <1>2, <1>4, <1>5, Handlers, Apart
<1>9. /\ HeldLB(f)' = HeldLB(f) /\ HeldFP(f)' = HeldFP(f)
      /\ Leaving(f)' = Leaving(f) /\ QueuedFP(f)' = QueuedFP(f)
      /\ QueuedOut(f)' = QueuedOut(f) /\ Arrived(f)' = Arrived(f)
  BY <1>4, <1>8, Untouched
<1>. HIDE DEF ch, x, lb0
<1>10. QueuedLB(f)' = Glue(QueuedLB(f), ch)
  <2>1. CASE lb0 = SelectLB(f)
    <3>1. Select(capture, Append(queue[lb0], x), f)
              = Glue(Select(capture, queue[lb0], f), ch)
      BY <1>1, <1>2, <1>5, SelectMore DEF ch
    <3>2. /\ QueuedLB(f) = Select(capture, queue[lb0], f)
          /\ QueuedLB(f)' = Select(capture, queue'[lb0], f)
      BY <1>4, <2>1, PiecesNext DEF Queued
    <3>. QED
      BY <1>8, <3>1, <3>2, Zenon
  <2>2. CASE lb0 # SelectLB(f)
    <3>1. QueuedLB(f)' = QueuedLB(f) /\ QueuedLB(f) \in Seq(Ids)
      BY <1>4, <1>8, <2>2, Untouched, RowsNext
    <3>2. Glue(QueuedLB(f), <<>>) = QueuedLB(f)
      BY <3>1, GlueNone
    <3>. QED
      BY <1>7, <2>2, <3>1, <3>2, Zenon
  <2>. QED
    BY <2>1, <2>2
<1>11. /\ FlowPending(f) = Row(HeldFP(f), QueuedFP(f), HeldLB(f), QueuedLB(f))
       /\ FlowPending(f)' = Row(HeldFP(f), QueuedFP(f), HeldLB(f), Glue(QueuedLB(f), ch))
       /\ FlowTransit(f)' = FlowTransit(f)
  BY <1>4, <1>9, <1>10, RowsNext
<1>12. Row(HeldFP(f), QueuedFP(f), HeldLB(f), Glue(QueuedLB(f), ch))
           = Glue(Row(HeldFP(f), QueuedFP(f), HeldLB(f), QueuedLB(f)), ch)
  BY <1>4, <1>6, RowsNext, RowShifts
<1>. QED
  BY <1>1, <1>9, <1>11, <1>12, Zenon DEF ch, x

\* Taking from the queue into the hand changes no channel.
LEMMA LBTakeKeeps ==
    ASSUME TypeOK, OrderInv, Chain, Chain', NEW lb0 \in LBs, LBTake(lb0),
           NEW f \in Flows
    PROVE  /\ FlowPending(f)' = FlowPending(f)
           /\ FlowTransit(f)' = FlowTransit(f) /\ Arrived(f)' = Arrived(f)
<1>1. /\ capture' = capture /\ written' = written
      /\ pc[lb0] = "pop" /\ pc' = [pc EXCEPT ![lb0] = "push"]
      /\ queue[lb0] # <<>> /\ queue' = [queue EXCEPT ![lb0] = Tail(queue[lb0])]
      /\ hand' = [hand EXCEPT ![lb0] = Head(queue[lb0])]
  BY DEF LBTake, Take
<1>2. /\ queue \in [Threads -> Seq(Ids)] /\ DOMAIN pc = Threads
      /\ DOMAIN hand = Threads
  BY DEF TypeOK
<1>3. lb0 \in Threads /\ lb0 # Writer /\ lb0 # Home(f)
  BY Apart, Handlers
<1>4. /\ \A t \in Threads \ {lb0} : /\ queue'[t] = queue[t] /\ pc'[t] = pc[t]
                                    /\ hand'[t] = hand[t]
      /\ queue'[lb0] = Tail(queue[lb0]) /\ pc'[lb0] = "push"
      /\ hand'[lb0] = Head(queue[lb0])
  BY <1>1, <1>2, <1>3
<1>5. /\ HeldFP(f)' = HeldFP(f)
      /\ Leaving(f)' = Leaving(f) /\ QueuedFP(f)' = QueuedFP(f)
      /\ QueuedOut(f)' = QueuedOut(f) /\ Arrived(f)' = Arrived(f)
  BY <1>1, <1>3, <1>4, Handlers, Untouched
<1>6. FlowPending(f)' = FlowPending(f)
  <2>1. CASE SelectLB(f) # lb0
    <3>1. HeldLB(f)' = HeldLB(f) /\ QueuedLB(f)' = QueuedLB(f)
      BY <1>1, <1>4, <2>1, Handlers, Untouched
    <3>. QED
      BY <1>1, <1>5, <3>1, RowsNext
  <2>2. CASE SelectLB(f) = lb0
    <3>. DEFINE ch == Chosen(capture, Head(queue[lb0]), f)
    <3>1. /\ Head(queue[lb0]) \in Ids
          /\ ch \in Seq(Ids)
      BY <1>1, <1>2, <1>3, GlueHead, ChosenType
    <3>2. HeldLB(f) = <<>> /\ HeldLB(f)' = ch
      BY <1>1, <1>4, <2>2, PiecesNext DEF InHand
    <3>3. QueuedLB(f) = Glue(ch, QueuedLB(f)')
      <4>1. Select(capture, queue[lb0], f)
                = Glue(ch, Select(capture, Tail(queue[lb0]), f))
        BY <1>1, <1>2, <1>3, SelectLess
      <4>2. /\ QueuedLB(f) = Select(capture, queue[lb0], f)
            /\ QueuedLB(f)' = Select(capture, queue'[lb0], f)
        BY <1>1, <2>2, PiecesNext DEF Queued
      <4>. QED
        BY <1>4, <4>1, <4>2, Zenon
    <3>. HIDE DEF ch
    <3>4. FlowPending(f) = Row(HeldFP(f), QueuedFP(f), <<>>, Glue(ch, QueuedLB(f)'))
      BY <1>1, <3>2, <3>3, RowsNext, Zenon
    <3>5. FlowPending(f)' = Row(HeldFP(f), QueuedFP(f), ch, QueuedLB(f)')
      BY <1>1, <1>5, <3>2, RowsNext, Zenon
    <3>6. Row(HeldFP(f), QueuedFP(f), <<>>, Glue(ch, QueuedLB(f)'))
              = Row(HeldFP(f), QueuedFP(f), ch, QueuedLB(f)')
      BY <1>1, <3>1, RowsNext, RowShifts
    <3>. QED
      BY <3>4, <3>5, <3>6, Zenon
  <2>. QED
    BY <2>1, <2>2
<1>. QED
  BY <1>1, <1>5, <1>6, RowsNext

\* Nor does handing on to the fast path,
LEMMA LBPushKeeps ==
    ASSUME TypeOK, ShutdownOrder, OrderInv, Chain, Chain', NEW lb0 \in LBs,
           LBPush(lb0), NEW f \in Flows
    PROVE  /\ FlowPending(f)' = FlowPending(f)
           /\ FlowTransit(f)' = FlowTransit(f) /\ Arrived(f)' = Arrived(f)
<1>. DEFINE x == hand[lb0]
            fp0 == SelectFP(lb0, Flow(x))
            ch == Chosen(capture, x, f)
<1>1. /\ capture' = capture /\ written' = written
      /\ pc[lb0] = "push" /\ pc' = [pc EXCEPT ![lb0] = "loop"]
      /\ hand' = [hand EXCEPT ![lb0] = Nothing]
  BY DEF LBPush
<1>2. /\ queue \in [Threads -> Seq(Ids)] /\ DOMAIN pc = Threads
      /\ DOMAIN hand = Threads
  BY DEF TypeOK
<1>3. lb0 \in Threads /\ lb0 # Writer /\ lb0 # Home(f)
  BY Apart, Handlers
<1>4. /\ x \in Ids /\ fp0 \in FPs /\ fp0 \in Threads /\ fp0 # Writer
      /\ fp0 # SelectLB(f) /\ ch \in Seq(Ids)
  <2>1. x \in Ids
    BY <1>1, <1>3 DEF TypeOK
  <2>. QED
    BY <2>1, PacketType, Routing, Apart, Handlers, ChosenType
<1>5. SelectLB(Flow(x)) = lb0 /\ Home(Flow(x)) = fp0
  BY <1>1 DEF OrderInv, RoutedInv, Home
<1>6. (SelectLB(f) # lb0 \/ Home(f) # fp0) => ch = <<>>
  BY <1>5 DEF Chosen, Flow
<1>7. queue' = [queue EXCEPT ![fp0] = Append(queue[fp0], x)]
  <2>1. ~shut[fp0]
    BY <1>1, <1>4 DEF ShutdownOrder
  <2>. QED
    BY <2>1 DEF LBPush, Pushed
<1>. HIDE DEF x, fp0, ch
<1>8. /\ \A t \in Threads \ {lb0} : pc'[t] = pc[t] /\ hand'[t] = hand[t]
      /\ pc'[lb0] = "loop"
      /\ \A t \in Threads \ {fp0} : queue'[t] = queue[t]
      /\ queue'[fp0] = Append(queue[fp0], x)
  BY <1>1, <1>2, <1>3, <1>4, <1>7
<1>9. /\ HeldFP(f)' = HeldFP(f) /\ Leaving(f)' = Leaving(f)
      /\ QueuedLB(f)' = QueuedLB(f)
      /\ QueuedOut(f)' = QueuedOut(f) /\ Arrived(f)' = Arrived(f)
  BY <1>1, <1>3, <1>4, <1>8, Handlers, Untouched
<1>10. QueuedFP(f)' = Glue(QueuedFP(f), ch)
  <2>1. CASE Home(f) = fp0
    <3>1. Select(capture, Append(queue[fp0], x), f)
              = Glue(Select(capture, queue[fp0], f), ch)
      BY <1>2, <1>4, SelectMore DEF ch
    <3>2. /\ QueuedFP(f) = Select(capture, queue[fp0], f)
          /\ QueuedFP(f)' = Select(capture, queue'[fp0], f)
      BY <1>1, <2>1, PiecesNext DEF Queued
    <3>. QED
      BY <1>8, <3>1, <3>2, Zenon
  <2>2. CASE Home(f) # fp0
    <3>1. QueuedFP(f)' = QueuedFP(f) /\ QueuedFP(f) \in Seq(Ids)
      BY <1>1, <1>8, <2>2, Handlers, Untouched, RowsNext
    <3>2. Glue(QueuedFP(f), <<>>) = QueuedFP(f)
      BY <3>1, GlueNone
    <3>. QED
      BY <1>6, <2>2, <3>1, <3>2, Zenon
  <2>. QED
    BY <2>1, <2>2
<1>11. \/ HeldLB(f) = ch /\ HeldLB(f)' = <<>>
       \/ HeldLB(f)' = HeldLB(f) /\ ch = <<>>
  <2>1. CASE SelectLB(f) = lb0
    BY <1>1, <1>8, <2>1, PiecesNext DEF InHand, ch, x
  <2>2. CASE SelectLB(f) # lb0
    BY <1>1, <1>6, <1>8, <2>2, Handlers, Untouched
  <2>. QED
    BY <2>1, <2>2
<1>12. FlowPending(f)' = FlowPending(f)
  <2>1. /\ FlowPending(f) = Row(HeldFP(f), QueuedFP(f), HeldLB(f), QueuedLB(f))
        /\ FlowPending(f)' = Row(HeldFP(f), Glue(QueuedFP(f), ch), HeldLB(f)', QueuedLB(f))
    BY <1>1, <1>9, <1>10, RowsNext, Zenon
  <2>2. CASE HeldLB(f) = ch /\ HeldLB(f)' = <<>>
    <3>1. Row(HeldFP(f), Glue(QueuedFP(f), ch), <<>>, QueuedLB(f))
              = Row(HeldFP(f), QueuedFP(f), ch, QueuedLB(f))
      BY <1>1, <1>4, RowsNext, RowShifts
    <3>. QED
      BY <2>1, <2>2, <3>1, Zenon
  <2>3. CASE HeldLB(f)' = HeldLB(f) /\ ch = <<>>
    <3>1. Glue(QueuedFP(f), <<>>) = QueuedFP(f)
      BY <1>1, RowsNext, GlueNone
    <3>. QED
      BY <2>1, <2>3, <3>1, Zenon
  <2>. QED
    BY <1>11, <2>2, <2>3
<1>. QED
  BY <1>1, <1>9, <1>12, RowsNext

\* nor the fast path's pop,
LEMMA FPTakeKeeps ==
    ASSUME TypeOK, OrderInv, Chain, Chain', NEW fp0 \in FPs, FPTake(fp0),
           NEW f \in Flows
    PROVE  /\ FlowPending(f)' = FlowPending(f)
           /\ FlowTransit(f)' = FlowTransit(f) /\ Arrived(f)' = Arrived(f)
<1>1. /\ capture' = capture /\ written' = written
      /\ pc[fp0] = "pop" /\ pc' = [pc EXCEPT ![fp0] = "inspect"]
      /\ queue[fp0] # <<>> /\ queue' = [queue EXCEPT ![fp0] = Tail(queue[fp0])]
      /\ hand' = [hand EXCEPT ![fp0] = Head(queue[fp0])]
  BY DEF FPTake, Take
<1>2. /\ queue \in [Threads -> Seq(Ids)] /\ DOMAIN pc = Threads
      /\ DOMAIN hand = Threads
  BY DEF TypeOK
<1>3. fp0 \in Threads /\ fp0 # Writer /\ fp0 # SelectLB(f)
  BY Apart, Handlers
<1>4. /\ \A t \in Threads \ {fp0} : /\ queue'[t] = queue[t] /\ pc'[t] = pc[t]
                                    /\ hand'[t] = hand[t]
      /\ queue'[fp0] = Tail(queue[fp0]) /\ pc'[fp0] = "inspect"
      /\ hand'[fp0] = Head(queue[fp0])
  BY <1>1, <1>2, <1>3
<1>5. /\ HeldLB(f)' = HeldLB(f) /\ QueuedLB(f)' = QueuedLB(f)
      /\ QueuedOut(f)' = QueuedOut(f) /\ Arrived(f)' = Arrived(f)
  BY <1>1, <1>3, <1>4, Handlers, Untouched
<1>6. /\ FlowPending(f)' = FlowPending(f)
      /\ Leaving(f)' = Leaving(f)
  <2>1. CASE Home(f) # fp0
    <3>1. /\ HeldFP(f)' = HeldFP(f) /\ QueuedFP(f)' = QueuedFP(f)
          /\ Leaving(f)' = Leaving(f)
      BY <1>1, <1>4, <2>1, Handlers, Untouched
    <3>. QED
      BY <1>1, <1>5, <3>1, RowsNext
  <2>2. CASE Home(f) = fp0
    <3>. DEFINE ch == Chosen(capture, Head(queue[fp0]), f)
    <3>1. /\ Head(queue[fp0]) \in Ids
          /\ ch \in Seq(Ids)
      BY <1>1, <1>2, <1>3, GlueHead, ChosenType
    <3>2. /\ HeldFP(f) = <<>> /\ HeldFP(f)' = ch
          /\ Leaving(f) = <<>> /\ Leaving(f)' = <<>>
      BY <1>1, <1>4, <2>2, PiecesNext DEF InHand
    <3>3. QueuedFP(f) = Glue(ch, QueuedFP(f)')
      <4>1. Select(capture, queue[fp0], f)
                = Glue(ch, Select(capture, Tail(queue[fp0]), f))
        BY <1>1, <1>2, <1>3, SelectLess
      <4>2. /\ QueuedFP(f) = Select(capture, queue[fp0], f)
            /\ QueuedFP(f)' = Select(capture, queue'[fp0], f)
        BY <1>1, <2>2, PiecesNext DEF Queued
      <4>. QED
        BY <1>4, <4>1, <4>2, Zenon
    <3>. HIDE DEF ch
    <3>4. FlowPending(f) = Row(<<>>, Glue(ch, QueuedFP(f)'), HeldLB(f), QueuedLB(f))
      BY <1>1, <3>2, <3>3, RowsNext, Zenon
    <3>5. FlowPending(f)' = Row(ch, QueuedFP(f)', HeldLB(f), QueuedLB(f))
      BY <1>1, <1>5, <3>2, RowsNext, Zenon
    <3>6. Row(<<>>, Glue(ch, QueuedFP(f)'), HeldLB(f), QueuedLB(f))
              = Row(ch, QueuedFP(f)', HeldLB(f), QueuedLB(f))
      BY <1>1, <3>1, RowsNext, RowShifts
    <3>. QED
      BY <3>2, <3>4, <3>5, <3>6, Zenon
  <2>. QED
    BY <2>1, <2>2
<1>. QED
  BY <1>1, <1>5, <1>6, RowsNext

\* nor its push to the writer.
LEMMA FPPushKeeps ==
    ASSUME TypeOK, ShutdownOrder, OrderInv, Chain, Chain', NEW fp0 \in FPs,
           FPPush(fp0), NEW f \in Flows
    PROVE  /\ FlowPending(f)' = FlowPending(f)
           /\ FlowTransit(f)' = FlowTransit(f) /\ Arrived(f)' = Arrived(f)
<1>. DEFINE x == hand[fp0]
            ch == Chosen(capture, x, f)
<1>1. /\ capture' = capture /\ written' = written
      /\ pc[fp0] = "push" /\ pc' = [pc EXCEPT ![fp0] = "loop"]
      /\ hand' = [hand EXCEPT ![fp0] = Nothing]
  BY DEF FPPush
<1>2. /\ queue \in [Threads -> Seq(Ids)] /\ DOMAIN pc = Threads
      /\ DOMAIN hand = Threads
  BY DEF TypeOK
<1>3. fp0 \in Threads /\ fp0 # Writer /\ fp0 # SelectLB(f)
  BY Apart, Handlers
<1>4. x \in Ids /\ ch \in Seq(Ids)
  <2>1. x \in Ids
    BY <1>1, <1>3 DEF TypeOK
  <2>. QED
    BY <2>1, ChosenType
<1>5. Home(Flow(x)) = fp0
  BY <1>1 DEF OrderInv, RoutedInv
<1>6. Home(f) # fp0 => ch = <<>>
  BY <1>5 DEF Chosen, Flow
<1>7. queue' = [queue EXCEPT ![Writer] = Append(queue[Writer], x)]
  <2>1. ~shut[Writer]
    BY <1>1 DEF ShutdownOrder
  <2>. QED
    BY <2>1 DEF FPPush, Pushed
<1>. HIDE DEF x, ch
<1>8. /\ \A t \in Threads \ {fp0} : pc'[t] = pc[t] /\ hand'[t] = hand[t]
      /\ pc'[fp0] = "loop"
      /\ \A t \in Threads \ {Writer} : queue'[t] = queue[t]
      /\ queue'[Writer] = Append(queue[Writer], x)
  BY <1>1, <1>2, <1>3, <1>7, Handlers
<1>9. /\ HeldLB(f)' = HeldLB(f) /\ QueuedLB(f)' = QueuedLB(f)
      /\ QueuedFP(f)' = QueuedFP(f) /\ Arrived(f)' = Arrived(f)
  BY <1>1, <1>3, <1>8, Handlers, Untouched
<1>10. QueuedOut(f)' = Glue(QueuedOut(f), ch)
  <2>1. Select(capture, Append(queue[Writer], x), f)
            = Glue(Select(capture, queue[Writer], f), ch)
    BY <1>2, <1>4, Handlers, SelectMore DEF ch
  <2>2. /\ QueuedOut(f) = Select(capture, queue[Writer], f)
        /\ QueuedOut(f)' = Select(capture, queue'[Writer], f)
    BY <1>1, PiecesNext DEF Queued
  <2>. QED
    BY <1>8, <2>1, <2>2, Zenon
<1>11. /\ HeldFP(f)' = HeldFP(f)
       /\ \/ Leaving(f) = ch /\ Leaving(f)' = <<>>
          \/ Leaving(f)' = Leaving(f) /\ ch = <<>>
  <2>1. CASE Home(f) = fp0
    BY <1>1, <1>8, <2>1, PiecesNext DEF InHand, ch, x
  <2>2. CASE Home(f) # fp0
    BY <1>1, <1>6, <1>8, <2>2, Handlers, Untouched
  <2>. QED
    BY <2>1, <2>2
<1>12. FlowTransit(f)' = FlowTransit(f)
  <2>1. /\ FlowTransit(f) = Glue(QueuedOut(f), Leaving(f))
        /\ FlowTransit(f)' = Glue(Glue(QueuedOut(f), ch), Leaving(f)')
    BY <1>1, <1>10, RowsNext, Zenon
  <2>2. /\ Glue(QueuedOut(f), ch) \in Seq(Ids) /\ QueuedOut(f) \in Seq(Ids)
        /\ Glue(Glue(QueuedOut(f), ch), <<>>) = Glue(QueuedOut(f), ch)
        /\ Glue(QueuedOut(f), <<>>) = QueuedOut(f)
    <3>1. QueuedOut(f) \in Seq(Ids)
      BY <1>1, RowsNext
    <3>2. Glue(QueuedOut(f), ch) \in Seq(Ids)
      BY <1>4, <3>1, GlueType
    <3>. QED
      BY <3>1, <3>2, GlueNone
  <2>. QED
    BY <1>11, <2>1, <2>2, Zenon
<1>. QED
  BY <1>1, <1>9, <1>11, <1>12, RowsNext

\* The writer's packet is the oldest in transit of its flow.
LEMMA WriterDelivers ==
    ASSUME TypeOK, Chain, Chain', WriterTake, NEW f \in Flows
    PROVE  LET x == Head(queue[Writer])
               ch == Chosen(capture, x, f)
           IN
           /\ x \in Ids
           /\ FlowPending(f)' = FlowPending(f)
           /\ FlowTransit(f) = Glue(ch, FlowTransit(f)')
           /\ Arrived(f)' = Glue(Arrived(f), ch)
<1>. DEFINE x == Head(queue[Writer])
            ch == Chosen(capture, x, f)
<1>1. /\ capture' = capture /\ written' = Append(written, x)
      /\ pc[Writer] = "pop" /\ pc' = [pc EXCEPT ![Writer] = "loop"]
      /\ queue[Writer] # <<>>
      /\ queue' = [queue EXCEPT ![Writer] = Tail(queue[Writer])]
      /\ hand' = hand
  BY DEF WriterTake
<1>2. /\ queue \in [Threads -> Seq(Ids)] /\ DOMAIN pc = Threads
      /\ Writer \in Threads /\ queue[Writer] \in Seq(Ids) /\ written \in Seq(Ids)
  BY Handlers DEF TypeOK
<1>3. x \in Ids /\ ch \in Seq(Ids)
  BY <1>1, <1>2, GlueHead, ChosenType
<1>4. /\ \A t \in Threads \ {Writer} : queue'[t] = queue[t] /\ pc'[t] = pc[t]
      /\ queue'[Writer] = Tail(queue[Writer])
  BY <1>1, <1>2
<1>5. /\ HeldLB(f)' = HeldLB(f) /\ QueuedLB(f)' = QueuedLB(f)
      /\ HeldFP(f)' = HeldFP(f) /\ QueuedFP(f)' = QueuedFP(f)
      /\ Leaving(f)' = Leaving(f)
  BY <1>1, <1>4, Handlers, Untouched
<1>6. QueuedOut(f) = Glue(ch, QueuedOut(f)')
  <2>1. Select(capture, queue[Writer], f)
            = Glue(ch, Select(capture, Tail(queue[Writer]), f))
    BY <1>1, <1>2, SelectLess
  <2>2. /\ QueuedOut(f) = Select(capture, queue[Writer], f)
        /\ QueuedOut(f)' = Select(capture, queue'[Writer], f)
    BY <1>1, PiecesNext DEF Queued
  <2>. QED
    BY <1>4, <2>1, <2>2, Zenon
<1>7. Arrived(f)' = Glue(Arrived(f), ch)
  <2>1. Select(capture, Append(written, x), f) = Glue(Select(capture, written, f), ch)
    <3>. HIDE DEF x
    <3>. QED
      BY <1>2, <1>3, SelectMore
  <2>. QED
    BY <1>1, <2>1, PiecesNext, Zenon
<1>. HIDE DEF ch, x
<1>8. FlowTransit(f) = Glue(ch, FlowTransit(f)')
  <2>1. /\ FlowTransit(f) = Glue(Glue(ch, QueuedOut(f)'), Leaving(f))
        /\ FlowTransit(f)' = Glue(QueuedOut(f)', Leaving(f))
    BY <1>1, <1>5, <1>6, RowsNext, Zenon
  <2>2. Glue(Glue(ch, QueuedOut(f)'), Leaving(f)) = Glue(ch, Glue(QueuedOut(f)', Leaving(f)))
    BY <1>1, <1>3, RowsNext, GlueAssoc
  <2>. QED
    BY <2>1, <2>2, Zenon
<1>9. FlowPending(f)' = FlowPending(f)
  BY <1>1, <1>5, RowsNext, Zenon
<1>. QED
  BY <1>3, <1>7, <1>8, <1>9 DEF ch, x

\* Steps that touch no packet.
LEMMA IdleKeeps ==
    ASSUME TypeOK, Chain, Chain', Idle, NEW f \in Flows
    PROVE  /\ FlowPending(f)' = FlowPending(f)
           /\ FlowTransit(f)' = FlowTransit(f) /\ Arrived(f)' = Arrived(f)
<1>1. /\ capture' = capture /\ queue' = queue /\ hand' = hand /\ written' = written
  BY DEF Idle
<1>2. \A t \in Threads, place \in {"push", "inspect"} :
          (pc'[t] = place) <=> (pc[t] = place)
  BY DEF Idle, TypeOK
<1>3. /\ HeldLB(f)' = HeldLB(f) /\ HeldFP(f)' = HeldFP(f)
      /\ Leaving(f)' = Leaving(f)
  BY <1>1, <1>2, Handlers, PiecesNext DEF InHand
<1>4. /\ QueuedLB(f)' = QueuedLB(f) /\ QueuedFP(f)' = QueuedFP(f)
      /\ QueuedOut(f)' = QueuedOut(f) /\ Arrived(f)' = Arrived(f)
  BY <1>1, Untouched
<1>. QED
  BY <1>1, <1>3, <1>4, RowsNext, Zenon

\* What a verdict does to the flow table and to the fast path.
LEMMA Decided ==
    ASSUME TypeOK, OrderInv, NEW fp0 \in FPs, FPInspect(fp0)
    PROVE  \E x \in Ids, g \in Flows :
           /\ x = hand[fp0] /\ g = Flow(x) /\ Home(g) = fp0 /\ pc[fp0] = "inspect"
           /\ UNCHANGED <<capture, queue, written, total, mainPc>>
           /\ \A f \in Flows \ {g} : Entry(f)' = Entry(f)
           /\ \/ /\ pc' = [pc EXCEPT ![fp0] = "push"] /\ hand' = hand
                 /\ ~Entry(g).blocked
                 /\ Entry(g)'.blocked = Entry(g).blocked
              \/ /\ pc' = [pc EXCEPT ![fp0] = "loop"]
                 /\ hand' = [hand EXCEPT ![fp0] = Nothing]
                 /\ Entry(g)'.blocked = TRUE
<1>. DEFINE x == hand[fp0]
            g == Flow(x)
            e == Identify(x, flows[fp0][g])
            cut == \/ e.blocked
                   \/ IsBlocked(g, e)
                   \/ Charged(g, e) /\ OverQuota(e.app, capture[x].size)
            seen == [e EXCEPT !.blocked = cut]
<1>1. x \in Ids /\ g \in Flows
  <2>1. x \in Ids
    BY Apart DEF FPInspect, TypeOK
  <2>. QED
    BY <2>1, PacketType
<1>2. Home(g) = fp0 /\ pc[fp0] = "inspect"
  BY DEF FPInspect, OrderInv, RoutedInv
<1>3. flows[fp0][g] \in FlowEntry /\ e \in FlowEntry
  <2>1. flows[fp0][g] \in FlowEntry /\ capture[x] \in Packet
    BY <1>1, PacketType DEF TypeOK
  <2>. QED
    BY <1>1, <2>1, IdentifyType
<1>4. UNCHANGED <<capture, queue, written, total, mainPc>>
  BY DEF FPInspect, mainVars
<1>5. Verdict(fp0, x, e)
  BY DEF FPInspect
<1>6. flows' = [flows EXCEPT ![fp0][g] = seen]
  BY <1>5 DEF Verdict
<1>7. e.blocked = flows[fp0][g].blocked
  BY <1>3, Identified
<1>8. \/ cut /\ pc' = [pc EXCEPT ![fp0] = "loop"]
             /\ hand' = [hand EXCEPT ![fp0] = Nothing]
      \/ ~cut /\ pc' = [pc EXCEPT ![fp0] = "push"] /\ hand' = hand
  BY <1>5 DEF Verdict
<1>9. cut \in BOOLEAN /\ (~cut => ~e.blocked)
  BY <1>3 DEF FlowEntry, IsBlocked, Charged, OverQuota
<1>. HIDE DEF cut, e
<1>10. seen.blocked = cut
  BY <1>3 DEF FlowEntry
<1>. HIDE DEF seen
<1>11. /\ flows'[fp0][g] = seen
       /\ \A f \in Flows \ {g} : flows'[Home(f)][f] = flows[Home(f)][f]
  <2>1. flows \in [FPs -> [Flows -> FlowEntry]]
    BY DEF TypeOK
  <2>2. \A f \in Flows : Home(f) \in FPs
    BY Routing DEF Home
  <2>. HIDE DEF g, x
  <2>3. flows'[fp0] = [flows[fp0] EXCEPT ![g] = seen]
    BY <1>6, <2>1
  <2>4. \A h \in FPs \ {fp0} : flows'[h] = flows[h]
    BY <1>6, <2>1
  <2>5. flows[fp0] \in [Flows -> FlowEntry]
    BY <2>1
  <2>6. flows'[fp0][g] = seen
    BY <1>1, <2>3, <2>5
  <2>7. ASSUME NEW f \in Flows \ {g} PROVE flows'[Home(f)][f] = flows[Home(f)][f]
    BY <2>2, <2>3, <2>4, <2>5
  <2>. QED
    BY <2>6, <2>7
<1>. HIDE DEF g, x
<1>12. PICK y, h : y = x /\ h = g
  OBVIOUS
<1>13. /\ y \in Ids /\ h \in Flows /\ y = hand[fp0] /\ h = Flow(y) /\ Home(h) = fp0
  BY <1>1, <1>2, <1>12 DEF g, x
<1>14. /\ Entry(h) = flows[fp0][h] /\ Entry(h)' = seen
       /\ \A f \in Flows \ {h} : Entry(f)' = Entry(f)
  <2>1. /\ flows'[fp0][h] = seen
        /\ \A f \in Flows \ {h} : flows'[Home(f)][f] = flows[Home(f)][f]
    BY <1>11, <1>12
  <2>. QED
    BY <1>13, <2>1 DEF Entry
<1>15. /\ Entry(h)'.blocked = cut /\ (~cut => ~Entry(h).blocked)
       /\ Entry(h).blocked \in BOOLEAN
  <2>1. e.blocked = Entry(h).blocked
    BY <1>7, <1>12, <1>14
  <2>2. Entry(h)'.blocked = cut
    BY <1>10, <1>14
  <2>3. flows[fp0][h].blocked \in BOOLEAN
    BY <1>3, <1>12 DEF FlowEntry
  <2>. QED
    BY <1>9, <1>14, <2>1, <2>2, <2>3, Zenon
<1>16. \/ /\ pc' = [pc EXCEPT ![fp0] = "push"] /\ hand' = hand
          /\ ~Entry(h).blocked
          /\ Entry(h)'.blocked = Entry(h).blocked
       \/ /\ pc' = [pc EXCEPT ![fp0] = "loop"]
          /\ hand' = [hand EXCEPT ![fp0] = Nothing]
          /\ Entry(h)'.blocked = TRUE
  <2>1. CASE cut
    <3>1. cut = TRUE
      BY <1>9, <2>1
    <3>. QED
      BY <1>8, <1>15, <2>1, <3>1, Zenon
  <2>2. CASE ~cut
    <3>1. cut = FALSE /\ Entry(h).blocked = FALSE
      BY <1>9, <1>15, <2>2
    <3>. QED
      BY <1>8, <1>15, <2>2, <3>1, Zenon
  <2>. QED
    BY <2>1, <2>2
<1>. QED
  BY <1>2, <1>4, <1>13, <1>14, <1>16

\* A verdict takes the oldest pending packet of one flow, and either puts it
\* last in transit or drops it.
LEMMA InspectDecides ==
    ASSUME TypeOK, OrderInv, Chain, Chain', NEW fp0 \in FPs, FPInspect(fp0),
           NEW f \in Flows
    PROVE  LET x == hand[fp0]
               ch == Chosen(capture, x, f)
           IN
           /\ FlowPending(f) = Glue(ch, FlowPending(f)')
           /\ Arrived(f)' = Arrived(f)
           /\ pc'[fp0] = "push" => FlowTransit(f)' = Glue(FlowTransit(f), ch)
           /\ pc'[fp0] = "loop" => FlowTransit(f)' = FlowTransit(f)
<1>. DEFINE x == hand[fp0]
            ch == Chosen(capture, x, f)
<1>1. /\ capture' = capture /\ queue' = queue /\ written' = written
      /\ pc[fp0] = "inspect" /\ x \in Ids /\ Home(Flow(x)) = fp0
  BY Decided
<1>2. DOMAIN pc = Threads /\ DOMAIN hand = Threads
  BY DEF TypeOK
<1>3. fp0 \in Threads /\ fp0 # Writer /\ fp0 # SelectLB(f)
  BY Apart, Handlers
<1>4. /\ \A t \in Threads \ {fp0} : pc'[t] = pc[t] /\ hand'[t] = hand[t]
      /\ pc'[fp0] # "inspect"
      /\ pc'[fp0] = "push" => hand'[fp0] = x
  <2>1. \/ pc' = [pc EXCEPT ![fp0] = "push"] /\ hand' = hand
        \/ /\ pc' = [pc EXCEPT ![fp0] = "loop"]
           /\ hand' = [hand EXCEPT ![fp0] = Nothing]
    BY Decided
  <2>. QED
    BY <1>2, <1>3, <2>1
<1>5. ch \in Seq(Ids)
  BY <1>1, ChosenType
<1>6. Home(f) # fp0 => ch = <<>>
  BY <1>1 DEF Chosen, Flow
<1>7. /\ HeldLB(f)' = HeldLB(f) /\ QueuedLB(f)' = QueuedLB(f)
      /\ QueuedFP(f)' = QueuedFP(f) /\ QueuedOut(f)' = QueuedOut(f)
      /\ Arrived(f)' = Arrived(f)
  BY <1>1, <1>3, <1>4, Handlers, Untouched
<1>. HIDE DEF ch, x
<1>8. /\ HeldFP(f) = Glue(ch, HeldFP(f)')
      /\ pc'[fp0] = "push" => Leaving(f)' = Glue(Leaving(f), ch)
      /\ pc'[fp0] = "loop" => Leaving(f)' = Leaving(f)
      /\ ch = <<>> \/ (HeldFP(f) = ch /\ HeldFP(f)' = <<>> /\ Leaving(f) = <<>>)
  <2>1. CASE Home(f) = fp0
    <3>1. /\ HeldFP(f) = ch /\ HeldFP(f)' = <<>> /\ Leaving(f) = <<>>
          /\ pc'[fp0] = "push" => Leaving(f)' = ch
          /\ pc'[fp0] = "loop" => Leaving(f)' = <<>>
      BY <1>1, <1>4, <2>1, PiecesNext DEF InHand, ch, x
    <3>2. Glue(ch, <<>>) = ch /\ Glue(<<>>, ch) = ch
      BY <1>5, GlueNone
    <3>. QED
      BY <3>1, <3>2, Zenon
  <2>2. CASE Home(f) # fp0
    <3>1. HeldFP(f)' = HeldFP(f) /\ Leaving(f)' = Leaving(f)
      BY <1>1, <1>4, <2>2, Handlers, Untouched
    <3>2. /\ Glue(<<>>, HeldFP(f)) = HeldFP(f)
          /\ Glue(Leaving(f), <<>>) = Leaving(f)
      BY <1>1, RowsNext, GlueNone
    <3>. QED
      BY <1>6, <2>2, <3>1, <3>2, Zenon
  <2>. QED
    BY <2>1, <2>2
<1>9. FlowPending(f) = Glue(ch, FlowPending(f)')
  <2>1. /\ FlowPending(f) = Row(HeldFP(f), QueuedFP(f), HeldLB(f), QueuedLB(f))
        /\ FlowPending(f)' = Row(HeldFP(f)', QueuedFP(f), HeldLB(f), QueuedLB(f))
    BY <1>1, <1>7, RowsNext, Zenon
  <2>2. CASE HeldFP(f) = ch /\ HeldFP(f)' = <<>>
    <3>1. Row(ch, QueuedFP(f), HeldLB(f), QueuedLB(f))
              = Glue(ch, Row(<<>>, QueuedFP(f), HeldLB(f), QueuedLB(f)))
      BY <1>1, <1>5, RowsNext, RowShifts
    <3>. QED
      BY <2>1, <2>2, <3>1, Zenon
  <2>3. CASE ch = <<>>
    <3>1. HeldFP(f)' \in Seq(Ids)
      BY <1>1, RowsNext
    <3>2. Glue(<<>>, HeldFP(f)') = HeldFP(f)'
      BY <3>1, GlueNone
    <3>3. HeldFP(f) = HeldFP(f)'
      BY <1>8, <2>3, <3>2, Zenon
    <3>4. FlowPending(f) \in Seq(Ids)
      BY <1>1, <1>5, <2>1, RowsNext, RowShifts
    <3>5. Glue(<<>>, FlowPending(f)) = FlowPending(f)
      BY <3>4, GlueNone
    <3>. QED
      BY <2>1, <2>3, <3>3, <3>5, Zenon
  <2>. QED
    BY <1>8, <2>2, <2>3
<1>10. /\ FlowTransit(f) = Glue(QueuedOut(f), Leaving(f))
       /\ FlowTransit(f)' = Glue(QueuedOut(f), Leaving(f)')
       /\ Glue(QueuedOut(f), Glue(Leaving(f), ch))
              = Glue(Glue(QueuedOut(f), Leaving(f)), ch)
  <2>1. QueuedOut(f) \in Seq(Ids) /\ Leaving(f) \in Seq(Ids)
    BY <1>1, RowsNext
  <2>2. Glue(QueuedOut(f), Glue(Leaving(f), ch))
            = Glue(Glue(QueuedOut(f), Leaving(f)), ch)
    BY <1>5, <2>1, GlueAssoc
  <2>. QED
    BY <1>1, <1>7, <2>2, RowsNext, Zenon
<1>11. /\ pc'[fp0] = "push" => FlowTransit(f)' = Glue(FlowTransit(f), ch)
       /\ pc'[fp0] = "loop" => FlowTransit(f)' = FlowTransit(f)
  BY <1>8, <1>10, Zenon
<1>. QED
  BY <1>7, <1>9, <1>11, Zenon DEF ch, x

-----------------------------------------------------------------------------
(* The channels of all flows, as FlowChannel sees them. *)

\* The refinement mapping, by name.
Pends == [f \in Flows |-> FlowPending(f)]
Cuts == [f \in Flows |-> Entry(f).blocked]
Transits == [f \in Flows |-> FlowTransit(f)]
Deliveries == [f \in Flows |-> Arrived(f)]
\* process() has returned.
Closed == mainPc = "done"

\* FlowChannel in these terms.
LEMMA ChannelIs ==
    /\ Channel!Init <=>
           /\ total = 0
           /\ Pends = [f \in Flows |-> <<>>] /\ Cuts = [f \in Flows |-> FALSE]
           /\ Transits = [f \in Flows |-> <<>>]
           /\ Deliveries = [f \in Flows |-> <<>>]
           /\ Closed = FALSE
    /\ \A f \in Flows : Channel!Accept(f) <=>
           /\ ~Closed /\ total' = total + 1
           /\ Pends' = [Pends EXCEPT ![f] = Append(@, total + 1)]
           /\ UNCHANGED <<Cuts, Transits, Deliveries, Closed>>
    /\ \A f \in Flows : Channel!Forward(f) <=>
           /\ ~Closed /\ ~Cuts[f] /\ Pends[f] # <<>>
           /\ Transits' = [Transits EXCEPT ![f] = Append(@, Head(Pends[f]))]
           /\ Pends' = [Pends EXCEPT ![f] = Tail(@)]
           /\ UNCHANGED <<total, Cuts, Deliveries, Closed>>
    /\ \A f \in Flows : Channel!Drop(f) <=>
           /\ ~Closed /\ Pends[f] # <<>>
           /\ Cuts' = [Cuts EXCEPT ![f] = TRUE]
           /\ Pends' = [Pends EXCEPT ![f] = Tail(@)]
           /\ UNCHANGED <<total, Transits, Deliveries, Closed>>
    /\ \A f \in Flows : Channel!Deliver(f) <=>
           /\ ~Closed /\ Transits[f] # <<>>
           /\ Deliveries' = [Deliveries EXCEPT ![f] = Append(@, Head(Transits[f]))]
           /\ Transits' = [Transits EXCEPT ![f] = Tail(@)]
           /\ UNCHANGED <<total, Pends, Cuts, Closed>>
    /\ Channel!Close <=>
           /\ ~Closed /\ \A f \in Flows : Transits[f] = <<>>
           /\ Closed' = TRUE
           /\ UNCHANGED <<total, Pends, Cuts, Transits, Deliveries>>
    /\ UNCHANGED Channel!vars <=>
           UNCHANGED <<total, Pends, Cuts, Transits, Deliveries, Closed>>
  BY Zenon DEF Channel!Init, Channel!Accept, Channel!Forward, Channel!Drop, Channel!Deliver,
     Channel!Close, Channel!vars, Pends, Cuts, Transits, Deliveries, Closed,
     Entry, Home, Arrived

\* A packet that joins the back of its flow's sequence, or leaves the front.
Joined(P, g, x) == [P EXCEPT ![g] = Append(@, x)]
\* A packet that leaves the front.
Left(P, g) == [P EXCEPT ![g] = Tail(@)]

\* If each flow's sequence grows by what the packet contributes to it, then
\* only the packet's own flow's does.
LEMMA OneJoins ==
    ASSUME NEW P \in [Flows -> Seq(Ids)], NEW Q \in [Flows -> Seq(Ids)],
           NEW x \in Ids, NEW g \in Flows, g = Flow(x),
           \A f \in Flows : Q[f] = Glue(P[f], Chosen(capture, x, f))
    PROVE  Q = Joined(P, g, x)
<1>1. Q[g] = Append(P[g], x)
  <2>1. Chosen(capture, x, g) = Unit(x) /\ P[g] \in Seq(Ids)
    BY DEF Chosen, Flow
  <2>2. Append(P[g], x) = Glue(P[g], Unit(x))
    BY <2>1, GlueUnit
  <2>. QED
    BY <2>1, <2>2, Zenon
<1>2. ASSUME NEW f \in Flows \ {g} PROVE Q[f] = P[f]
  <2>1. Chosen(capture, x, f) = <<>> /\ P[f] \in Seq(Ids)
    BY DEF Chosen, Flow
  <2>2. Glue(P[f], <<>>) = P[f]
    BY <2>1, GlueNone
  <2>. QED
    BY <2>1, <2>2, Zenon
<1>3. PICK a : a = Append(P[g], x)
  OBVIOUS
<1>4. Q = [P EXCEPT ![g] = a]
  BY <1>1, <1>2, <1>3
<1>. QED
  BY <1>3, <1>4, Zenon DEF Joined

\* The same of a packet that leaves.
LEMMA OneLeaves ==
    ASSUME NEW P \in [Flows -> Seq(Ids)], NEW Q \in [Flows -> Seq(Ids)],
           NEW x \in Ids, NEW g \in Flows, g = Flow(x),
           \A f \in Flows : P[f] = Glue(Chosen(capture, x, f), Q[f])
    PROVE  P[g] # <<>> /\ Head(P[g]) = x /\ Q = Left(P, g)
<1>1. P[g] = Glue(Unit(x), Q[g]) /\ Q[g] \in Seq(Ids)
  <2>1. Chosen(capture, x, g) = Unit(x)
    BY DEF Chosen, Flow
  <2>. QED
    BY <2>1, Zenon
<1>2. P[g] # <<>> /\ Head(P[g]) = x /\ Tail(P[g]) = Q[g]
  <2>1. PICK a : a = Q[g]
    OBVIOUS
  <2>2. a \in Seq(Ids)
    BY <1>1, <2>1
  <2>3. /\ Head(Glue(Unit(x), a)) = x /\ Tail(Glue(Unit(x), a)) = a
        /\ Glue(Unit(x), a) # <<>>
    BY <2>2, GlueUnit
  <2>. QED
    BY <1>1, <2>1, <2>3, Zenon
<1>3. ASSUME NEW f \in Flows \ {g} PROVE Q[f] = P[f]
  <2>1. Chosen(capture, x, f) = <<>> /\ Q[f] \in Seq(Ids)
    BY DEF Chosen, Flow
  <2>2. Glue(<<>>, Q[f]) = Q[f]
    BY <2>1, GlueNone
  <2>. QED
    BY <2>1, <2>2, Zenon
<1>4. PICK a : a = Tail(P[g])
  OBVIOUS
<1>5. Q = [P EXCEPT ![g] = a]
  BY <1>2, <1>3, <1>4
<1>. QED
  BY <1>2, <1>4, <1>5, Zenon DEF Left

\* The types of the mapping.
LEMMA ChannelTypes ==
    ASSUME Chain, Chain', capture' = capture
    PROVE  /\ Pends \in [Flows -> Seq(Ids)] /\ Pends' \in [Flows -> Seq(Ids)]
           /\ Transits \in [Flows -> Seq(Ids)] /\ Transits' \in [Flows -> Seq(Ids)]
           /\ Deliveries \in [Flows -> Seq(Ids)]
           /\ Deliveries' \in [Flows -> Seq(Ids)]
<1>1. ASSUME NEW f \in Flows
      PROVE  /\ FlowPending(f) \in Seq(Ids) /\ FlowPending(f)' \in Seq(Ids)
             /\ FlowTransit(f) \in Seq(Ids) /\ FlowTransit(f)' \in Seq(Ids)
             /\ Arrived(f) \in Seq(Ids) /\ Arrived(f)' \in Seq(Ids)
  <2>1. /\ QueuedLB(f) \in Seq(Ids) /\ HeldLB(f) \in Seq(Ids)
        /\ QueuedFP(f) \in Seq(Ids) /\ HeldFP(f) \in Seq(Ids)
        /\ Leaving(f) \in Seq(Ids) /\ QueuedOut(f) \in Seq(Ids)
    BY RowsNext
  <2>2. /\ QueuedLB(f)' \in Seq(Ids) /\ HeldLB(f)' \in Seq(Ids)
        /\ QueuedFP(f)' \in Seq(Ids) /\ HeldFP(f)' \in Seq(Ids)
        /\ Leaving(f)' \in Seq(Ids) /\ QueuedOut(f)' \in Seq(Ids)
    BY RowsNext
  <2>3. /\ Row(HeldFP(f), QueuedFP(f), HeldLB(f), QueuedLB(f)) \in Seq(Ids)
        /\ Glue(QueuedOut(f), Leaving(f)) \in Seq(Ids)
    BY <2>1, RowShifts, GlueType
  <2>4. /\ Row(HeldFP(f)', QueuedFP(f)', HeldLB(f)', QueuedLB(f)') \in Seq(Ids)
        /\ Glue(QueuedOut(f)', Leaving(f)') \in Seq(Ids)
    BY <2>2, RowShifts, GlueType
  <2>. QED
    BY <2>3, <2>4, RowsNext, Zenon
<1>. QED
  BY <1>1 DEF Pends, Transits, Deliveries

\* Once process() is done no thread takes a step any more.
LEMMA NotYet ==
    ASSUME TypeOK, StopInv, DoneInv, [Next]_vars, ~Idle
    PROVE  ~Closed /\ ~Closed'
<1>1. Closed => \A t \in Threads : pc[t] = "exit"
  <2>1. \A t \in Threads : t < Writer \/ t = Writer
    BY Shape DEF Threads
  <2>. QED
    BY <2>1 DEF StopInv, DoneInv, Closed
<1>2. ASSUME NEW lb \in LBs, LBTake(lb) \/ LBPush(lb)
      PROVE  pc[lb] # "exit" /\ mainPc' = mainPc /\ lb \in Threads
  BY <1>2, Apart DEF LBTake, LBPush, Take, mainVars
<1>3. ASSUME NEW fp \in FPs, FPTake(fp) \/ FPInspect(fp) \/ FPPush(fp)
      PROVE  pc[fp] # "exit" /\ mainPc' = mainPc /\ fp \in Threads
  BY <1>3, Apart DEF FPTake, FPInspect, FPPush, Take, mainVars
<1>4. WriterTake => pc[Writer] # "exit" /\ mainPc' = mainPc /\ Writer \in Threads
  BY Shape DEF WriterTake, mainVars
<1>5. Read => mainPc = "read" /\ mainPc' = mainPc
  BY DEF Read, mainVars
<1>. QED
  BY <1>1, <1>2, <1>3, <1>4, <1>5, StepsSorted DEF Closed

\* What every step of the engine is to the flows.
LEMMA ReadIsAccept ==
    ASSUME TypeOK, StopInv, DoneInv, OrderInv, Chain, Chain', Read,
           ~Closed, ~Closed'
    PROVE  \E g \in Flows : Channel!Accept(g)
<1>1. ShutdownOrder
  BY StopImpliesOrder
<1>. DEFINE x == total + 1
<1>2. x \in Ids /\ Flow(x) \in Flows
  <2>1. x \in Ids
    BY <1>1, CaptureAssumption DEF Read, TypeOK, Ids
  <2>. QED
    BY <2>1, PacketType
<1>3. /\ capture' = capture /\ total' = x /\ flows' = flows
      /\ Ids' = Ids
  BY DEF Read, inspectVars, Ids
<1>4. ASSUME NEW f \in Flows
      PROVE  /\ FlowPending(f)' = Glue(FlowPending(f), Chosen(capture, x, f))
             /\ FlowTransit(f)' = FlowTransit(f) /\ Arrived(f)' = Arrived(f)
  BY <1>1, ReadAccepts
<1>5. Transits' = Transits /\ Deliveries' = Deliveries /\ Cuts' = Cuts
  BY <1>3, <1>4 DEF Transits, Deliveries, Cuts, Entry
<1>6. PICK y, g : y = x /\ g = Flow(x)
  OBVIOUS
<1>7. Pends' = Joined(Pends, g, y)
  <2>1. Pends \in [Flows -> Seq(Ids)] /\ Pends' \in [Flows -> Seq(Ids)]
    BY <1>3, ChannelTypes
  <2>2. \A f \in Flows : Pends'[f] = Glue(Pends[f], Chosen(capture, y, f))
    BY <1>4, <1>6 DEF Pends
  <2>3. y \in Ids /\ g \in Flows /\ g = Flow(y)
    BY <1>2, <1>6
  <2>. QED
    BY <2>1, <2>2, <2>3, OneJoins
<1>8. Closed' = Closed
  BY DEF Read, mainVars, Closed
<1>9. Channel!Accept(g) /\ g \in Flows
  BY <1>2, <1>3, <1>5, <1>6, <1>7, <1>8, ChannelIs, Zenon DEF Joined, Left
<1>. QED
  BY <1>9

\* A verdict is Forward or Drop of the packet's flow.
LEMMA InspectIsVerdict ==
    ASSUME TypeOK, OrderInv, Chain, Chain', NEW fp0 \in FPs, FPInspect(fp0),
           ~Closed, ~Closed'
    PROVE  \E g \in Flows : Channel!Forward(g) \/ Channel!Drop(g)
<1>1. PICK x \in Ids, g \in Flows :
           /\ x = hand[fp0] /\ g = Flow(x) /\ Home(g) = fp0 /\ pc[fp0] = "inspect"
           /\ UNCHANGED <<capture, queue, written, total, mainPc>>
           /\ \A f \in Flows \ {g} : Entry(f)' = Entry(f)
           /\ \/ /\ pc' = [pc EXCEPT ![fp0] = "push"] /\ hand' = hand
                 /\ ~Entry(g).blocked
                 /\ Entry(g)'.blocked = Entry(g).blocked
              \/ /\ pc' = [pc EXCEPT ![fp0] = "loop"]
                 /\ hand' = [hand EXCEPT ![fp0] = Nothing]
                 /\ Entry(g)'.blocked = TRUE
  BY Decided
<1>2. capture' = capture /\ total' = total /\ Ids' = Ids /\ Closed' = Closed
  BY <1>1 DEF Ids, Closed
<1>0. g = Flow(x)
  BY <1>1
<1>3. ASSUME NEW f \in Flows
      PROVE  /\ FlowPending(f) = Glue(Chosen(capture, x, f), FlowPending(f)')
             /\ Arrived(f)' = Arrived(f)
             /\ pc'[fp0] = "push" =>
                    FlowTransit(f)' = Glue(FlowTransit(f), Chosen(capture, x, f))
             /\ pc'[fp0] = "loop" => FlowTransit(f)' = FlowTransit(f)
  BY <1>1, InspectDecides
<1>4. Deliveries' = Deliveries
  BY <1>3 DEF Deliveries
<1>5. /\ Pends \in [Flows -> Seq(Ids)] /\ Pends' \in [Flows -> Seq(Ids)]
      /\ Transits \in [Flows -> Seq(Ids)] /\ Transits' \in [Flows -> Seq(Ids)]
  BY <1>2, ChannelTypes
<1>6. /\ Pends[g] # <<>> /\ Head(Pends[g]) = x
      /\ Pends' = Left(Pends, g)
  <2>1. \A f \in Flows : Pends[f] = Glue(Chosen(capture, x, f), Pends'[f])
    BY <1>3 DEF Pends
  <2>. QED
    BY <1>0, <1>5, <2>1, OneLeaves
<1>7. fp0 \in DOMAIN pc
  BY Apart DEF TypeOK
<1>8. CASE /\ pc' = [pc EXCEPT ![fp0] = "push"]
           /\ ~Entry(g).blocked /\ Entry(g)'.blocked = Entry(g).blocked
  <2>1. Transits' = Joined(Transits, g, x)
    <3>1. \A f \in Flows : Transits'[f] = Glue(Transits[f], Chosen(capture, x, f))
      BY <1>3, <1>7, <1>8 DEF Transits
    <3>. QED
      BY <1>0, <1>5, <3>1, OneJoins
  <2>2. Cuts' = Cuts /\ ~Cuts[g]
    <3>1. \A f \in Flows : Entry(f)'.blocked = Entry(f).blocked
      BY <1>1, <1>8, Zenon
    <3>. QED
      BY <1>8, <3>1 DEF Cuts
  <2>3. Channel!Forward(g)
    BY <1>2, <1>4, <1>6, <2>1, <2>2, ChannelIs, Zenon DEF Joined, Left
  <2>. QED
    BY <2>3
<1>9. CASE /\ pc' = [pc EXCEPT ![fp0] = "loop"]
           /\ Entry(g)'.blocked = TRUE
  <2>1. Transits' = Transits
    BY <1>3, <1>7, <1>9 DEF Transits
  <2>2. Cuts' = [Cuts EXCEPT ![g] = TRUE]
    <3>1. /\ \A f \in Flows \ {g} : Cuts'[f] = Cuts[f]
          /\ Cuts'[g] = TRUE
      BY <1>1, <1>9 DEF Cuts
    <3>2. Cuts = [f \in Flows |-> Cuts[f]] /\ Cuts' = [f \in Flows |-> Cuts'[f]]
      BY DEF Cuts
    <3>. QED
      BY <3>1, <3>2
  <2>3. Channel!Drop(g)
    BY <1>2, <1>4, <1>6, <2>1, <2>2, ChannelIs, Zenon DEF Joined, Left
  <2>. QED
    BY <2>3
<1>. QED
  BY <1>1, <1>8, <1>9

\* The writer's step is Deliver.
LEMMA TakeIsDeliver ==
    ASSUME TypeOK, Chain, Chain', WriterTake, ~Closed, ~Closed'
    PROVE  \E g \in Flows : Channel!Deliver(g)
<1>. DEFINE x == Head(queue[Writer])
<1>1. /\ capture' = capture /\ total' = total /\ Ids' = Ids /\ Closed' = Closed
      /\ flows' = flows
  BY DEF WriterTake, inspectVars, mainVars, Ids, Closed
<1>2. x \in Ids /\ Flow(x) \in Flows
  <2>1. x \in Ids
    BY QueueType, Shape DEF WriterTake, TypeOK
  <2>. QED
    BY <2>1, PacketType
<1>3. ASSUME NEW f \in Flows
      PROVE  /\ FlowPending(f)' = FlowPending(f)
             /\ FlowTransit(f) = Glue(Chosen(capture, x, f), FlowTransit(f)')
             /\ Arrived(f)' = Glue(Arrived(f), Chosen(capture, x, f))
  BY WriterDelivers
<1>4. PICK y, g : y = x /\ g = Flow(x)
  OBVIOUS
<1>5. y \in Ids /\ g \in Flows /\ g = Flow(y)
  BY <1>2, <1>4
<1>6. /\ Deliveries \in [Flows -> Seq(Ids)] /\ Deliveries' \in [Flows -> Seq(Ids)]
      /\ Transits \in [Flows -> Seq(Ids)] /\ Transits' \in [Flows -> Seq(Ids)]
  BY <1>1, ChannelTypes
<1>7. /\ Transits[g] # <<>> /\ Head(Transits[g]) = y
      /\ Transits' = Left(Transits, g)
  <2>1. \A f \in Flows : Transits[f] = Glue(Chosen(capture, y, f), Transits'[f])
    BY <1>3, <1>4 DEF Transits
  <2>. QED
    BY <1>5, <1>6, <2>1, OneLeaves
<1>8. Deliveries' = Joined(Deliveries, g, y)
  <2>1. \A f \in Flows : Deliveries'[f] = Glue(Deliveries[f], Chosen(capture, y, f))
    BY <1>3, <1>4 DEF Deliveries
  <2>. QED
    BY <1>5, <1>6, <2>1, OneJoins
<1>9. Pends' = Pends /\ Cuts' = Cuts
  BY <1>1, <1>3 DEF Pends, Cuts, Entry
<1>10. Channel!Deliver(g)
  BY <1>1, <1>5, <1>7, <1>8, <1>9, ChannelIs, Zenon DEF Joined, Left
<1>. QED
  BY <1>5, <1>10

\* A step in which nothing is decided or delivered is none to the flows.
LEMMA SilentStep ==
    ASSUME UNCHANGED <<total, flows, mainPc>>,
           \A f \in Flows : /\ FlowPending(f)' = FlowPending(f)
                            /\ FlowTransit(f)' = FlowTransit(f)
                            /\ Arrived(f)' = Arrived(f)
    PROVE  UNCHANGED Channel!vars
<1>1. /\ Pends' = Pends /\ Cuts' = Cuts /\ Transits' = Transits
      /\ Deliveries' = Deliveries /\ Closed' = Closed
  BY DEF Pends, Cuts, Transits, Deliveries, Closed, Entry
<1>. QED
  BY <1>1, ChannelIs, Zenon

\* Nothing is on its way to the file when the writer is joined.
LEMMA NothingLeaves ==
    ASSUME TypeOK, StopInv, DoneInv, cursor = Writer, pc[Writer] = "exit",
           NEW f \in Flows
    PROVE  FlowTransit(f) = <<>>
<1>1. pc[Home(f)] = "exit" /\ queue[Writer] = <<>>
  <2>1. Home(f) \in Threads /\ Home(f) < Writer
    <3>1. 1 \in LBs
      BY ShapeAssumption DEF LBs
    <3>. QED
      BY <3>1, Handlers, Shape
  <2>. QED
    BY <2>1 DEF StopInv, DoneInv
<1>2. Built(f)
  BY ChainHolds DEF Chain
<1>3. QueuedOut(f) = <<>>
  BY <1>1, <1>2, SelectNone, Zenon DEF Built, Queued
<1>4. Leaving(f) = <<>>
  BY <1>1, <1>2 DEF Built, InHand
<1>5. <<>> \in Seq(Ids) /\ Glue(<<>>, <<>>) = <<>>
  BY DEF Glue
<1>. QED
  BY <1>2, <1>3, <1>4, <1>5, Zenon DEF Built

\* A step that touches no packet is Close or a stutter; process() returns only
\* when the threads have left, so that nothing moves after it.
LEMMA IdleIsClose ==
    ASSUME TypeOK, StopInv, DoneInv, Chain, Chain', Idle, [Next]_vars
    PROVE  Channel!Close \/ UNCHANGED Channel!vars
<1>1. UNCHANGED <<total, flows>>
  BY DEF Idle, inspectVars
<1>2. ASSUME NEW f \in Flows
      PROVE  /\ FlowPending(f)' = FlowPending(f)
             /\ FlowTransit(f)' = FlowTransit(f) /\ Arrived(f)' = Arrived(f)
  BY IdleKeeps
<1>3. /\ Pends' = Pends /\ Cuts' = Cuts /\ Transits' = Transits
      /\ Deliveries' = Deliveries
  BY <1>1, <1>2 DEF Pends, Cuts, Transits, Deliveries, Entry
<1>4. CASE Closed' = Closed
  BY <1>1, <1>3, <1>4, ChannelIs, Zenon
<1>5. CASE ~Closed /\ Closed'
  <2>1. cursor = Writer /\ pc[Writer] = "exit"
    <3>1. Join
      BY <1>5 DEF Next, LBStep, FPStep, WriterStep, MainStep, LoopTest, PopNothing,
         LBTake, LBPush, FPTake, FPInspect, FPPush, WriterTake, Read, EndOfFile, Sleep,
         ClearFlag, Shutdown, MainGoes, Finished, vars, mainVars, Closed
    <3>. QED
      BY <1>5, <3>1 DEF Join, MainGoes, Closed
  <2>2. \A f \in Flows : Transits[f] = <<>>
    BY <2>1, NothingLeaves DEF Transits
  <2>3. Closed' = TRUE
    BY <1>5 DEF Closed
  <2>. QED
    BY <1>1, <1>3, <1>5, <2>2, <2>3, ChannelIs, Zenon
<1>6. ~(Closed /\ ~Closed')
  BY DEF Next, LBStep, FPStep, WriterStep, MainStep, LoopTest, PopNothing, LBTake,
     LBPush, FPTake, FPInspect, FPPush, WriterTake, Read, EndOfFile, Sleep, ClearFlag,
     Shutdown, Join, MainGoes, Finished, vars, mainVars, Closed
<1>7. Closed \in BOOLEAN /\ Closed' \in BOOLEAN
  BY DEF Closed
<1>. QED
  BY <1>4, <1>5, <1>6, <1>7

\* Every step of the engine is a step of the channel or a stutter.
LEMMA ChannelNext ==
    ASSUME TypeOK, StopInv, DoneInv, OrderInv, Chain, Chain', [Next]_vars
    PROVE  [Channel!Next]_(Channel!vars)
<1>0. ShutdownOrder
  BY StopImpliesOrder
<1>1. CASE Idle
  BY <1>1, IdleIsClose DEF Channel!Next
<1>2. CASE ~Idle
  <2>0. ~Closed /\ ~Closed'
    BY <1>2, NotYet
  <2>1. CASE Read
    BY <2>0, <2>1, ReadIsAccept DEF Channel!Next
  <2>2. ASSUME NEW lb \in LBs, LBTake(lb) \/ LBPush(lb) PROVE UNCHANGED Channel!vars
    <3>1. UNCHANGED <<total, flows, mainPc>>
      BY <2>2 DEF LBTake, LBPush, mainVars, inspectVars
    <3>2. ASSUME NEW f \in Flows
          PROVE  /\ FlowPending(f)' = FlowPending(f)
                 /\ FlowTransit(f)' = FlowTransit(f) /\ Arrived(f)' = Arrived(f)
      BY <1>0, <2>2, LBTakeKeeps, LBPushKeeps
    <3>. QED
      BY <3>1, <3>2, SilentStep
  <2>3. ASSUME NEW fp \in FPs, FPTake(fp) \/ FPPush(fp) PROVE UNCHANGED Channel!vars
    <3>1. UNCHANGED <<total, flows, mainPc>>
      BY <2>3 DEF FPTake, FPPush, mainVars, inspectVars
    <3>2. ASSUME NEW f \in Flows
          PROVE  /\ FlowPending(f)' = FlowPending(f)
                 /\ FlowTransit(f)' = FlowTransit(f) /\ Arrived(f)' = Arrived(f)
      BY <1>0, <2>3, FPTakeKeeps, FPPushKeeps
    <3>. QED
      BY <3>1, <3>2, SilentStep
  <2>4. ASSUME NEW fp \in FPs, FPInspect(fp)
        PROVE  \E g \in Flows : Channel!Forward(g) \/ Channel!Drop(g)
    BY <2>0, <2>4, InspectIsVerdict
  <2>5. CASE WriterTake
    BY <2>0, <2>5, TakeIsDeliver DEF Channel!Next
  <2>. QED
    BY <1>2, <2>1, <2>2, <2>3, <2>4, <2>5, StepsSorted DEF Channel!Next
<1>. QED
  BY <1>1, <1>2

\* And it starts as one.
LEMMA ChannelInit == Init => Channel!Init
<1>. SUFFICES ASSUME Init PROVE Channel!Init
  OBVIOUS
<1>1. TypeOK /\ total = 0 /\ written = <<>> /\ mainPc = "read"
      /\ \A t \in Threads : queue[t] = <<>> /\ pc[t] = "loop"
  BY TypeInit DEF Init
<1>2. ASSUME NEW f \in Flows
      PROVE  FlowPending(f) = <<>> /\ FlowTransit(f) = <<>> /\ Arrived(f) = <<>>
  <2>1. Built(f)
    BY <1>1, ChainHolds DEF Chain
  <2>2. /\ QueuedLB(f) = <<>> /\ QueuedFP(f) = <<>> /\ QueuedOut(f) = <<>>
        /\ Arrived(f) = <<>>
    BY <1>1, <2>1, Handlers, SelectNone, Zenon DEF Built, Queued
  <2>3. HeldLB(f) = <<>> /\ HeldFP(f) = <<>> /\ Leaving(f) = <<>>
    BY <1>1, <2>1, Handlers DEF Built, InHand
  <2>4. Glue(<<>>, <<>>) = <<>>
    BY DEF Glue
  <2>. QED
    BY <2>1, <2>2, <2>3, <2>4, Zenon DEF Built, Row
<1>3. ASSUME NEW f \in Flows PROVE Entry(f).blocked = FALSE
  <2>1. Home(f) \in FPs
    BY Handlers
  <2>. QED
    BY <2>1 DEF Init, Entry, NewFlow
<1>4. /\ Pends = [f \in Flows |-> <<>>] /\ Cuts = [f \in Flows |-> FALSE]
      /\ Transits = [f \in Flows |-> <<>>] /\ Deliveries = [f \in Flows |-> <<>>]
      /\ Closed = FALSE
  BY <1>1, <1>2, <1>3 DEF Pends, Cuts, Transits, Deliveries, Closed
<1>. QED
  BY <1>1, <1>4, ChannelIs, Zenon

\* README.md:435-458 for every number of threads, queue size and capture: each
\* flow sees an ordered, lossless, at-most-once channel that stays cut once it
\* is cut, and that has delivered what it let through when process() is done.
THEOREM EngineIsFlowChannel == Spec => ImplementsFlowChannel
<1>. DEFINE Inv == TypeOK /\ StopInv /\ DoneInv /\ OrderInv
<1>1. Init => Inv
  <2>1. Init => DoneInv
    BY Shape DEF Init, DoneInv
  <2>. QED
    BY <2>1, OrderInit, StopInit
<1>2. Inv /\ [Next]_vars => Inv'
  BY TypeNext, StopNext, StopImpliesOrder, DoneNext, OrderNext
<1>3. Inv => Chain
  BY ChainHolds
<1>4. Inv /\ Chain /\ Chain' /\ [Next]_vars => [Channel!Next]_(Channel!vars)
  BY ChannelNext
<1>5. Init => Channel!Init
  BY ChannelInit
<1>. HIDE DEF Inv
<1>6. Spec => []Inv
  BY <1>1, <1>2, PTL DEF Spec
<1>7. Spec => []Chain
  BY <1>3, <1>6, PTL
<1>. QED
  BY <1>4, <1>5, <1>6, <1>7, PTL DEF Spec, ImplementsFlowChannel, Channel!Spec

-----------------------------------------------------------------------------
(* The single-threaded program.  What its loop has after every packet is a  *)
(* function of the capture.                                                 *)

\* Counting up: a set that holds zero, and with a number the next one.
LEMMA CountingUp ==
    ASSUME NEW N \in Nat, NEW G, 0 \in G,
           \A n \in 1 .. N : n - 1 \in G => n \in G
    PROVE  \A n \in 0 .. N : n \in G
<1>. DEFINE Bad == {n \in 0 .. N : n \notin G}
<1>1. SUFFICES ASSUME Bad # {} PROVE FALSE
  OBVIOUS
<1>2. PICK n \in Bad : \A m \in Bad : n =< m
  <2>1. Bad \in SUBSET Nat
    OBVIOUS
  <2>. HIDE DEF Bad
  <2>. QED
    BY <1>1, <2>1, LeastNumber
<1>3. n \in 1 .. N /\ n - 1 \in 0 .. N /\ ~(n =< n - 1)
  BY <1>2
<1>. QED
  BY <1>2, <1>3

\* s has the state of the loop after every number of packets.
Loops(c, s) ==
    s = [n \in 0 .. Len(c) |->
            IF n = 0 THEN Sequential!Start ELSE Sequential!Turn(s[n - 1], c[n])]

\* There is such a function, and the run is its last value.
LEMMA LoopsSome ==
    ASSUME NEW c, Len(c) \in Nat
    PROVE  \E s : Loops(c, s)
<1>. DEFINE Upto(n, h) == \A m \in 0 .. n :
                h[m] = IF m = 0 THEN Sequential!Start
                       ELSE Sequential!Turn(h[m - 1], c[m])
            G == {n \in 0 .. Len(c) : \E h : Upto(n, h)}
<1>1. 0 \in G
  <2>1. Upto(0, [m \in 0 .. 0 |-> Sequential!Start])
    OBVIOUS
  <2>2. 0 \in 0 .. Len(c)
    OBVIOUS
  <2>. HIDE DEF Upto
  <2>. QED
    BY <2>1, <2>2
<1>2. ASSUME NEW n \in 1 .. Len(c), n - 1 \in G PROVE n \in G
  <2>1. PICK h : Upto(n - 1, h)
    BY <1>2
  <2>. DEFINE new == Sequential!Turn(h[n - 1], c[n])
              g == [m \in 0 .. n |-> IF m = n THEN new ELSE h[m]]
  <2>2. n - 1 \in 0 .. n - 1 /\ n # 0 /\ n \in 0 .. n
        /\ \A m \in 0 .. n : m = n \/ m \in 0 .. n - 1
    BY <1>2
  <2>. HIDE DEF new
  <2>3. g[n] = new /\ \A m \in 0 .. n - 1 : g[m] = h[m]
    BY <1>2
  <2>. HIDE DEF g
  <2>4. ASSUME NEW m \in 0 .. n
        PROVE  g[m] = IF m = 0 THEN Sequential!Start
                      ELSE Sequential!Turn(g[m - 1], c[m])
    <3>1. CASE m = n
      BY <2>2, <2>3, <3>1 DEF new
    <3>2. CASE m # n /\ m = 0
      <4>1. m \in 0 .. n - 1 /\ g[m] = h[m]
        BY <2>2, <2>3, <3>2
      <4>2. h[m] = Sequential!Start
        BY <2>1, <3>2, <4>1
      <4>. QED
        BY <3>2, <4>1, <4>2
    <3>3. CASE m # n /\ m # 0
      <4>1. m \in 0 .. n - 1 /\ m - 1 \in 0 .. n - 1
        BY <2>2, <3>3
      <4>2. g[m] = h[m] /\ g[m - 1] = h[m - 1]
        BY <2>3, <4>1
      <4>3. h[m] = Sequential!Turn(h[m - 1], c[m])
        BY <2>1, <3>3, <4>1
      <4>. QED
        BY <3>3, <4>2, <4>3
    <3>. QED
      BY <3>1, <3>2, <3>3
  <2>5. Upto(n, g) /\ n \in 0 .. Len(c)
    BY <1>2, <2>4
  <2>. HIDE DEF Upto
  <2>. QED
    BY <2>5
<1>3. Len(c) \in G
  <2>. HIDE DEF G
  <2>1. \A n \in 0 .. Len(c) : n \in G
    BY <1>1, <1>2, CountingUp
  <2>. QED
    BY <2>1
<1>4. PICK h : Upto(Len(c), h)
  BY <1>3
<1>. DEFINE s == [n \in 0 .. Len(c) |-> h[n]]
<1>5. Loops(c, s)
  <2>1. \A n \in 0 .. Len(c) : s[n] = h[n]
    OBVIOUS
  <2>2. \A n \in 0 .. Len(c) : n # 0 => n - 1 \in 0 .. Len(c)
    OBVIOUS
  <2>3. s = [n \in 0 .. Len(c) |-> s[n]]
    OBVIOUS
  <2>. HIDE DEF s
  <2>4. ASSUME NEW n \in 0 .. Len(c)
        PROVE  s[n] = IF n = 0 THEN Sequential!Start
                      ELSE Sequential!Turn(s[n - 1], c[n])
    <3>1. CASE n = 0
      BY <1>4, <2>1, <3>1
    <3>2. CASE n # 0
      <4>1. s[n] = h[n] /\ s[n - 1] = h[n - 1]
        BY <2>1, <2>2, <3>2
      <4>2. h[n] = Sequential!Turn(h[n - 1], c[n])
        BY <1>4, <3>2
      <4>. QED
        BY <3>2, <4>1, <4>2
    <3>. QED
      BY <3>1, <3>2
  <2>. QED
    BY <2>3, <2>4 DEF Loops
<1>. QED
  BY <1>5

\* The state of the loop after every packet of the capture.
LoopOf(c) == CHOOSE s : Loops(c, s) /\ Sequential!Run(c) = s[Len(c)]
Loop == LoopOf(capture)
\* What the loop knows of a flow after packet n.
Known(n, f) == Loop[n].flows[f]

\* It starts empty and takes a turn for each packet.
LEMMA LoopIs ==
    ASSUME TypeOK
    PROVE  /\ Sequential!Run(capture) = Loop[Len(capture)]
           /\ Loop[0] = Sequential!Start
           /\ \A n \in Ids : Loop[n] = Sequential!Turn(Loop[n - 1], capture[n])
<1>1. Len(capture) \in Nat
  BY CaptureAssumption DEF TypeOK
<1>2. PICK s : Loops(capture, s)
  BY <1>1, LoopsSome
<1>3. \E t : Loops(capture, t) /\ Sequential!Run(capture) = t[Len(capture)]
  BY <1>2, Zenon DEF Sequential!Run, Loops
<1>4. /\ Loops(capture, Loop)
      /\ Sequential!Run(capture) = Loop[Len(capture)]
  BY <1>3, Zenon DEF Loop, LoopOf
<1>5. \A n \in 0 .. Len(capture) :
          Loop[n] = IF n = 0 THEN Sequential!Start
                    ELSE Sequential!Turn(Loop[n - 1], capture[n])
  BY <1>4, Zenon DEF Loops
<1>6. /\ 0 \in 0 .. Len(capture)
      /\ \A n \in Ids : n \in 0 .. Len(capture) /\ n # 0
  BY <1>1 DEF Ids
<1>. QED
  BY <1>4, <1>5, <1>6, Zenon

\* What the loop keeps.
SeqEntry == [app : AppTypes, sni : Names, blocked : BOOLEAN]
LoopState == [flows : [Flows -> SeqEntry], read : Nat,
              appStats : [AppTypes -> Nat], forwarded : Nat, dropped : Nat,
              output : Seq(Nat)]

\* Identifying a flow keeps the types and does not look at the block.
LEMMA SeqIdentified ==
    ASSUME NEW f \in Flows, NEW h \in Names \cup {NoHost}, NEW k \in SeqEntry
    PROVE  /\ Sequential!Identified(f, h, k) \in SeqEntry
           /\ Sequential!Identified(f, h, k).blocked = k.blocked
<1>. DEFINE named == Sequential!Named(f, h, k)
<1>1. named \in SeqEntry /\ named.blocked = k.blocked
  BY NameAssumption DEF Sequential!Named, SeqEntry
<1>2. Sequential!AppByPort(f) \in AppTypes
  BY NameAssumption DEF Sequential!AppByPort
<1>. HIDE DEF named
<1>3. /\ [named EXCEPT !.app = Sequential!AppByPort(f)] \in SeqEntry
      /\ [named EXCEPT !.app = Sequential!AppByPort(f)].blocked = k.blocked
  BY <1>1, <1>2 DEF SeqEntry
<1>. QED
  BY <1>1, <1>3 DEF Sequential!Identified, named

\* What a turn does.
LEMMA TurnDoes ==
    ASSUME NEW s \in LoopState, NEW p \in Packet
    PROVE  \E found \in SeqEntry, t \in LoopState, stop \in BOOLEAN :
           /\ found = Sequential!Identified(p.flow, p.host, s.flows[p.flow])
           /\ t = Sequential!Turn(s, p)
           /\ stop <=> found.blocked \/ Sequential!IsBlocked(p.flow, found)
           /\ t.flows[p.flow] = [found EXCEPT !.blocked = stop]
           /\ \A g \in Flows \ {p.flow} : t.flows[g] = s.flows[g]
           /\ t.read = s.read + 1
           /\ t.appStats = [s.appStats EXCEPT ![found.app] = @ + 1]
           /\ t.forwarded = IF stop THEN s.forwarded ELSE s.forwarded + 1
           /\ t.output = IF stop THEN s.output ELSE Append(s.output, s.read + 1)
<1>. DEFINE f == p.flow
            found == Sequential!Identified(f, p.host, s.flows[f])
            stop == found.blocked \/ Sequential!IsBlocked(f, found)
            entry == [found EXCEPT !.blocked = stop]
            t == Sequential!Turn(s, p)
<1>1. /\ f \in Flows /\ p.host \in Names \cup {NoHost}
      /\ s.flows \in [Flows -> SeqEntry] /\ s.read \in Nat
      /\ s.appStats \in [AppTypes -> Nat] /\ s.forwarded \in Nat
      /\ s.dropped \in Nat /\ s.output \in Seq(Nat)
  BY DEF Packet, LoopState
<1>2. found \in SeqEntry
  BY <1>1, SeqIdentified
<1>3. t = [flows |-> [s.flows EXCEPT ![f] = entry],
           read |-> s.read + 1,
           appStats |-> [s.appStats EXCEPT ![found.app] = @ + 1],
           forwarded |-> s.forwarded + (IF stop THEN 0 ELSE 1),
           dropped |-> s.dropped + (IF stop THEN 1 ELSE 0),
           output |-> IF stop THEN s.output ELSE Append(s.output, s.read + 1)]
  BY DEF Sequential!Turn
<1>. HIDE DEF f, found, t
<1>4. stop \in BOOLEAN
  BY <1>2 DEF SeqEntry, Sequential!IsBlocked
<1>5. PICK c \in BOOLEAN : c <=> stop
  BY <1>4
<1>. DEFINE e == [found EXCEPT !.blocked = c]
<1>6. e = entry /\ e \in SeqEntry /\ found.app \in AppTypes
  <2>1. c = stop
    BY <1>4, <1>5
  <2>2. e = entry
    BY <2>1
  <2>3. e \in SeqEntry /\ found.app \in AppTypes
    BY <1>2 DEF SeqEntry
  <2>. QED
    BY <2>2, <2>3
<1>. HIDE DEF entry, stop, e
<1>7. /\ t.flows = [s.flows EXCEPT ![f] = e]
      /\ t.read = s.read + 1
      /\ t.appStats = [s.appStats EXCEPT ![found.app] = @ + 1]
      /\ t.forwarded = IF c THEN s.forwarded ELSE s.forwarded + 1
      /\ t.output = IF c THEN s.output ELSE Append(s.output, s.read + 1)
      /\ t.dropped = IF c THEN s.dropped + 1 ELSE s.dropped
  BY <1>1, <1>3, <1>5, <1>6
<1>8. t \in LoopState
  <2>1. t = [flows |-> t.flows, read |-> t.read, appStats |-> t.appStats,
             forwarded |-> t.forwarded, dropped |-> t.dropped,
             output |-> t.output]
    BY <1>3
  <2>2. t.flows \in [Flows -> SeqEntry]
    BY <1>1, <1>6, <1>7
  <2>3. t.appStats \in [AppTypes -> Nat]
    BY <1>1, <1>6, <1>7
  <2>4. t.read \in Nat /\ t.forwarded \in Nat /\ t.dropped \in Nat
    BY <1>1, <1>7
  <2>5. t.output \in Seq(Nat)
    BY <1>1, <1>7
  <2>. QED
    BY <2>1, <2>2, <2>3, <2>4, <2>5 DEF LoopState
<1>9. /\ t.flows[f] = [found EXCEPT !.blocked = c]
      /\ \A g \in Flows \ {f} : t.flows[g] = s.flows[g]
  BY <1>1, <1>7 DEF e
<1>10. PICK n \in SeqEntry, u \in LoopState : n = found /\ u = t
  BY <1>2, <1>8
<1>11. /\ u.flows[f] = [n EXCEPT !.blocked = c]
       /\ \A g \in Flows \ {f} : u.flows[g] = s.flows[g]
       /\ u.read = s.read + 1
       /\ u.appStats = [s.appStats EXCEPT ![n.app] = @ + 1]
       /\ u.forwarded = IF c THEN s.forwarded ELSE s.forwarded + 1
       /\ u.output = IF c THEN s.output ELSE Append(s.output, s.read + 1)
  BY <1>7, <1>9, <1>10
<1>12. /\ n = Sequential!Identified(p.flow, p.host, s.flows[p.flow])
       /\ u = Sequential!Turn(s, p)
       /\ c <=> n.blocked \/ Sequential!IsBlocked(p.flow, n)
  BY <1>5, <1>10 DEF f, found, t, stop
<1>. QED
  BY <1>11, <1>12, Zenon DEF f

\* The loop counts the packets it reads.
LEMMA LoopType ==
    ASSUME TypeOK
    PROVE  \A n \in 0 .. Len(capture) : Loop[n] \in LoopState /\ Loop[n].read = n
<1>. DEFINE N == Len(capture)
            G == {n \in 0 .. N : Loop[n] \in LoopState /\ Loop[n].read = n}
<1>0. N \in Nat
  BY CaptureAssumption DEF TypeOK
<1>1. 0 \in G
  <2>1. Loop[0] = Sequential!Start
    BY LoopIs
  <2>2. Sequential!Start \in LoopState /\ Sequential!Start.read = 0
    BY NameAssumption DEF Sequential!Start, Sequential!NewFlow, LoopState, SeqEntry
  <2>. QED
    BY <1>0, <2>1, <2>2
<1>2. ASSUME NEW n \in 1 .. N, n - 1 \in G PROVE n \in G
  <2>1. n \in Ids /\ n \in 0 .. N /\ n \in Nat
    BY <1>0, <1>2 DEF Ids
  <2>2. capture[n] \in Packet /\ Loop[n] = Sequential!Turn(Loop[n - 1], capture[n])
    BY <2>1, LoopIs, PacketType
  <2>3. Loop[n - 1] \in LoopState /\ Loop[n - 1].read = n - 1
    BY <1>2
  <2>4. PICK s \in LoopState, p \in Packet : s = Loop[n - 1] /\ p = capture[n]
    BY <2>2, <2>3
  <2>5. PICK k \in SeqEntry, t \in LoopState, c \in BOOLEAN :
            t = Sequential!Turn(s, p) /\ t.read = s.read + 1
    BY TurnDoes
  <2>6. Loop[n] = t /\ s.read = n - 1
    BY <2>2, <2>3, <2>4, <2>5
  <2>. QED
    BY <2>1, <2>5, <2>6
<1>. HIDE DEF N, G
<1>3. \A n \in 0 .. N : n \in G
  BY <1>0, <1>1, <1>2, CountingUp
<1>. QED
  BY <1>3 DEF N, G

\* The single-threaded program lets the packet through.
Lets(p) == ~Known(p, Flow(p)).blocked

\* What the loop does with packet n.
LEMMA LoopStep ==
    ASSUME TypeOK, NEW n \in Ids, NEW f, f = Flow(n), NEW k,
           k = Sequential!Identified(f, capture[n].host, Known(n - 1, f))
    PROVE  /\ n - 1 \in 0 .. Len(capture) /\ n \in 0 .. Len(capture)
           /\ f \in Flows /\ Known(n - 1, f) \in SeqEntry
           /\ Known(n, f) \in SeqEntry
           /\ Known(n, f).app = k.app /\ Known(n, f).sni = k.sni
           /\ Known(n, f).blocked <=>
                  Known(n - 1, f).blocked \/ Sequential!IsBlocked(f, k)
           /\ \A g \in Flows \ {f} : Known(n, g) = Known(n - 1, g)
           /\ Loop[n].appStats =
                  [Loop[n - 1].appStats EXCEPT ![Known(n, f).app] = @ + 1]
           /\ Loop[n].forwarded = IF Lets(n) THEN Loop[n - 1].forwarded + 1
                                  ELSE Loop[n - 1].forwarded
           /\ Loop[n].output = IF Lets(n) THEN Append(Loop[n - 1].output, n)
                               ELSE Loop[n - 1].output
<1>1. /\ n - 1 \in 0 .. Len(capture) /\ n \in 0 .. Len(capture) /\ n \in Nat
  BY CaptureAssumption DEF TypeOK, Ids
<1>2. /\ capture[n] \in Packet /\ Loop[n] = Sequential!Turn(Loop[n - 1], capture[n])
      /\ Flow(n) \in Flows /\ Flow(n) = capture[n].flow
      /\ capture[n].host \in Names \cup {NoHost}
  BY LoopIs, PacketType DEF Flow, Packet
<1>3. PICK s, t, p : s = Loop[n - 1] /\ t = Loop[n] /\ p = capture[n]
  OBVIOUS
<1>4. /\ s \in LoopState /\ s.read = n - 1 /\ t \in LoopState /\ p \in Packet
      /\ t = Sequential!Turn(s, p)
  BY <1>1, <1>2, <1>3, LoopType
<1>5. PICK found \in SeqEntry, u \in LoopState, stop \in BOOLEAN :
           /\ found = Sequential!Identified(p.flow, p.host, s.flows[p.flow])
           /\ u = Sequential!Turn(s, p)
           /\ stop <=> found.blocked \/ Sequential!IsBlocked(p.flow, found)
           /\ u.flows[p.flow] = [found EXCEPT !.blocked = stop]
           /\ \A g \in Flows \ {p.flow} : u.flows[g] = s.flows[g]
           /\ u.read = s.read + 1
           /\ u.appStats = [s.appStats EXCEPT ![found.app] = @ + 1]
           /\ u.forwarded = IF stop THEN s.forwarded ELSE s.forwarded + 1
           /\ u.output = IF stop THEN s.output ELSE Append(s.output, s.read + 1)
  BY <1>4, TurnDoes
<1>6. u = t
  BY <1>4, <1>5
<1>8. /\ f = p.flow /\ f \in Flows /\ p.host \in Names \cup {NoHost}
      /\ \A g : Known(n, g) = t.flows[g] /\ Known(n - 1, g) = s.flows[g]
  BY <1>2, <1>3 DEF Known
<1>9. s.flows[f] \in SeqEntry /\ t.flows[f] \in SeqEntry
  BY <1>4, <1>8 DEF LoopState
<1>10. found = k /\ found.blocked = s.flows[f].blocked
  <2>1. found = Sequential!Identified(f, p.host, s.flows[f])
    BY <1>5, <1>8
  <2>2. found = k
    BY <1>3, <1>8, <2>1
  <2>3. PICK e \in SeqEntry : e = s.flows[f]
    BY <1>9
  <2>4. Sequential!Identified(f, p.host, e).blocked = e.blocked
    BY <1>8, SeqIdentified
  <2>. QED
    BY <2>1, <2>2, <2>3, <2>4
<1>11. /\ t.flows[f].app = found.app /\ t.flows[f].sni = found.sni
       /\ t.flows[f].blocked = stop
  BY <1>5, <1>6, <1>8 DEF SeqEntry
<1>12. Lets(n) <=> ~stop
  BY <1>8, <1>11 DEF Lets
<1>13. s.read + 1 = n
  BY <1>1, <1>4
<1>14. /\ t.appStats = [s.appStats EXCEPT ![t.flows[f].app] = @ + 1]
       /\ t.forwarded = IF Lets(n) THEN s.forwarded + 1 ELSE s.forwarded
       /\ t.output = IF Lets(n) THEN Append(s.output, n) ELSE s.output
  BY <1>5, <1>6, <1>11, <1>12, <1>13
<1>15. stop <=> s.flows[f].blocked \/ Sequential!IsBlocked(f, found)
  BY <1>5, <1>8, <1>10
<1>16. \A g \in Flows \ {f} : t.flows[g] = s.flows[g]
  BY <1>5, <1>6, <1>8
<1>17. /\ s.flows[f] = Known(n - 1, f) /\ t.flows[f] = Known(n, f)
       /\ \A g : Known(n, g) = t.flows[g] /\ Known(n - 1, g) = s.flows[g]
  BY <1>8
<1>18. /\ Known(n, f).app = k.app /\ Known(n, f).sni = k.sni
       /\ Known(n, f).blocked <=>
              Known(n - 1, f).blocked \/ Sequential!IsBlocked(f, k)
  BY <1>10, <1>11, <1>15, <1>17
<1>19. /\ Loop[n].appStats =
              [Loop[n - 1].appStats EXCEPT ![Known(n, f).app] = @ + 1]
       /\ Loop[n].forwarded = IF Lets(n) THEN Loop[n - 1].forwarded + 1
                              ELSE Loop[n - 1].forwarded
       /\ Loop[n].output = IF Lets(n) THEN Append(Loop[n - 1].output, n)
                           ELSE Loop[n - 1].output
  <2>1. s = Loop[n - 1] /\ t = Loop[n] /\ t.flows[f] = Known(n, f)
    BY <1>3, <1>17
  <2>. QED
    BY <1>14, <2>1, Zenon
<1>20. /\ f \in Flows /\ Known(n - 1, f) \in SeqEntry /\ Known(n, f) \in SeqEntry
       /\ \A g \in Flows \ {f} : Known(n, g) = Known(n - 1, g)
  BY <1>8, <1>9, <1>16, <1>17
<1>. QED
  BY <1>1, <1>18, <1>19, <1>20, Zenon

\* A flow is left as it is by the packets of others.
LEMMA KnownSame ==
    ASSUME TypeOK, NEW f \in Flows, NEW m \in 0 .. Len(capture),
           NEW n \in 0 .. Len(capture), m =< n,
           \A p \in m + 1 .. n : Flow(p) # f
    PROVE  Known(n, f) = Known(m, f)
<1>. DEFINE N == Len(capture)
            G == {j \in 0 .. N : m =< j /\ j =< n => Known(j, f) = Known(m, f)}
<1>0. N \in Nat
  BY CaptureAssumption DEF TypeOK
<1>1. 0 \in G
  <2>1. m =< 0 => m = 0
    BY <1>0
  <2>. QED
    BY <1>0, <2>1
<1>2. ASSUME NEW j \in 1 .. N, j - 1 \in G PROVE j \in G
  <2>1. j \in Ids /\ j \in 0 .. N
    BY <1>0, <1>2 DEF Ids
  <2>2. ASSUME m =< j, j =< n, m # j PROVE Known(j, f) = Known(m, f)
    <3>1. Flow(j) # f /\ m =< j - 1 /\ j - 1 =< n
      BY <1>0, <2>2
    <3>2. Known(j - 1, f) = Known(m, f)
      BY <1>2, <3>1
    <3>3. PICK g, k : g = Flow(j)
                      /\ k = Sequential!Identified(g, capture[j].host, Known(j - 1, g))
      OBVIOUS
    <3>4. \A h \in Flows \ {g} : Known(j, h) = Known(j - 1, h)
      BY <2>1, <3>3, LoopStep
    <3>. QED
      BY <3>1, <3>2, <3>3, <3>4
  <2>. QED
    BY <2>1, <2>2
<1>. HIDE DEF G
<1>3. \A j \in 0 .. N : j \in G
  BY <1>0, <1>1, <1>2, CountingUp
<1>. QED
  BY <1>3 DEF G

\* A sequence of positions in the order of the capture.
Increasing(s) == \A i, j \in DOMAIN s : i < j => s[i] < s[j]

\* What is written is what was let through, in order.
LEMMA OutputIs ==
    ASSUME TypeOK
    PROVE  \A n \in 0 .. Len(capture) :
               LET s == Loop[n].output IN
               /\ s \in Seq(Ids) /\ Increasing(s)
               /\ Range(s) = {p \in 1 .. n : Lets(p)}
<1>. DEFINE N == Len(capture)
            Is(s, n) == /\ s \in Seq(Ids) /\ Increasing(s)
                        /\ Range(s) = {p \in 1 .. n : Lets(p)}
            G == {n \in 0 .. N : Is(Loop[n].output, n)}
<1>0. N \in Nat /\ Ids = 1 .. N
  BY CaptureAssumption DEF TypeOK, Ids
<1>1. 0 \in G
  <2>1. Loop[0].output = <<>>
    BY LoopIs DEF Sequential!Start
  <2>2. Is(<<>>, 0)
    BY DEF Increasing, Range
  <2>3. 0 \in 0 .. N
    BY <1>0
  <2>. HIDE DEF Is
  <2>. QED
    BY <2>1, <2>2, <2>3
<1>2. ASSUME NEW n \in 1 .. N, n - 1 \in G PROVE n \in G
  <2>1. n \in Ids /\ n \in 0 .. N
    BY <1>0, <1>2 DEF Ids
  <2>2. PICK f, k : f = Flow(n)
                    /\ k = Sequential!Identified(f, capture[n].host, Known(n - 1, f))
    OBVIOUS
  <2>3. PICK s, t : s = Loop[n - 1].output /\ t = Loop[n].output
    OBVIOUS
  <2>4. t = IF Lets(n) THEN Append(s, n) ELSE s
    BY <2>1, <2>2, <2>3, LoopStep
  <2>5. Is(s, n - 1)
    BY <1>2, <2>3
  <2>6. {p \in 1 .. n : Lets(p)} = IF Lets(n) THEN {p \in 1 .. n - 1 : Lets(p)} \cup {n}
                                   ELSE {p \in 1 .. n - 1 : Lets(p)}
    BY <1>0, <1>2
  <2>7. CASE Lets(n)
    <3>1. t = Append(s, n) /\ s \in Seq(Ids)
      BY <2>4, <2>5, <2>7
    <3>2. t \in Seq(Ids) /\ Range(t) = Range(s) \cup {n}
      <4>1. /\ t \in Seq(Ids) /\ Len(t) = Len(s) + 1 /\ t[Len(t)] = n
            /\ \A i \in 1 .. Len(s) : t[i] = s[i]
            /\ DOMAIN s = 1 .. Len(s) /\ DOMAIN t = 1 .. Len(t) /\ Len(s) \in Nat
        BY <2>1, <3>1
      <4>2. DOMAIN t = DOMAIN s \cup {Len(t)} /\ Len(t) \in DOMAIN t
        BY <4>1
      <4>. QED
        BY <4>1, <4>2 DEF Range
    <3>3. \A i \in DOMAIN s : s[i] < n
      <4>1. \A i \in DOMAIN s : s[i] \in {p \in 1 .. n - 1 : Lets(p)}
        BY <2>5 DEF Range
      <4>. QED
        BY <1>0, <1>2, <4>1
    <3>4. Increasing(t)
      BY <2>5, <3>1, <3>3 DEF Increasing
    <3>. QED
      BY <2>1, <2>3, <2>5, <2>6, <2>7, <3>2, <3>4
  <2>8. CASE ~Lets(n)
    BY <2>1, <2>3, <2>4, <2>5, <2>6, <2>8
  <2>. QED
    BY <2>7, <2>8
<1>. HIDE DEF G
<1>3. \A n \in 0 .. N : n \in G
  BY <1>0, <1>1, <1>2, CountingUp
<1>. QED
  BY <1>3 DEF G

\* A name is not looked for once there is one.
LEMMA NameStays ==
    ASSUME NEW f, NEW h, NEW k \in SeqEntry, k.sni # EmptyName
    PROVE  Sequential!Identified(f, h, k).sni = k.sni
<1>1. Sequential!Named(f, h, k) = k
  BY DEF Sequential!Named, Sequential!SeeksName
<1>. QED
  BY <1>1 DEF Sequential!Identified, SeqEntry

\* Packet n and those before, by what is known of them.
Seen(n) == 1 .. n
LetUpto(n) == {p \in Seen(n) : Lets(p)}
OfApp(n, a) == {p \in Seen(n) : Known(p, Flow(p)).app = a}
NamesUpto(n) == {Known(p, Flow(p)).sni : p \in Seen(n)} \ {EmptyName}

\* The counters of the report count these packets.
LEMMA StatsAre ==
    ASSUME TypeOK
    PROVE  \A n \in 0 .. Len(capture) :
               /\ Loop[n].forwarded = Cardinality(LetUpto(n))
               /\ \A a \in AppTypes :
                      Loop[n].appStats[a] = Cardinality(OfApp(n, a))
<1>. DEFINE N == Len(capture)
            G == {n \in 0 .. N :
                    /\ Loop[n].forwarded = Cardinality(LetUpto(n))
                    /\ \A a \in AppTypes :
                           Loop[n].appStats[a] = Cardinality(OfApp(n, a))}
<1>0. N \in Nat /\ Ids = 1 .. N
  BY CaptureAssumption DEF TypeOK, Ids
<1>1. 0 \in G
  <2>1. LetUpto(0) = {} /\ \A a : OfApp(0, a) = {}
    BY DEF LetUpto, OfApp, Seen
  <2>2. Cardinality({}) = 0
    BY FS_EmptySet
  <2>3. Loop[0].forwarded = 0 /\ \A a \in AppTypes : Loop[0].appStats[a] = 0
    BY LoopIs DEF Sequential!Start
  <2>4. 0 \in 0 .. N
    BY <1>0
  <2>5. Cardinality(LetUpto(0)) = 0 /\ \A a : Cardinality(OfApp(0, a)) = 0
    BY <2>1, <2>2
  <2>. QED
    BY <2>3, <2>4, <2>5
<1>2. ASSUME NEW n \in 1 .. N, n - 1 \in G PROVE n \in G
  <2>1. n \in Ids /\ n \in 0 .. N /\ n - 1 \in 0 .. N
    BY <1>0, <1>2 DEF Ids
  <2>2. PICK f, k : f = Flow(n)
                    /\ k = Sequential!Identified(f, capture[n].host, Known(n - 1, f))
    OBVIOUS
  <2>3. PICK s, t, b : s = Loop[n - 1] /\ t = Loop[n] /\ b = Known(n, f).app
    OBVIOUS
  <2>4. /\ t.appStats = [s.appStats EXCEPT ![b] = @ + 1]
        /\ t.forwarded = IF Lets(n) THEN s.forwarded + 1 ELSE s.forwarded
        /\ b \in AppTypes
    BY <2>1, <2>2, <2>3, LoopStep DEF SeqEntry
  <2>5. /\ s.appStats \in [AppTypes -> Nat]
        /\ s.forwarded = Cardinality(LetUpto(n - 1))
        /\ \A a \in AppTypes : s.appStats[a] = Cardinality(OfApp(n - 1, a))
    BY <1>2, <2>1, <2>3, LoopType DEF LoopState
  <2>6. Seen(n) = Seen(n - 1) \cup {n} /\ n \notin Seen(n - 1)
    BY <1>0, <1>2 DEF Seen
  <2>7. \A S : S \subseteq Seen(n - 1) => IsFiniteSet(S)
    <3>1. IsFiniteSet(Seen(n - 1))
      BY <1>0, <1>2, FS_Interval DEF Seen
    <3>. QED
      BY <3>1, FS_Subset
  <2>8. t.forwarded = Cardinality(LetUpto(n))
    <3>1. LetUpto(n) = IF Lets(n) THEN LetUpto(n - 1) \cup {n} ELSE LetUpto(n - 1)
      BY <2>6 DEF LetUpto
    <3>2. IsFiniteSet(LetUpto(n - 1)) /\ n \notin LetUpto(n - 1)
      BY <2>6, <2>7 DEF LetUpto
    <3>3. Cardinality(LetUpto(n - 1) \cup {n}) = Cardinality(LetUpto(n - 1)) + 1
      BY <3>2, FS_AddElement
    <3>. QED
      BY <2>4, <2>5, <3>1, <3>3
  <2>9. ASSUME NEW a \in AppTypes PROVE t.appStats[a] = Cardinality(OfApp(n, a))
    <3>1. OfApp(n, a) = IF b = a THEN OfApp(n - 1, a) \cup {n} ELSE OfApp(n - 1, a)
      BY <2>2, <2>3, <2>6 DEF OfApp
    <3>2. IsFiniteSet(OfApp(n - 1, a)) /\ n \notin OfApp(n - 1, a)
      BY <2>6, <2>7 DEF OfApp
    <3>3. Cardinality(OfApp(n - 1, a) \cup {n}) = Cardinality(OfApp(n - 1, a)) + 1
      BY <3>2, FS_AddElement
    <3>. QED
      BY <2>4, <2>5, <3>1, <3>3
  <2>. QED
    BY <2>1, <2>3, <2>8, <2>9
<1>. HIDE DEF G
<1>3. \A n \in 0 .. N : n \in G
  BY <1>0, <1>1, <1>2, CountingUp
<1>. QED
  BY <1>3 DEF G

\* The names the flows end up with are those they had at their packets.
LEMMA NamesAre ==
    ASSUME TypeOK
    PROVE  \A n \in 0 .. Len(capture) :
               {Known(n, f).sni : f \in Flows} \ {EmptyName} = NamesUpto(n)
<1>. DEFINE N == Len(capture)
            Have(n) == {Known(n, f).sni : f \in Flows} \ {EmptyName}
            G == {n \in 0 .. N : Have(n) = NamesUpto(n)}
<1>0. N \in Nat /\ Ids = 1 .. N
  BY CaptureAssumption DEF TypeOK, Ids
<1>1. 0 \in G
  <2>1. \A f \in Flows : Known(0, f).sni = EmptyName
    BY LoopIs DEF Known, Sequential!Start, Sequential!NewFlow
  <2>2. Have(0) = {} /\ NamesUpto(0) = {}
    BY <2>1 DEF NamesUpto, Seen
  <2>. QED
    BY <1>0, <2>2
<1>2. ASSUME NEW n \in 1 .. N, n - 1 \in G PROVE n \in G
  <2>1. n \in Ids /\ n \in 0 .. N /\ n - 1 \in 0 .. N
    BY <1>0, <1>2 DEF Ids
  <2>2. PICK f, k : f = Flow(n)
                    /\ k = Sequential!Identified(f, capture[n].host, Known(n - 1, f))
    OBVIOUS
  <2>3. /\ f \in Flows /\ Known(n - 1, f) \in SeqEntry
        /\ Known(n, f).sni = k.sni
        /\ \A g \in Flows \ {f} : Known(n, g) = Known(n - 1, g)
    <3>1. f \in Flows /\ Known(n - 1, f) \in SeqEntry
      BY <2>1, <2>2, LoopStep
    <3>2. Known(n, f).sni = k.sni
      BY <2>1, <2>2, LoopStep
    <3>3. \A g \in Flows \ {f} : Known(n, g) = Known(n - 1, g)
      BY <2>1, <2>2, LoopStep
    <3>. QED
      BY <3>1, <3>2, <3>3
  <2>4. Known(n - 1, f).sni = EmptyName \/ Known(n, f).sni = Known(n - 1, f).sni
    <3>1. PICK e \in SeqEntry : e = Known(n - 1, f)
      BY <2>3
    <3>2. k = Sequential!Identified(f, capture[n].host, e)
      BY <2>2, <3>1
    <3>3. e.sni # EmptyName => k.sni = e.sni
      BY <3>2, NameStays
    <3>. QED
      BY <2>3, <3>1, <3>3
  <2>5. Have(n - 1) = NamesUpto(n - 1)
    BY <1>2
  <2>6. Have(n) = Have(n - 1) \cup ({Known(n, f).sni} \ {EmptyName})
    BY <2>3, <2>4
  <2>7. Seen(n) = Seen(n - 1) \cup {n}
    BY <1>0, <1>2 DEF Seen
  <2>8. NamesUpto(n) = NamesUpto(n - 1) \cup ({Known(n, f).sni} \ {EmptyName})
    BY <2>2, <2>7 DEF NamesUpto
  <2>. QED
    BY <2>1, <2>5, <2>6, <2>8
<1>. HIDE DEF G
<1>3. \A n \in 0 .. N : n \in G
  BY <1>0, <1>1, <1>2, CountingUp
<1>. QED
  BY <1>3 DEF G

-----------------------------------------------------------------------------
(* Sequences of positions in the order of the capture. *)

\* A later position can be appended.
LEMMA IncreasingAppend ==
    ASSUME NEW S \in SUBSET Nat, NEW s \in Seq(S), NEW x \in S, Increasing(s),
           \A y \in Range(s) : y < x
    PROVE  LET t == Append(s, x) IN
           t \in Seq(S) /\ Increasing(t) /\ Range(t) = Range(s) \cup {x}
<1>1. PICK t : t = Append(s, x)
  OBVIOUS
<1>2. /\ t \in Seq(S) /\ Len(t) = Len(s) + 1 /\ t[Len(t)] = x
      /\ \A i \in 1 .. Len(s) : t[i] = s[i]
      /\ DOMAIN s = 1 .. Len(s) /\ DOMAIN t = 1 .. Len(t) /\ Len(s) \in Nat
  BY <1>1
<1>3. DOMAIN t = DOMAIN s \cup {Len(t)} /\ Len(t) \in DOMAIN t
  BY <1>2
<1>4. Range(t) = Range(s) \cup {x}
  BY <1>2, <1>3 DEF Range
<1>5. \A i \in DOMAIN s : s[i] < x
  BY DEF Range
<1>6. Increasing(t)
  BY <1>2, <1>5 DEF Increasing
<1>. QED
  BY <1>1, <1>2, <1>4, <1>6

\* A sequence that has a flow's packets in the order of the capture.
FlowSorted(c, s, f) ==
    \A i, j \in DOMAIN s :
        i < j /\ c[s[i]].flow = f /\ c[s[j]].flow = f => s[i] < s[j]

\* What is selected of a sequence: the packets of the flow, in order if they
\* were.
LEMMA SelectIs ==
    ASSUME NEW S \in SUBSET Nat, NEW c, NEW s \in Seq(S), NEW f,
           FlowSorted(c, s, f), NEW t, t = Select(c, s, f)
    PROVE  /\ t \in Seq(S) /\ Increasing(t)
           /\ \A x : x \in Range(t) <=> x \in Range(s) /\ c[x].flow = f
<1>1. PICK h \in [0 .. Len(s) -> Seq(S)] : Selects(c, s, f, h)
  BY SelectsSome
<1>2. Select(c, s, f) = h[Len(s)]
  BY <1>1, Selection
<1>3. \A n \in 0 .. Len(s) :
          h[n] = IF n = 0 THEN <<>>
                 ELSE IF c[s[n]].flow = f THEN Append(h[n - 1], s[n]) ELSE h[n - 1]
  BY <1>1, Zenon DEF Selects
<1>. DEFINE N == Len(s)
            From(n) == {s[i] : i \in {j \in 1 .. n : c[s[j]].flow = f}}
            G == {n \in 0 .. N : Increasing(h[n]) /\ Range(h[n]) = From(n)}
<1>4. N \in Nat /\ DOMAIN s = 1 .. N /\ \A i \in 1 .. N : s[i] \in S
  OBVIOUS
<1>5. 0 \in G
  <2>1. h[0] = <<>> /\ 0 \in 0 .. N
    BY <1>3, <1>4
  <2>2. Increasing(<<>>) /\ Range(<<>>) = {} /\ From(0) = {}
    BY DEF Increasing, Range
  <2>. HIDE DEF From
  <2>. QED
    BY <2>1, <2>2
<1>6. ASSUME NEW n \in 1 .. N, n - 1 \in G PROVE n \in G
  <2>1. n \in 0 .. N /\ n - 1 \in 0 .. N /\ n # 0 /\ s[n] \in S
        /\ h[n - 1] \in Seq(S)
    BY <1>1, <1>4, <1>6
  <2>2. Increasing(h[n - 1]) /\ Range(h[n - 1]) = From(n - 1)
    BY <1>6
  <2>3. CASE c[s[n]].flow = f
    <3>1. h[n] = Append(h[n - 1], s[n])
      BY <1>3, <2>1, <2>3
    <3>2. \A y \in Range(h[n - 1]) : y < s[n]
      <4>1. \A i \in 1 .. n - 1 : i \in DOMAIN s /\ n \in DOMAIN s /\ i < n
        BY <1>4, <1>6
      <4>. QED
        BY <2>2, <2>3, <4>1 DEF FlowSorted
    <3>3. Increasing(h[n]) /\ Range(h[n]) = Range(h[n - 1]) \cup {s[n]}
      <4>1. PICK q \in Seq(S), x \in S : q = h[n - 1] /\ x = s[n]
        BY <2>1
      <4>2. Increasing(q) /\ \A y \in Range(q) : y < x
        BY <2>2, <3>2, <4>1
      <4>3. /\ Increasing(Append(q, x))
            /\ Range(Append(q, x)) = Range(q) \cup {x}
        BY <4>2, IncreasingAppend
      <4>. QED
        BY <3>1, <4>1, <4>3
    <3>4. From(n) = From(n - 1) \cup {s[n]}
      <4>1. 1 .. n = (1 .. n - 1) \cup {n}
        BY <1>4, <1>6
      <4>. QED
        BY <2>3, <4>1
    <3>. QED
      BY <2>1, <2>2, <3>3, <3>4
  <2>4. CASE c[s[n]].flow # f
    <3>1. h[n] = h[n - 1]
      BY <1>3, <2>1, <2>4
    <3>2. From(n) = From(n - 1)
      <4>1. 1 .. n = (1 .. n - 1) \cup {n}
        BY <1>4, <1>6
      <4>. QED
        BY <2>4, <4>1
    <3>. QED
      BY <2>1, <2>2, <3>1, <3>2
  <2>. QED
    BY <2>3, <2>4
<1>. HIDE DEF G
<1>7. \A n \in 0 .. N : n \in G
  BY <1>4, <1>5, <1>6, CountingUp
<1>8. Increasing(h[N]) /\ Range(h[N]) = From(N) /\ h[N] \in Seq(S)
  <2>1. N \in 0 .. N
    BY <1>4
  <2>2. N \in G
    BY <1>7, <2>1
  <2>. QED
    BY <1>1, <2>1, <2>2 DEF G
<1>9. \A x : x \in From(N) <=> x \in Range(s) /\ c[x].flow = f
  BY <1>4 DEF Range
<1>. QED
  BY <1>2, <1>8, <1>9

\* An ordered sequence of some of the members of another one is a prefix of it
\* if no member is left out before one that is there.
LEMMA IncreasingPrefix ==
    ASSUME NEW S \in SUBSET Nat, NEW s \in Seq(S), NEW t \in Seq(S),
           Increasing(s), Increasing(t), Range(s) \subseteq Range(t),
           \A x \in Range(t), y \in Range(s) : x < y => x \in Range(s)
    PROVE  IsPrefix(s, t)
<1>. DEFINE Bad == {i \in 1 .. Len(s) : ~(i =< Len(t) /\ s[i] = t[i])}
<1>0. /\ Len(s) \in Nat /\ Len(t) \in Nat
      /\ DOMAIN s = 1 .. Len(s) /\ DOMAIN t = 1 .. Len(t)
      /\ \A i \in 1 .. Len(s) : s[i] \in Nat
      /\ \A i \in 1 .. Len(t) : t[i] \in Nat
  <2>1. \A i \in 1 .. Len(s) : s[i] \in S
    OBVIOUS
  <2>2. \A i \in 1 .. Len(t) : t[i] \in S
    OBVIOUS
  <2>3. /\ Len(s) \in Nat /\ Len(t) \in Nat
        /\ DOMAIN s = 1 .. Len(s) /\ DOMAIN t = 1 .. Len(t)
    OBVIOUS
  <2>4. \A x \in S : x \in Nat
    OBVIOUS
  <2>. QED
    BY <2>1, <2>2, <2>3, <2>4
<1>1. ASSUME Bad # {} PROVE FALSE
  <2>1. PICK n \in Bad : \A m \in Bad : n =< m
    <3>1. Bad \in SUBSET Nat
      BY <1>0
    <3>. HIDE DEF Bad
    <3>. QED
      BY <1>1, <3>1, LeastNumber
  <2>2. n \in 1 .. Len(s) /\ ~(n =< Len(t) /\ s[n] = t[n])
    OBVIOUS
  <2>3. \A m \in 1 .. n - 1 : m \in 1 .. Len(s) /\ m =< Len(t) /\ s[m] = t[m]
    <3>1. \A m \in 1 .. n - 1 : m \in 1 .. Len(s) /\ ~(n =< m)
      BY <1>0, <2>2
    <3>. QED
      BY <2>1, <3>1
  <2>. HIDE DEF Bad
  <2>4. PICK j \in 1 .. Len(t) : s[n] = t[j]
    BY <1>0, <2>2 DEF Range
  <2>5. CASE j < n
    <3>1. j \in 1 .. n - 1
      BY <1>0, <2>2, <2>4, <2>5
    <3>2. s[j] < s[n] /\ s[j] = t[j]
      BY <1>0, <2>2, <2>3, <2>5, <3>1 DEF Increasing
    <3>. QED
      BY <1>0, <2>2, <2>4, <3>2
  <2>6. CASE j = n
    BY <1>0, <2>2, <2>4, <2>6
  <2>7. CASE n < j
    <3>1. n \in 1 .. Len(t) /\ t[n] < t[j]
      <4>1. n \in 1 .. Len(t)
        BY <1>0, <2>2, <2>4, <2>7
      <4>. QED
        BY <1>0, <2>4, <2>7, <4>1 DEF Increasing
    <3>2. t[n] \in Range(t) /\ s[n] \in Range(s) /\ t[n] < s[n]
      BY <1>0, <2>2, <2>4, <3>1 DEF Range
    <3>3. PICK i \in 1 .. Len(s) : t[n] = s[i]
      BY <1>0, <3>2 DEF Range
    <3>4. i < n
      <4>1. n < i => s[n] < s[i]
        BY <1>0, <2>2 DEF Increasing
      <4>2. s[i] < s[n] /\ s[i] \in Nat /\ s[n] \in Nat
        BY <1>0, <2>2, <3>2, <3>3
      <4>. QED
        BY <1>0, <2>2, <4>1, <4>2
    <3>5. s[i] = t[i] /\ i \in 1 .. Len(t)
      BY <1>0, <2>2, <2>3, <3>4
    <3>6. t[i] < t[n]
      BY <1>0, <3>1, <3>4, <3>5 DEF Increasing
    <3>. QED
      BY <1>0, <3>1, <3>3, <3>5, <3>6
  <2>. QED
    BY <1>0, <2>2, <2>4, <2>5, <2>6, <2>7
<1>2. \A i \in 1 .. Len(s) : i =< Len(t) /\ s[i] = t[i]
  BY <1>1
<1>. HIDE DEF Bad
<1>3. Len(s) =< Len(t)
  BY <1>0, <1>2
<1>4. SubSeq(s, 1, Len(s)) = SubSeq(t, 1, Len(s))
  BY <1>0, <1>2, <1>3
<1>. QED
  BY <1>3, <1>4 DEF IsPrefix

-----------------------------------------------------------------------------
(* What the two programs know of a flow. *)

\* The port of DNS.
IsDNS(f) == 53 \in {SrcPort[f], DstPort[f]}

\* The two agree on a flow: on its name and application, and on whether a name
\* may still be found.
Agrees(f, e, k) ==
    /\ e.sni = k.sni /\ e.app = k.app
    /\ \/ e.classified /\ k.sni # EmptyName /\ k.app # UNKNOWN
       \/ e.classified /\ k.sni = EmptyName /\ IsDNS(f) /\ k.app = DNS
       \/ /\ ~e.classified /\ k.sni = EmptyName
          /\ k.app = UNKNOWN \/ (~IsDNS(f) /\ k.app = Sequential!AppByPort(f))

\* They still do when both have seen a packet with the same name in it, if it
\* is one that both take for a name.
LEMMA SameStep ==
    ASSUME NEW f \in Flows, NEW h \in Names \cup {NoHost},
           h # NoHost => f \in TcpFlows /\ h # EmptyName,
           NEW e \in FlowEntry, NEW k \in SeqEntry, Agrees(f, e, k)
    PROVE  Agrees(f, IF e.classified THEN e ELSE Classify(f, h, e),
                  Sequential!Identified(f, h, k))
<1>. USE DEF FlowEntry, SeqEntry
<1>. DEFINE named == Sequential!Named(f, h, k)
            found == Sequential!Identified(f, h, k)
            guess == Sequential!AppByPort(f)
<1>1. found = IF named.app = UNKNOWN THEN [named EXCEPT !.app = guess] ELSE named
  BY DEF Sequential!Identified
<1>2. guess = IF IsDNS(f) THEN DNS ELSE IF DstPort[f] = 443 THEN HTTPS
              ELSE IF DstPort[f] = 80 THEN HTTP ELSE UNKNOWN
  BY DEF Sequential!AppByPort, IsDNS
<1>3. \/ Sequential!SeeksName(f, k) /\ h # NoHost
             /\ named = [k EXCEPT !.sni = h, !.app = NameApp[h]]
      \/ ~(Sequential!SeeksName(f, k) /\ h # NoHost) /\ named = k
  BY DEF Sequential!Named
<1>4. Sequential!SeeksName(f, k) <=>
          /\ f \in TcpFlows /\ k.sni = EmptyName
          /\ \/ DstPort[f] = 443 /\ k.app \in {UNKNOWN, HTTPS}
             \/ DstPort[f] = 80 /\ k.app \in {UNKNOWN, HTTP}
  BY DEF Sequential!SeeksName
<1>. HIDE DEF named, found, guess
<1>5. CASE e.classified
  <2>1. named = k
    BY <1>3, <1>4, <1>5, AppAssumption DEF Agrees
  <2>2. found = k
    BY <1>1, <1>5, <2>1, AppAssumption DEF Agrees
  <2>. QED
    BY <1>5, <2>2 DEF found
<1>6. CASE ~e.classified /\ h # NoHost /\ DstPort[f] \in {80, 443}
  <2>1. Classify(f, h, e) =
            [e EXCEPT !.sni = h, !.app = NameApp[h], !.classified = TRUE]
    BY <1>6 DEF Classify
  <2>2. Sequential!SeeksName(f, k)
    BY <1>2, <1>4, <1>6 DEF Agrees, guess
  <2>3. NameApp[h] # UNKNOWN
    BY <1>6, AppAssumption
  <2>4. named = [k EXCEPT !.sni = h, !.app = NameApp[h]] /\ found = named
    <3>1. named = [k EXCEPT !.sni = h, !.app = NameApp[h]]
      BY <1>3, <1>6, <2>2
    <3>2. named.app = NameApp[h]
      BY <3>1
    <3>. QED
      BY <1>1, <2>3, <3>1, <3>2
  <2>5. /\ found.sni = h /\ found.app = NameApp[h]
        /\ Classify(f, h, e).sni = h /\ Classify(f, h, e).app = NameApp[h]
        /\ Classify(f, h, e).classified
    BY <2>1, <2>4
  <2>. QED
    BY <1>6, <2>3, <2>5 DEF Agrees, found
<1>7. CASE ~e.classified /\ ~(h # NoHost /\ DstPort[f] \in {80, 443})
  <2>1. named = k
    BY <1>3, <1>4, <1>7
  <2>2. /\ k.sni = EmptyName /\ e.sni = EmptyName /\ e.app = k.app
        /\ k.app = UNKNOWN \/ (~IsDNS(f) /\ k.app = guess)
    BY <1>7 DEF Agrees, guess
  <2>3. found.sni = EmptyName /\ found.app = IF k.app = UNKNOWN THEN guess ELSE k.app
    BY <1>1, <2>1, <2>2
  <2>4. CASE IsDNS(f)
    <3>1. Classify(f, h, e) = [e EXCEPT !.app = DNS, !.classified = TRUE]
      BY <1>7, <2>4 DEF Classify, IsDNS
    <3>2. found.app = DNS
      BY <1>2, <2>2, <2>3, <2>4
    <3>. QED
      BY <1>7, <2>2, <2>3, <2>4, <3>1, <3>2 DEF Agrees, found
  <2>5. CASE ~IsDNS(f)
    <3>. DEFINE a == IF DstPort[f] = 443 THEN HTTPS
                     ELSE IF DstPort[f] = 80 THEN HTTP ELSE e.app
    <3>1. Classify(f, h, e) = [e EXCEPT !.app = a]
      BY <1>7, <2>5 DEF Classify, IsDNS
    <3>2. a = guess /\ found.app = guess
      BY <1>2, <2>2, <2>3, <2>5
    <3>. HIDE DEF a
    <3>3. /\ Classify(f, h, e).app = guess /\ Classify(f, h, e).sni = EmptyName
          /\ ~Classify(f, h, e).classified
      BY <1>7, <2>2, <3>1, <3>2
    <3>. QED
      BY <1>7, <2>3, <2>5, <3>2, <3>3 DEF Agrees, found, guess
  <2>. QED
    BY <2>4, <2>5
<1>. QED
  BY <1>5, <1>6, <1>7

-----------------------------------------------------------------------------
(* What a verdict does, as far as the comparison goes. *)

\* A packet that got past its verdict.
Past(p) == \E k \in 5 .. 7 : p \in Station[k]

\* Packet x of flow f is judged, with what is now known of the flow.
Decides(x, f, e, cut) ==
    /\ f = Flow(x) /\ f \in Flows /\ capture' = capture /\ start' = start
    /\ Entry(f) \in FlowEntry /\ e = Identify(x, Entry(f))
    /\ Entry(f)' = [e EXCEPT !.blocked = cut]
    /\ \A g \in Flows \ {f} : Entry(g)' = Entry(g)
    /\ e.blocked \/ IsBlocked(f, e) => cut
    /\ usage' = start =>
           usage = start /\ (cut => e.blocked \/ IsBlocked(f, e))
    /\ Pending(x) /\ \A p \in Ids : Pending(p)' <=> Pending(p) /\ p # x
    /\ \A p \in Ids : Flow(p) = f /\ Pending(p) => x =< p
    /\ ~Past(x) /\ \A p \in Ids : Past(p)' <=> Past(p) \/ (p = x /\ ~cut)
    /\ forwarded' = IF cut THEN forwarded ELSE forwarded + 1
    /\ dropped' = IF cut THEN dropped + 1 ELSE dropped
    /\ appCounts' = [appCounts EXCEPT ![e.app] = @ + 1]
    /\ detected' = detected \cup ({e.sni} \ {EmptyName})

\* The usage is what it was at the start only if nothing was charged.
LEMMA StillStart ==
    ASSUME TypeOK, QuotaInv, NEW f, NEW e \in FlowEntry, NEW bytes \in Nat,
           bytes > 0, usage' = IF Charged(f, e) THEN Recorded(e.app, bytes) ELSE usage,
           usage' = start
    PROVE  usage = start /\ ~(Charged(f, e) /\ OverQuota(e.app, bytes))
<1>1. /\ usage \in [QuotaApps -> Nat] /\ start \in [QuotaApps -> Nat]
      /\ passed \in [QuotaApps -> Nat]
  BY QuotaAssumption DEF TypeOK
<1>2. \A a \in QuotaApps : start[a] =< usage[a]
  BY <1>1 DEF QuotaInv
<1>3. CASE Charged(f, e) /\ e.app \in QuotaApps
  <2>1. usage' = [usage EXCEPT ![e.app] = @ + bytes]
    BY <1>3 DEF Recorded
  <2>2. usage'[e.app] = usage[e.app] + bytes
    BY <1>1, <1>3, <2>1
  <2>. QED
    BY <1>1, <1>2, <1>3, <2>2
<1>4. CASE ~(Charged(f, e) /\ e.app \in QuotaApps)
  BY <1>4 DEF Recorded, OverQuota
<1>. QED
  BY <1>3, <1>4

\* Every inspection decides a packet in this way.
LEMMA InspectIs ==
    ASSUME TypeOK, OrderInv, QuotaInv, NEW fp \in FPs, FPInspect(fp)
    PROVE  \E x \in Ids, f \in Flows, e \in FlowEntry, cut \in BOOLEAN :
               Decides(x, f, e, cut)
<1>1. PICK x \in Ids, f \in Flows, e \in FlowEntry, cut \in BOOLEAN :
         /\ x = hand[fp] /\ f = Flow(x) /\ Home(f) = fp /\ x \in Station[4]
         /\ e = Identify(x, Entry(f)) /\ Entry(f) \in FlowEntry
         /\ cut <=> \/ e.blocked
                    \/ IsBlocked(f, e)
                    \/ Charged(f, e) /\ OverQuota(e.app, capture[x].size)
         /\ Entry(f)' = [e EXCEPT !.blocked = cut]
         /\ \A g \in Flows \ {f} : Entry(g)' = Entry(g)
         /\ IF cut THEN Leaves(4, x) ELSE Moves(4, x)
  BY Judged
<1>2. /\ x = hand[fp] /\ f = Flow(x) /\ Home(f) = fp /\ x \in Station[4]
      /\ e = Identify(x, Entry(f)) /\ Entry(f) \in FlowEntry
      /\ Entry(f)' = [e EXCEPT !.blocked = cut]
      /\ \A g \in Flows \ {f} : Entry(g)' = Entry(g)
  BY <1>1
<1>3. cut <=> \/ e.blocked
              \/ IsBlocked(f, e)
              \/ Charged(f, e) /\ OverQuota(e.app, capture[x].size)
  BY <1>1
<1>4. total' = total /\ capture' = capture /\ start' = start /\ Ids' = Ids
  BY DEF FPInspect, Ids
<1>5. Verdict(fp, x, e)
  BY <1>2 DEF FPInspect, Entry
<1>6. /\ usage' = IF Charged(f, e) THEN Recorded(e.app, capture[x].size) ELSE usage
      /\ forwarded' = IF cut THEN forwarded ELSE forwarded + 1
      /\ dropped' = IF cut THEN dropped + 1 ELSE dropped
      /\ appCounts' = [appCounts EXCEPT ![e.app] = @ + 1]
      /\ detected' = detected \cup ({e.sni} \ {EmptyName})
  <2>1. \E c \in BOOLEAN :
            /\ c <=> \/ e.blocked
                     \/ IsBlocked(f, e)
                     \/ Charged(f, e) /\ OverQuota(e.app, capture[x].size)
            /\ usage' = IF Charged(f, e) THEN Recorded(e.app, capture[x].size)
                        ELSE usage
            /\ RecordApp(e)
            /\ \/ c /\ dropped' = dropped + 1 /\ forwarded' = forwarded
               \/ ~c /\ forwarded' = forwarded + 1 /\ dropped' = dropped
    BY <1>1, <1>2, <1>5 DEF Verdict
  <2>. QED
    BY <1>3, <2>1 DEF RecordApp
<1>7. usage' = start =>
          usage = start /\ (cut => e.blocked \/ IsBlocked(f, e))
  <2>1. capture[x].size \in Nat /\ capture[x].size > 0
    <3>1. x \in DOMAIN capture /\ capture \in Captures
      BY CaptureAssumption DEF TypeOK, Ids
    <3>. QED
      BY <3>1, PacketType, SizeAssumption DEF Packet
  <2>2. PICK b \in Nat : b = capture[x].size
    BY <2>1
  <2>3. b > 0 /\ usage' = IF Charged(f, e) THEN Recorded(e.app, b) ELSE usage
    BY <1>6, <2>1, <2>2
  <2>4. usage' = start => usage = start /\ ~(Charged(f, e) /\ OverQuota(e.app, b))
    BY <2>3, StillStart
  <2>. QED
    BY <1>3, <2>2, <2>4
<1>. DEFINE S == Station
            T == Station'
<1>8. /\ S \in [Stops -> SUBSET Ids] /\ total \in Nat /\ Ids \subseteq Nat
      /\ 1 .. 4 = {1, 2, 3, 4} /\ 5 .. 7 = {5, 6, 7}
      /\ Stops = {1, 2, 3, 4, 5, 6, 7}
  BY DEF Station, Stops, Ids, TypeOK
<1>9. \A q \in S[4] : Flow(q) = f => x =< q
  BY <1>1, <1>2 DEF Moves, Leaves
<1>10. T = IF cut THEN [S EXCEPT ![4] = @ \ {x}]
           ELSE [S EXCEPT ![4] = @ \ {x}, ![4 + 1] = @ \cup {x}]
  BY <1>1 DEF Moves, Leaves
<1>11. /\ \A j, k \in Stops : \A p \in S[j], q \in S[k] :
              j < k /\ Flow(p) = Flow(q) => q < p
       /\ \A j \in Stops : \A p \in S[j] : p <= total
  BY DEF OrderInv, LineInv
<1>12. \A p \in Ids : /\ Pending(p) <=> p > total \/ \E k \in 1 .. 4 : p \in S[k]
                      /\ Pending(p)' <=> p > total \/ \E k \in 1 .. 4 : p \in T[k]
                      /\ Past(p) <=> \E k \in 5 .. 7 : p \in S[k]
                      /\ Past(p)' <=> \E k \in 5 .. 7 : p \in T[k]
  BY <1>4 DEF Pending, Past
<1>13. x \in S[4]
  BY <1>2
<1>. HIDE DEF S, T
<1>14. /\ \A k \in {1, 2, 3, 6, 7} : T[k] = S[k]
       /\ T[4] = S[4] \ {x}
       /\ T[5] = IF cut THEN S[5] ELSE S[5] \cup {x}
  BY <1>8, <1>10
<1>15. x <= total /\ \A k \in {1, 2, 3, 5, 6, 7} : x \notin S[k]
  <2>1. \A k \in {1, 2, 3, 5, 6, 7} : k \in Stops /\ 4 \in Stops /\ (k < 4 \/ 4 < k)
    BY <1>8
  <2>2. ~(x < x)
    BY <1>8
  <2>. QED
    BY <1>11, <1>13, <2>1, <2>2
<1>16. Pending(x) /\ \A p \in Ids : Pending(p)' <=> Pending(p) /\ p # x
  BY <1>8, <1>12, <1>13, <1>14, <1>15
<1>17. ~Past(x) /\ \A p \in Ids : Past(p)' <=> Past(p) \/ (p = x /\ ~cut)
  BY <1>8, <1>12, <1>14, <1>15
<1>18. ASSUME NEW p \in Ids, Flow(p) = f, Pending(p) PROVE x =< p
  <2>1. CASE p > total
    BY <1>8, <1>15, <2>1
  <2>2. CASE \E k \in 1 .. 3 : p \in S[k]
    <3>1. PICK k \in 1 .. 3 : p \in S[k]
      BY <2>2
    <3>2. k \in Stops /\ 4 \in Stops /\ k < 4
      BY <1>8
    <3>3. x < p
      BY <1>2, <1>11, <1>13, <1>18, <3>1, <3>2
    <3>. QED
      BY <1>8, <3>3
  <2>3. CASE p \in S[4]
    BY <1>9, <1>18, <2>3
  <2>. QED
    BY <1>8, <1>12, <1>18, <2>1, <2>2, <2>3
<1>19. e.blocked \/ IsBlocked(f, e) => cut
  BY <1>3
<1>20. Decides(x, f, e, cut)
  BY <1>2, <1>4, <1>6, <1>7, <1>16, <1>17, <1>18, <1>19 DEF Decides
<1>. QED
  BY <1>20

\* Every other step leaves alone what is compared.
LEMMA NoVerdict ==
    ASSUME TypeOK, ShutdownOrder, OrderInv, [Next]_vars,
           ~\E fp \in FPs : FPInspect(fp)
    PROVE  /\ capture' = capture /\ flows' = flows
           /\ UNCHANGED <<usage, start, forwarded, dropped, appCounts, detected>>
           /\ \A p \in Ids : Pending(p)' <=> Pending(p)
           /\ \A p \in Ids : Past(p)' <=> Past(p)
<1>1. UNCHANGED inspectVars
  BY StepsSorted DEF Read, LBTake, LBPush, FPTake, FPPush, WriterTake, Idle
<1>2. /\ capture' = capture
      /\ \A p \in Ids : Pending(p)' <=> Pending(p)
      /\ \A p \in Ids : Past(p)' <=> Past(p)
  BY NotJudged DEF Past
<1>. QED
  BY <1>1, <1>2 DEF inspectVars, quotaVars, statVars

\* What does not change with a step that keeps the capture.
LEMMA CaptureStays ==
    ASSUME capture' = capture
    PROVE  /\ Ids' = Ids
           /\ \A p : Flow(p)' = Flow(p)
           /\ \A n, g : Known(n, g)' = Known(n, g)
           /\ \A p : Lets(p)' <=> Lets(p)
           /\ \A g : SameNames(g)' <=> SameNames(g)
<1>1. Ids' = Ids /\ \A p : Flow(p)' = Flow(p)
  BY DEF Ids, Flow
<1>2. \A n, g : Known(n, g)' = Known(n, g)
  BY DEF Known, Loop
<1>3. \A p : Lets(p)' <=> Lets(p)
  BY <1>1, <1>2 DEF Lets
<1>4. \A g : SameNames(g)' <=> SameNames(g)
  BY <1>1 DEF SameNames
<1>. QED
  BY <1>1, <1>2, <1>3, <1>4

\* The packets of a flow are judged in the order of the capture.
JudgedInv ==
    \A p, q \in Ids :
        Pending(p) /\ ~Pending(q) /\ Flow(p) = Flow(q) => q < p

\* Those that were judged are the packets of f up to n.
JudgedUpto(f, n) == \A r \in Ids : Flow(r) = f => (~Pending(r) <=> r =< n)

\* The engine agrees with the loop, and has blocked the flow if the loop has;
\* as long as no quota was touched, only then.
Alike(f, e, k) ==
    /\ Agrees(f, e, k)
    /\ k.blocked => e.blocked
    /\ usage = start /\ e.blocked => k.blocked

\* What a fast path knows of a flow is what the loop knows of it after as many
\* of the flow's packets.
AgreeInv ==
    \A f \in Flows : SameNames(f) =>
        \A n \in 0 .. Len(capture) :
            JudgedUpto(f, n) => Alike(f, Entry(f), Known(n, f))

\* What got past the verdict: a part of the flow's packets without a gap, let
\* through by the loop too; all of them, as long as the flow is not blocked or,
\* of those that the loop lets through, as long as no quota was touched.
PastInv ==
    /\ \A p \in Ids : ~Pending(p) /\ ~Entry(Flow(p)).blocked => Past(p)
    /\ \A p, q \in Ids : Flow(p) = Flow(q) /\ p < q /\ Past(q) => Past(p)
    /\ \A p \in Ids : Past(p) /\ SameNames(Flow(p)) => Lets(p)
    /\ usage = start =>
           \A p \in Ids :
               ~Pending(p) /\ SameNames(Flow(p)) /\ Lets(p) => Past(p)

\* JudgedInv is inductive.
LEMMA JudgedStep ==
    ASSUME TypeOK, JudgedInv, NEW x \in Ids, NEW f, NEW e, NEW cut \in BOOLEAN,
           Decides(x, f, e, cut)
    PROVE  JudgedInv'
<1>1. /\ capture' = capture /\ f = Flow(x)
      /\ \A p \in Ids : Pending(p)' <=> Pending(p) /\ p # x
      /\ \A p \in Ids : Flow(p) = f /\ Pending(p) => x =< p
  BY DEF Decides
<1>2. Ids \subseteq Nat /\ Ids' = Ids /\ \A p : Flow(p)' = Flow(p)
  BY <1>1, CaptureStays DEF Ids
<1>3. ASSUME NEW p \in Ids, NEW q \in Ids, Pending(p)', ~Pending(q)',
             Flow(p) = Flow(q)
      PROVE  q < p
  <2>1. Pending(p) /\ p # x
    BY <1>1, <1>3
  <2>2. CASE q = x
    BY <1>1, <1>2, <1>3, <2>1, <2>2
  <2>3. CASE q # x
    BY <1>1, <1>3, <2>1, <2>3 DEF JudgedInv
  <2>. QED
    BY <2>2, <2>3
<1>. QED
  BY <1>2, <1>3 DEF JudgedInv

\* After a packet both know the same of its flow.
LEMMA AlikeAfter ==
    ASSUME TypeOK, JudgedInv, AgreeInv, NEW x \in Ids, NEW f,
           NEW e \in FlowEntry, NEW cut \in BOOLEAN, Decides(x, f, e, cut),
           SameNames(f)
    PROVE  /\ Known(x, f) \in SeqEntry
           /\ Agrees(f, e, Known(x, f))
           /\ Known(x, f).blocked => cut
           /\ usage' = start /\ cut => Known(x, f).blocked
<1>1. /\ f = Flow(x) /\ f \in Flows
      /\ Entry(f) \in FlowEntry /\ e = Identify(x, Entry(f))
      /\ e.blocked \/ IsBlocked(f, e) => cut
      /\ usage' = start => usage = start /\ (cut => e.blocked \/ IsBlocked(f, e))
      /\ Pending(x)
      /\ \A p \in Ids : Flow(p) = f /\ Pending(p) => x =< p
  BY DEF Decides
<1>2. PICK k : k = Sequential!Identified(f, capture[x].host, Known(x - 1, f))
  OBVIOUS
<1>3. /\ x - 1 \in 0 .. Len(capture) /\ Known(x - 1, f) \in SeqEntry
      /\ Known(x, f) \in SeqEntry
  BY <1>1, <1>2, LoopStep
<1>4. Known(x, f).app = k.app /\ Known(x, f).sni = k.sni
  <2>1. Known(x, f).app = k.app
    BY <1>1, <1>2, LoopStep
  <2>2. Known(x, f).sni = k.sni
    BY <1>1, <1>2, LoopStep
  <2>. QED
    BY <2>1, <2>2
<1>5. Known(x, f).blocked <=> Known(x - 1, f).blocked \/ Sequential!IsBlocked(f, k)
  BY <1>1, <1>2, LoopStep
<1>6. JudgedUpto(f, x - 1)
  <2>1. Ids \subseteq Nat
    BY DEF Ids
  <2>2. ASSUME NEW r \in Ids, Flow(r) = f PROVE ~Pending(r) <=> r =< x - 1
    <3>1. ~Pending(r) => r < x
      BY <1>1, <2>2 DEF JudgedInv
    <3>2. Pending(r) => x =< r
      BY <1>1, <2>2
    <3>. QED
      BY <2>1, <3>1, <3>2
  <2>. QED
    BY <2>2 DEF JudgedUpto
<1>7. PICK a, b : a = Entry(f) /\ b = Known(x - 1, f)
  OBVIOUS
<1>8. a \in FlowEntry /\ b \in SeqEntry /\ Alike(f, a, b)
  BY <1>1, <1>3, <1>6, <1>7 DEF AgreeInv
<1>9. PICK h \in Names \cup {NoHost} : h = capture[x].host
  BY PacketType DEF Packet
<1>10. h # NoHost => f \in TcpFlows /\ h # EmptyName
  BY <1>1, <1>9 DEF SameNames
<1>11. e = (IF a.classified THEN a ELSE Classify(f, h, a))
       /\ k = Sequential!Identified(f, h, b)
  BY <1>1, <1>2, <1>7, <1>9 DEF Identify
<1>12. Agrees(f, e, k)
  <2>1. Agrees(f, IF a.classified THEN a ELSE Classify(f, h, a),
               Sequential!Identified(f, h, b))
    BY <1>1, <1>8, <1>10, SameStep DEF Alike
  <2>. QED
    BY <1>11, <2>1, Zenon
<1>13. Agrees(f, e, Known(x, f))
  BY <1>4, <1>12 DEF Agrees
<1>14. IsBlocked(f, e) <=> Sequential!IsBlocked(f, k)
  BY <1>12 DEF Agrees, IsBlocked, Sequential!IsBlocked
<1>15. e.blocked = a.blocked
  BY <1>1, <1>7, <1>8, Identified
<1>16. Known(x, f).blocked <=> b.blocked \/ IsBlocked(f, e)
  BY <1>5, <1>7, <1>14
<1>17. (b.blocked => a.blocked) /\ (usage = start /\ a.blocked => b.blocked)
  BY <1>8 DEF Alike
<1>. QED
  BY <1>1, <1>3, <1>13, <1>15, <1>16, <1>17

\* AgreeInv is inductive.
LEMMA AgreeStep ==
    ASSUME TypeOK, JudgedInv, AgreeInv, NEW x \in Ids, NEW f,
           NEW e \in FlowEntry, NEW cut \in BOOLEAN, Decides(x, f, e, cut)
    PROVE  AgreeInv'
<1>1. /\ capture' = capture /\ start' = start /\ f = Flow(x) /\ f \in Flows
      /\ Entry(f)' = [e EXCEPT !.blocked = cut]
      /\ \A g \in Flows \ {f} : Entry(g)' = Entry(g)
      /\ usage' = start => usage = start
      /\ Pending(x)
      /\ \A p \in Ids : Pending(p)' <=> Pending(p) /\ p # x
      /\ \A p \in Ids : Flow(p) = f /\ Pending(p) => x =< p
  BY DEF Decides
<1>2. /\ Ids' = Ids /\ \A p : Flow(p)' = Flow(p)
      /\ \A n, g : Known(n, g)' = Known(n, g)
      /\ \A g : SameNames(g)' <=> SameNames(g)
  BY <1>1, CaptureStays
<1>3. \A g, n : JudgedUpto(g, n)' <=>
              \A r \in Ids : Flow(r) = g => (~(Pending(r) /\ r # x) <=> r =< n)
  BY <1>1, <1>2 DEF JudgedUpto
<1>4. ASSUME NEW g \in Flows, SameNames(g), NEW n \in 0 .. Len(capture),
             JudgedUpto(g, n)'
      PROVE  Alike(g, Entry(g), Known(n, g))'
  <2>0. Alike(g, Entry(g), Known(n, g))' <=>
            /\ Agrees(g, Entry(g)', Known(n, g))
            /\ Known(n, g).blocked => Entry(g)'.blocked
            /\ usage' = start /\ Entry(g)'.blocked => Known(n, g).blocked
    BY <1>1, <1>2 DEF Alike, Agrees
  <2>1. CASE g # f
    <3>1. JudgedUpto(g, n)
      BY <1>1, <1>3, <1>4, <2>1 DEF JudgedUpto
    <3>2. Alike(g, Entry(g), Known(n, g)) /\ Entry(g)' = Entry(g)
      BY <1>1, <1>4, <2>1, <3>1 DEF AgreeInv
    <3>3. /\ Agrees(g, Entry(g)', Known(n, g))
          /\ Known(n, g).blocked => Entry(g)'.blocked
          /\ usage = start /\ Entry(g)'.blocked => Known(n, g).blocked
      BY <3>2 DEF Alike
    <3>. QED
      BY <1>1, <2>0, <3>3
  <2>2. CASE g = f
    <3>1. Ids \subseteq Nat /\ x =< n /\ x \in 0 .. Len(capture)
      <4>1. Len(capture) \in Nat
        BY CaptureAssumption DEF TypeOK
      <4>. QED
        BY <1>1, <1>3, <1>4, <2>2, <4>1 DEF Ids
    <3>2. \A r \in x + 1 .. n : Flow(r) # f
      <4>1. SUFFICES ASSUME NEW r \in x + 1 .. n, Flow(r) = f PROVE FALSE
        OBVIOUS
      <4>2. r \in Ids /\ r =< n /\ r # x /\ ~(r < x)
        BY <3>1 DEF Ids
      <4>3. ~Pending(r)
        BY <1>3, <1>4, <2>2, <4>1, <4>2
      <4>. QED
        BY <1>1, <4>1, <4>2, <4>3 DEF JudgedInv
    <3>3. Known(n, f) = Known(x, f)
      BY <1>1, <1>4, <3>1, <3>2, KnownSame
    <3>4. PICK k \in SeqEntry : k = Known(x, f)
      BY <1>4, <2>2, AlikeAfter
    <3>5. /\ Agrees(f, e, k)
          /\ k.blocked => cut
          /\ usage' = start /\ cut => k.blocked
      BY <1>4, <2>2, <3>4, AlikeAfter
    <3>6. PICK z \in FlowEntry : z = [e EXCEPT !.blocked = cut]
      BY DEF FlowEntry
    <3>7. /\ z.app = e.app /\ z.sni = e.sni /\ z.classified = e.classified
          /\ z.blocked = cut
      BY <3>6 DEF FlowEntry
    <3>8. Agrees(f, z, k)
      BY <3>5, <3>7 DEF Agrees
    <3>9. Entry(g)' = z /\ Known(n, g) = k
      BY <1>1, <2>2, <3>3, <3>4, <3>6
    <3>10. /\ Agrees(g, z, k)
           /\ k.blocked => z.blocked
           /\ usage' = start /\ z.blocked => k.blocked
      <4>1. k.blocked => z.blocked
        BY <3>5, <3>7
      <4>2. usage' = start /\ z.blocked => k.blocked
        BY <3>5, <3>7
      <4>. QED
        BY <2>2, <3>8, <4>1, <4>2
    <3>. QED
      BY <2>0, <3>9, <3>10, Zenon
  <2>. QED
    BY <2>1, <2>2
<1>5. Len(capture)' = Len(capture)
  BY <1>1
<1>. QED
  BY <1>2, <1>4, <1>5 DEF AgreeInv

\* PastInv is inductive.
LEMMA PastStep ==
    ASSUME TypeOK, JudgedInv, AgreeInv, PastInv, NEW x \in Ids, NEW f,
           NEW e \in FlowEntry, NEW cut \in BOOLEAN, Decides(x, f, e, cut)
    PROVE  PastInv'
<1>1. /\ capture' = capture /\ start' = start /\ f = Flow(x) /\ f \in Flows
      /\ Entry(f)'.blocked = cut /\ e.blocked = Entry(f).blocked
      /\ \A g \in Flows \ {f} : Entry(g)' = Entry(g)
      /\ e.blocked => cut
      /\ usage' = start => usage = start
      /\ Pending(x)
      /\ \A p \in Ids : Pending(p)' <=> Pending(p) /\ p # x
      /\ \A p \in Ids : Flow(p) = f /\ Pending(p) => x =< p
      /\ \A p \in Ids : Past(p)' <=> Past(p) \/ (p = x /\ ~cut)
  BY Identified DEF Decides, FlowEntry
<1>2. /\ Ids' = Ids /\ \A p : Flow(p)' = Flow(p)
      /\ \A p : Lets(p)' <=> Lets(p)
      /\ \A g : SameNames(g)' <=> SameNames(g)
      /\ Ids \subseteq Nat /\ \A p \in Ids : Flow(p) \in Flows
      /\ \A p : Entry(Flow(p))' = flows'[Home(Flow(p))'][Flow(p)]
  BY <1>1, CaptureStays, PacketType DEF Ids, Entry
<1>3. SameNames(f) => /\ Lets(x) \/ cut
                      /\ usage' = start /\ cut => ~Lets(x)
  BY <1>1, AlikeAfter DEF Lets
<1>4. /\ \A p \in Ids : ~Pending(p) /\ ~Entry(Flow(p)).blocked => Past(p)
      /\ \A p, q \in Ids : Flow(p) = Flow(q) /\ p < q /\ Past(q) => Past(p)
      /\ \A p \in Ids : Past(p) /\ SameNames(Flow(p)) => Lets(p)
      /\ usage = start =>
             \A p \in Ids :
                 ~Pending(p) /\ SameNames(Flow(p)) /\ Lets(p) => Past(p)
  BY DEF PastInv
<1>5. ASSUME NEW p \in Ids, ~Pending(p)', ~Entry(Flow(p))'.blocked
      PROVE  Past(p)'
  <2>1. CASE Flow(p) # f
    <3>1. Entry(Flow(p))' = Entry(Flow(p)) /\ p # x
      BY <1>1, <1>2, <2>1 DEF Entry
    <3>. QED
      BY <1>1, <1>4, <1>5, <3>1
  <2>2. CASE Flow(p) = f
    <3>1. Entry(Flow(p))' = Entry(f)' /\ Entry(Flow(p)) = Entry(f)
      BY <1>2, <2>2 DEF Entry
    <3>2. ~cut /\ ~Entry(f).blocked
      BY <1>1, <1>5, <3>1
    <3>. QED
      BY <1>1, <1>4, <1>5, <3>1, <3>2
  <2>. QED
    BY <2>1, <2>2
<1>6. ASSUME NEW p \in Ids, NEW q \in Ids, Flow(p) = Flow(q), p < q, Past(q)'
      PROVE  Past(p)'
  <2>1. CASE q = x /\ ~cut
    <3>1. ~Pending(p)
      BY <1>1, <1>2, <1>6, <2>1
    <3>2. Entry(Flow(p)) = Entry(f)
      BY <1>1, <1>6, <2>1
    <3>. QED
      BY <1>1, <1>4, <2>1, <3>1, <3>2
  <2>2. CASE Past(q)
    BY <1>1, <1>4, <1>6, <2>2
  <2>. QED
    BY <1>1, <1>6, <2>1, <2>2
<1>7. ASSUME NEW p \in Ids, Past(p)', SameNames(Flow(p)) PROVE Lets(p)
  BY <1>1, <1>3, <1>4, <1>7
<1>8. ASSUME usage' = start, NEW p \in Ids, ~Pending(p)', SameNames(Flow(p)),
             Lets(p)
      PROVE  Past(p)'
  <2>1. CASE p = x
    BY <1>1, <1>3, <1>8, <2>1
  <2>2. CASE p # x
    BY <1>1, <1>4, <1>8, <2>2
  <2>. QED
    BY <2>1, <2>2
<1>. QED
  BY <1>1, <1>2, <1>5, <1>6, <1>7, <1>8 DEF PastInv

\* The packets with a verdict, and those that got past it.
Concluded == {p \in Ids : ~Pending(p)}
LetOut == {p \in Ids : Past(p)}
\* Those that the loop takes for a packet of the application, and the names it
\* has for them.
ConcludedOf(a) == {p \in Concluded : Known(p, Flow(p)).app = a}
ConcludedNames == {Known(p, Flow(p)).sni : p \in Concluded} \ {EmptyName}

\* The report counts these packets.
TallyInv ==
    /\ forwarded + dropped = Cardinality(Concluded)
    /\ forwarded = Cardinality(LetOut)
    /\ (\A f \in Flows : SameNames(f)) =>
           /\ \A a \in AppTypes : appCounts[a] = Cardinality(ConcludedOf(a))
           /\ detected = ConcludedNames

\* Everything that is compared.
SameInv == JudgedInv /\ AgreeInv /\ PastInv /\ TallyInv

\* TallyInv is inductive.
LEMMA TallyStep ==
    ASSUME TypeOK, JudgedInv, AgreeInv, TallyInv, NEW x \in Ids, NEW f,
           NEW e \in FlowEntry, NEW cut \in BOOLEAN, Decides(x, f, e, cut)
    PROVE  TallyInv'
<1>1. /\ capture' = capture /\ f = Flow(x) /\ f \in Flows
      /\ Pending(x) /\ ~Past(x)
      /\ \A p \in Ids : Pending(p)' <=> Pending(p) /\ p # x
      /\ \A p \in Ids : Past(p)' <=> Past(p) \/ (p = x /\ ~cut)
      /\ forwarded' = IF cut THEN forwarded ELSE forwarded + 1
      /\ dropped' = IF cut THEN dropped + 1 ELSE dropped
      /\ appCounts' = [appCounts EXCEPT ![e.app] = @ + 1]
      /\ detected' = detected \cup ({e.sni} \ {EmptyName})
  BY DEF Decides
<1>2. /\ Ids' = Ids /\ \A p : Flow(p)' = Flow(p)
      /\ \A n, g : Known(n, g)' = Known(n, g)
      /\ \A g : SameNames(g)' <=> SameNames(g)
  BY <1>1, CaptureStays
<1>3. /\ Concluded' = Concluded \cup {x} /\ x \notin Concluded
      /\ LetOut' = (IF cut THEN LetOut ELSE LetOut \cup {x}) /\ x \notin LetOut
  BY <1>1, <1>2 DEF Concluded, LetOut
<1>4. \A S : S \subseteq Ids => IsFiniteSet(S)
  <2>1. IsFiniteSet(Ids)
    BY FS_Interval, CaptureAssumption DEF Ids, TypeOK
  <2>. QED
    BY <2>1, FS_Subset
<1>5. \A S : S \subseteq Ids /\ x \notin S =>
          Cardinality(S \cup {x}) = Cardinality(S) + 1
  BY <1>4, FS_AddElement
<1>6. forwarded \in Nat /\ dropped \in Nat /\ appCounts \in [AppTypes -> Nat]
  BY DEF TypeOK
<1>7. /\ Concluded \subseteq Ids /\ LetOut \subseteq Ids
      /\ \A a : ConcludedOf(a) \subseteq Ids /\ x \notin ConcludedOf(a)
  BY <1>3 DEF Concluded, LetOut, ConcludedOf
<1>8. forwarded' = Cardinality(LetOut)'
  <2>1. forwarded = Cardinality(LetOut)
    BY DEF TallyInv
  <2>. QED
    BY <1>1, <1>3, <1>5, <1>7, <2>1
<1>9. (forwarded + dropped)' = Cardinality(Concluded)'
  <2>1. forwarded + dropped = Cardinality(Concluded)
    BY DEF TallyInv
  <2>2. Cardinality(Concluded') = Cardinality(Concluded) + 1
    BY <1>3, <1>5, <1>7
  <2>. QED
    BY <1>1, <1>6, <2>1, <2>2
<1>10. ASSUME \A g \in Flows : SameNames(g)
       PROVE  /\ \A a \in AppTypes : appCounts'[a] = Cardinality(ConcludedOf(a)')
              /\ detected' = ConcludedNames'
  <2>1. PICK k \in SeqEntry : k = Known(x, f)
    BY <1>1, <1>10, AlikeAfter
  <2>2. k.app = e.app /\ k.sni = e.sni
    BY <1>1, <1>10, <2>1, AlikeAfter DEF Agrees
  <2>3. /\ \A a \in AppTypes : appCounts[a] = Cardinality(ConcludedOf(a))
        /\ detected = ConcludedNames
    BY <1>10 DEF TallyInv
  <2>4. \A a : ConcludedOf(a)' =
                   IF k.app = a THEN ConcludedOf(a) \cup {x} ELSE ConcludedOf(a)
    BY <1>1, <1>2, <1>3, <2>1 DEF ConcludedOf
  <2>5. ConcludedNames' = ConcludedNames \cup ({k.sni} \ {EmptyName})
    BY <1>1, <1>2, <1>3, <2>1 DEF ConcludedNames
  <2>6. e.app \in AppTypes
    BY DEF FlowEntry
  <2>7. ASSUME NEW a \in AppTypes PROVE appCounts'[a] = Cardinality(ConcludedOf(a)')
    BY <1>1, <1>5, <1>6, <1>7, <2>2, <2>3, <2>4, <2>6
  <2>. QED
    BY <1>1, <2>2, <2>3, <2>5, <2>7
<1>. QED
  BY <1>2, <1>8, <1>9, <1>10 DEF TallyInv

\* Every step keeps what is compared.
LEMMA SameNext ==
    ASSUME TypeOK, ShutdownOrder, OrderInv, QuotaInv, SameInv, [Next]_vars
    PROVE  SameInv'
<1>1. ASSUME NEW fp \in FPs, FPInspect(fp) PROVE SameInv'
  <2>1. PICK x \in Ids, f \in Flows, e \in FlowEntry, cut \in BOOLEAN :
           Decides(x, f, e, cut)
    BY <1>1, InspectIs
  <2>. QED
    BY <2>1, JudgedStep, AgreeStep, PastStep, TallyStep DEF SameInv
<1>2. CASE ~\E fp \in FPs : FPInspect(fp)
  <2>1. /\ capture' = capture /\ flows' = flows
        /\ UNCHANGED <<usage, start, forwarded, dropped, appCounts, detected>>
        /\ \A p \in Ids : Pending(p)' <=> Pending(p)
        /\ \A p \in Ids : Past(p)' <=> Past(p)
    BY <1>2, NoVerdict
  <2>2. /\ Ids' = Ids /\ \A p : Flow(p)' = Flow(p)
        /\ \A n, g : Known(n, g)' = Known(n, g)
        /\ \A p : Lets(p)' <=> Lets(p)
        /\ \A g : SameNames(g)' <=> SameNames(g)
    BY <2>1, CaptureStays
  <2>3. \A g : Entry(g)' = Entry(g)
    BY <2>1 DEF Entry
  <2>4. JudgedInv'
    BY <2>1, <2>2 DEF JudgedInv, SameInv
  <2>5. AgreeInv'
    <3>1. \A g, n : JudgedUpto(g, n)' <=> JudgedUpto(g, n)
      BY <2>1, <2>2 DEF JudgedUpto
    <3>2. \A g, n : Alike(g, Entry(g), Known(n, g))' <=>
                        Alike(g, Entry(g), Known(n, g))
      BY <2>1, <2>2, <2>3 DEF Alike, Agrees
    <3>. QED
      BY <2>1, <2>2, <3>1, <3>2 DEF AgreeInv, SameInv
  <2>6. PastInv'
    BY <2>1, <2>2, <2>3 DEF PastInv, SameInv
  <2>7. TallyInv'
    <3>1. Concluded' = Concluded /\ LetOut' = LetOut
      BY <2>1, <2>2 DEF Concluded, LetOut
    <3>2. /\ \A a : ConcludedOf(a)' = ConcludedOf(a)
          /\ ConcludedNames' = ConcludedNames
      BY <2>2, <3>1 DEF ConcludedOf, ConcludedNames
    <3>. QED
      BY <2>1, <2>2, <3>1, <3>2 DEF TallyInv, SameInv
  <2>. QED
    BY <2>4, <2>5, <2>6, <2>7 DEF SameInv
<1>. QED
  BY <1>1, <1>2

\* At the start neither has seen anything.
LEMMA SameInit == Init => SameInv
<1>. SUFFICES ASSUME Init PROVE SameInv
  OBVIOUS
<1>1. /\ TypeOK /\ total = 0 /\ forwarded = 0 /\ dropped = 0 /\ detected = {}
      /\ appCounts = [a \in AppTypes |-> 0]
  BY TypeInit DEF Init
<1>2. \A f \in Flows : Entry(f) = NewFlow
  <2>1. \A f \in Flows : Home(f) \in FPs
    BY <1>1, Handlers
  <2>. QED
    BY <2>1 DEF Init, Entry
<1>3. \A p \in Ids : Pending(p) /\ p > 0
  BY <1>1 DEF Pending, Ids
<1>4. \A p \in Ids : ~Past(p)
  <2>1. OrderInv
    BY OrderInit
  <2>2. \A k \in 5 .. 7 : k \in Stops /\ Station[k] \subseteq Ids
    BY DEF Station, Stops
  <2>3. \A k \in 5 .. 7 : \A p \in Station[k] : p =< 0 /\ p \in Ids
    BY <1>1, <2>1, <2>2 DEF OrderInv, LineInv
  <2>4. \A p \in Ids : ~(p =< 0)
    BY DEF Ids
  <2>. QED
    BY <2>3, <2>4 DEF Past
<1>5. JudgedInv
  BY <1>3 DEF JudgedInv
<1>6. AgreeInv
  <2>1. ASSUME NEW f \in Flows, NEW n \in 0 .. Len(capture), JudgedUpto(f, n)
        PROVE  Alike(f, Entry(f), Known(n, f))
    <3>1. Len(capture) \in Nat /\ 0 \in 0 .. Len(capture) /\ 0 =< n
      BY <1>1, CaptureAssumption DEF TypeOK
    <3>2. \A p \in 0 + 1 .. n : Flow(p) # f
      <4>1. ASSUME NEW p \in 0 + 1 .. n PROVE p \in Ids /\ p =< n
        BY <3>1 DEF Ids
      <4>. QED
        BY <1>3, <2>1, <4>1 DEF JudgedUpto
    <3>3. Known(n, f) = Known(0, f)
      BY <1>1, <3>1, <3>2, KnownSame
    <3>4. Known(0, f) = Sequential!NewFlow
      BY <1>1, LoopIs DEF Known, Sequential!Start
    <3>5. PICK e, k : e = NewFlow /\ k = Sequential!NewFlow
      OBVIOUS
    <3>6. Alike(f, e, k)
      BY <3>5 DEF NewFlow, Sequential!NewFlow, Alike, Agrees
    <3>. QED
      BY <1>2, <3>3, <3>4, <3>5, <3>6, Zenon
  <2>. QED
    BY <2>1 DEF AgreeInv
<1>7. PastInv
  BY <1>3, <1>4 DEF PastInv
<1>8. TallyInv
  <2>1. Concluded = {} /\ LetOut = {}
    BY <1>3, <1>4 DEF Concluded, LetOut
  <2>2. ConcludedNames = {} /\ \A a : ConcludedOf(a) = {}
    BY <2>1 DEF ConcludedNames, ConcludedOf
  <2>. QED
    BY <1>1, <2>1, <2>2, FS_EmptySet DEF TallyInv
<1>. QED
  BY <1>5, <1>6, <1>7, <1>8 DEF SameInv

\* A flow's packets, of a sequence that has them in the order of the capture.
LEMMA OfFlowIs ==
    ASSUME NEW S \in SUBSET Nat, NEW s \in Seq(S), Sorted(s), NEW f, NEW t,
           t = OfFlow(s, f)
    PROVE  /\ t \in Seq(S) /\ Increasing(t)
           /\ \A x : x \in Range(t) <=> x \in Range(s) /\ Flow(x) = f
<1>1. ASSUME NEW c, FlowSorted(c, s, f), t = Select(c, s, f)
      PROVE  /\ t \in Seq(S) /\ Increasing(t)
             /\ \A x : x \in Range(t) <=> x \in Range(s) /\ c[x].flow = f
  <2>1. t \in Seq(S)
    BY <1>1, SelectIs
  <2>2. Increasing(t)
    BY <1>1, SelectIs
  <2>3. \A x : x \in Range(t) <=> x \in Range(s) /\ c[x].flow = f
    BY <1>1, SelectIs
  <2>. QED
    BY <2>1, <2>2, <2>3
<1>2. FlowSorted(capture, s, f)
  BY DEF Sorted, Flow, FlowSorted
<1>3. t = Select(capture, s, f)
  BY Selected
<1>. QED
  BY <1>1, <1>2, <1>3 DEF Flow

\* What is written of a flow is the beginning of what the loop writes of it.
LEMMA SamePrefix ==
    ASSUME TypeOK, OrderInv, SameInv, NEW f \in Flows, SameNames(f)
    PROVE  IsPrefix(OfFlow(written, f), OfFlow(Sequential!Run(capture).output, f))
<1>1. Len(capture) \in Nat /\ Ids = 1 .. Len(capture) /\ Ids \in SUBSET Nat
  BY CaptureAssumption DEF TypeOK, Ids
<1>2. PICK o : o = Sequential!Run(capture).output
  OBVIOUS
<1>3. /\ o \in Seq(Ids) /\ Increasing(o)
      /\ Range(o) = {p \in Ids : Lets(p)}
  <2>1. o = Loop[Len(capture)].output
    BY <1>2, LoopIs
  <2>. QED
    BY <1>1, <2>1, OutputIs
<1>4. written \in Seq(Ids) /\ Sorted(written)
  BY QueueType DEF OrderInv, SortedInv
<1>5. PICK s, t : s = OfFlow(written, f) /\ t = OfFlow(o, f)
  OBVIOUS
<1>6. /\ s \in Seq(Ids) /\ Increasing(s)
      /\ \A x : x \in Range(s) <=> x \in Range(written) /\ Flow(x) = f
  <2>1. s \in Seq(Ids)
    BY <1>1, <1>4, <1>5, OfFlowIs
  <2>2. Increasing(s)
    BY <1>1, <1>4, <1>5, OfFlowIs
  <2>3. \A x : x \in Range(s) <=> x \in Range(written) /\ Flow(x) = f
    BY <1>1, <1>4, <1>5, OfFlowIs
  <2>. QED
    BY <2>1, <2>2, <2>3
<1>7. /\ t \in Seq(Ids) /\ Increasing(t)
      /\ \A x : x \in Range(t) <=> x \in Range(o) /\ Flow(x) = f
  <2>0. Sorted(o)
    BY <1>3 DEF Increasing, Sorted
  <2>1. t \in Seq(Ids)
    BY <1>1, <1>3, <1>5, <2>0, OfFlowIs
  <2>2. Increasing(t)
    BY <1>1, <1>3, <1>5, <2>0, OfFlowIs
  <2>3. \A x : x \in Range(t) <=> x \in Range(o) /\ Flow(x) = f
    BY <1>1, <1>3, <1>5, <2>0, OfFlowIs
  <2>. QED
    BY <2>1, <2>2, <2>3
<1>8. Range(written) = Station[7]
  <2>1. Range(written) \subseteq Ids
    BY <1>4 DEF Range
  <2>. QED
    BY <2>1 DEF Station, Stops, At
<1>9. \A x \in Range(written) : x \in Ids /\ Past(x)
  <2>1. 7 \in Stops /\ 7 \in 5 .. 7 /\ Station[7] \subseteq Ids
    BY DEF Station, Stops
  <2>. QED
    BY <1>8, <2>1 DEF Past
<1>10. Range(s) \subseteq Range(t)
  <2>1. \A x \in Ids : Past(x) /\ SameNames(Flow(x)) => Lets(x)
    BY DEF SameInv, PastInv
  <2>. QED
    BY <1>3, <1>6, <1>7, <1>9, <2>1
<1>11. ASSUME NEW x \in Range(t), NEW y \in Range(s), x < y PROVE x \in Range(s)
  <2>1. x \in Ids /\ y \in Ids /\ Flow(x) = f /\ Flow(y) = f /\ Past(y) /\ y \in Station[7]
    BY <1>3, <1>6, <1>7, <1>8, <1>9
  <2>2. Past(x)
    BY <1>11, <2>1 DEF SameInv, PastInv
  <2>3. PICK k \in 5 .. 7 : x \in Station[k]
    BY <2>2 DEF Past
  <2>4. k \in Stops /\ 7 \in Stops /\ (k = 7 \/ k < 7)
    BY DEF Stops
  <2>5. k < 7 => y < x
    BY <2>1, <2>3, <2>4 DEF OrderInv, LineInv
  <2>6. ~(y < x)
    BY <1>1, <1>11, <2>1
  <2>. QED
    BY <1>6, <1>8, <2>1, <2>3, <2>4, <2>5, <2>6
<1>12. IsPrefix(s, t)
  BY <1>1, <1>6, <1>7, <1>10, <1>11, IncreasingPrefix
<1>. QED
  BY <1>2, <1>5, <1>12

\* Once every packet has its verdict the two report the same.
LEMMA SameReport ==
    ASSUME TypeOK, SameInv, \A f \in Flows : SameNames(f),
           forwarded + dropped = Len(capture)
    PROVE  LET run == Sequential!Run(capture) IN
           /\ appCounts = run.appStats
           /\ detected = {run.flows[f].sni : f \in Flows} \ {EmptyName}
           /\ usage = start => forwarded = run.forwarded
<1>. DEFINE N == Len(capture)
<1>1. N \in Nat /\ Ids = 1 .. N /\ N \in 0 .. N /\ Ids = Seen(N)
  BY CaptureAssumption DEF TypeOK, Ids, Seen
<1>2. Concluded = Ids
  <2>1. IsFiniteSet(Ids) /\ Cardinality(Ids) = N
    <3>1. PICK n \in Nat : n = N
      BY <1>1
    <3>2. IsFiniteSet(1 .. n) /\ Cardinality(1 .. n) = n
      BY FS_Interval
    <3>. QED
      BY <1>1, <3>1, <3>2
  <2>2. Cardinality(Concluded) = N
    BY DEF SameInv, TallyInv
  <2>3. Concluded \subseteq Ids
    BY DEF Concluded
  <2>. QED
    BY <2>1, <2>2, <2>3, FS_Subset
<1>3. PICK run : run = Sequential!Run(capture)
  OBVIOUS
<1>4. run = Loop[N] /\ run \in LoopState
  BY <1>1, <1>3, LoopIs, LoopType
<1>5. /\ run.forwarded = Cardinality(LetUpto(N))
      /\ \A a \in AppTypes : run.appStats[a] = Cardinality(OfApp(N, a))
  BY <1>1, <1>4, StatsAre
<1>6. {run.flows[f].sni : f \in Flows} \ {EmptyName} = NamesUpto(N)
  BY <1>1, <1>4, NamesAre DEF Known
<1>7. /\ \A a \in AppTypes : appCounts[a] = Cardinality(ConcludedOf(a))
      /\ detected = ConcludedNames /\ forwarded = Cardinality(LetOut)
  BY DEF SameInv, TallyInv
<1>8. /\ ConcludedNames = NamesUpto(N)
      /\ \A a : ConcludedOf(a) = OfApp(N, a)
  BY <1>1, <1>2 DEF ConcludedNames, NamesUpto, ConcludedOf, OfApp
<1>9. appCounts = run.appStats
  <2>1. appCounts \in [AppTypes -> Nat] /\ run.appStats \in [AppTypes -> Nat]
    BY <1>4 DEF TypeOK, LoopState
  <2>. QED
    BY <1>5, <1>7, <1>8, <2>1
<1>10. usage = start => LetOut = LetUpto(N)
  <2>1. \A p \in Ids : Flow(p) \in Flows /\ ~Pending(p)
    BY <1>2, QueueType DEF Concluded
  <2>2. usage = start => \A p \in Ids : Past(p) <=> Lets(p)
    BY <2>1 DEF SameInv, PastInv
  <2>. QED
    BY <1>1, <2>2 DEF LetOut, LetUpto
<1>. QED
  BY <1>3, <1>5, <1>6, <1>7, <1>8, <1>9, <1>10

\* For every number of threads, queue size, capture and rules, in whatever
\* order the threads take their turns: what the engine writes of a flow is the
\* beginning of what the single-threaded program (main_working.cpp:226-300)
\* writes of it, and once every packet has its verdict the two report the same
\* applications and the same names; the same number of packets forwarded too,
\* if no quota was touched.
THEOREM SequentialVerdicts == Spec => []SameAsSequential
<1>. DEFINE Inv == TypeOK /\ ShutdownOrder /\ OrderInv /\ QuotaInv
<1>1. Spec => []QuotaInv
  <2>1. TypeOK /\ QuotaInv /\ [Next]_vars => QuotaInv'
    BY QuotaNext
  <2>. QED
    BY <2>1, QuotaInit, TypeCorrect, PTL DEF Spec
<1>2. Spec => []OrderInv
  BY FlowsInOrder, PTL
<1>3. Spec => []Inv
  BY <1>1, <1>2, TypeCorrect, ConsumersOutliveProducers, PTL
<1>4. Inv /\ SameInv /\ [Next]_vars => SameInv'
  BY SameNext
<1>5. Inv /\ SameInv => SameAsSequential
  <2>. SUFFICES ASSUME Inv, SameInv PROVE SameAsSequential
    OBVIOUS
  <2>1. PICK run : run = Sequential!Run(capture)
    OBVIOUS
  <2>2. \A f \in Flows : SameNames(f) =>
            IsPrefix(OfFlow(written, f), OfFlow(run.output, f))
    BY <2>1, SamePrefix
  <2>3. (\A f \in Flows : SameNames(f)) /\ forwarded + dropped = Len(capture)
            => /\ appCounts = run.appStats
               /\ detected = {run.flows[f].sni : f \in Flows} \ {EmptyName}
               /\ usage = start => forwarded = run.forwarded
    BY <2>1, SameReport
  <2>. QED
    BY <2>1, <2>2, <2>3 DEF SameAsSequential
<1>. HIDE DEF Inv
<1>6. Spec => []SameInv
  BY <1>3, <1>4, SameInit, PTL DEF Spec
<1>. QED
  BY <1>3, <1>5, <1>6, PTL
=============================================================================
