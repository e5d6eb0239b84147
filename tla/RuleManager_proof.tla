-------------------------- MODULE RuleManager_proof --------------------------
(***************************************************************************)
(* Theorems about the rule manager of the first engine.                    *)
(***************************************************************************)
EXTENDS RuleManager, FiniteSetTheorems, SequenceTheorems,
        WellFoundedInduction, TLAPS

\* Addresses as texts, and the two kinds of names.
Texts == [1 .. 4 -> 0 .. Octets - 1]
Names == Seq(Labels)
ExactName == {name \in Names : ~IsPattern(name)}
PatternName == {name \in Names : IsPattern(name)}

\* What the manager can hold.
RuleSet == [ip : SUBSET Address, app : SUBSET AppTypes,
            exact : SUBSET ExactName, patterns : Seq(PatternName),
            port : SUBSET Port]

-----------------------------------------------------------------------------
(* Conversions of addresses. *)

\* Division of a number by a positive one, with its remainder.
LEMMA DivMod ==
    ASSUME NEW a \in Nat, NEW b \in Nat \ {0}
    PROVE  /\ a \div b \in Nat
           /\ a % b \in 0 .. b - 1
           /\ a = (a % b) + b * (a \div b)
  BY Z3

\* The quotient is the only number that leaves such a remainder.
LEMMA Quotient ==
    ASSUME NEW b \in Nat \ {0}, NEW q \in Nat, NEW r \in 0 .. b - 1
    PROVE  (r + b * q) \div b = q /\ (r + b * q) % b = r
<1>. DEFINE a == r + b * q
            p == a \div b
            s == a % b
<1>0. b * q \in Nat
  BY Z3
<1>1. a \in Nat
  BY <1>0
<1>2. p \in Nat /\ s \in 0 .. b - 1 /\ a = s + b * p
  BY <1>1, DivMod
<1>. HIDE DEF p, s
<1>3. r + b * q = s + b * p
  BY <1>2
<1>4. ~ p > q
  <2>1. SUFFICES ASSUME p > q PROVE FALSE
    OBVIOUS
  <2>2. PICK d \in Nat : p = q + 1 + d
    <3>1. p - q - 1 \in Nat /\ p = q + 1 + (p - q - 1)
      BY <1>2, <2>1
    <3>. QED
      BY <3>1
  <2>3. b * p = b * q + b + b * d /\ b * d \in Nat
    BY <2>2, <1>2, Z3
  <2>. QED
    BY <2>3, <1>3, <1>2, <1>0
<1>5. ~ q > p
  <2>1. SUFFICES ASSUME q > p PROVE FALSE
    OBVIOUS
  <2>2. PICK d \in Nat : q = p + 1 + d
    <3>1. q - p - 1 \in Nat /\ q = p + 1 + (q - p - 1)
      BY <1>2, <2>1
    <3>. QED
      BY <3>1
  <2>3. b * q = b * p + b + b * d /\ b * d \in Nat /\ b * p \in Nat
    BY <2>2, <1>2, Z3
  <2>. QED
    BY <2>3, <1>3, <1>2
<1>6. p = q
  BY <1>2, <1>4, <1>5
<1>7. s = r
  BY <1>3, <1>6, <1>2, <1>0
<1>. QED
  BY <1>6, <1>7 DEF p, s

\* A number with one more digit in front.
LEMMA Digit ==
    ASSUME NEW b \in Nat \ {0}, NEW n \in Nat \ {0},
           NEW r \in 0 .. b - 1, NEW q \in 0 .. n - 1
    PROVE  r + b * q \in 0 .. b * n - 1
<1>1. b * q \in Nat /\ b * n \in Nat
  BY Z3
<1>2. PICK d \in Nat : n = q + 1 + d
  <2>1. n - q - 1 \in Nat /\ n = q + 1 + (n - q - 1)
    OBVIOUS
  <2>. QED
    BY <2>1
<1>3. b * n = b * q + b + b * d /\ b * d \in Nat
  BY <1>2, Z3
<1>. QED
  BY <1>1, <1>3

\* A number without its last digit.
LEMMA Shifted ==
    ASSUME NEW b \in Nat \ {0}, NEW n \in Nat \ {0},
           NEW a \in 0 .. b * n - 1
    PROVE  a \div b \in 0 .. n - 1
<1>0. b * n \in Nat /\ a \in Nat
  BY Z3
<1>. DEFINE q == a \div b
<1>1. q \in Nat /\ a % b \in 0 .. b - 1 /\ a = (a % b) + b * q
  BY <1>0, DivMod
<1>. HIDE DEF q
<1>2. ~ q >= n
  <2>1. SUFFICES ASSUME q >= n PROVE FALSE
    OBVIOUS
  <2>2. PICK d \in Nat : q = n + d
    <3>1. q - n \in Nat /\ q = n + (q - n)
      BY <1>1, <2>1
    <3>. QED
      BY <3>1
  <2>3. b * q = b * n + b * d /\ b * d \in Nat
    BY <2>2, Z3
  <2>. QED
    BY <2>3, <1>1, <1>0
<1>3. q \in 0 .. n - 1
  BY <1>1, <1>2
<1>. QED
  BY <1>3 DEF q

\* Dividing twice is dividing by the product.
LEMMA DividedTwice ==
    ASSUME NEW a \in Nat, NEW b \in Nat \ {0}, NEW c \in Nat \ {0}
    PROVE  a \div (b * c) = (a \div b) \div c
<1>. DEFINE q == a \div b
            r == a % b
            p == q \div c
            s == q % c
<1>1. q \in Nat /\ r \in 0 .. b - 1 /\ a = r + b * q
  BY DivMod
<1>2. p \in Nat /\ s \in 0 .. c - 1 /\ q = s + c * p
  BY <1>1, DivMod
<1>. HIDE DEF q, r, p, s
<1>3. r + b * s \in 0 .. b * c - 1
  BY <1>1, <1>2, Digit
<1>4. b * c \in Nat \ {0}
  BY Z3
<1>5. a = (r + b * s) + (b * c) * p
  <2>1. b * (s + c * p) = b * s + (b * c) * p
    BY <1>2, Z3
  <2>. QED
    BY <2>1, <1>1, <1>2, <1>3, <1>4, Z3
<1>6. a \div (b * c) = p
  BY <1>2, <1>3, <1>4, <1>5, Quotient
<1>. QED
  BY <1>6 DEF p, q

\* parseIP reads an address from any four octets, ipToString writes four
\* octets for any address, and reading what was written gives the address.
LEMMA AddressText ==
    /\ \A t \in Texts : ParseIP(t) \in Address
    /\ \A a \in Address : /\ IpToString(a) \in Texts
                         /\ ParseIP(IpToString(a)) = a
<1>. DEFINE O == Octets
<1>0. /\ O \in Nat \ {0}
      /\ O * O \in Nat \ {0}
      /\ O * O * O \in Nat \ {0}
      /\ O * O * O * O \in Nat \ {0}
      /\ O * (O * O) = O * O * O
      /\ O * (O * O * O) = O * O * O * O
  <2>1. O \in Nat \ {0}
    BY RuleAssumption
  <2>2. O * O \in Nat \ {0}
    BY <2>1, Z3
  <2>3. O * O * O \in Nat \ {0} /\ O * (O * O) = O * O * O
    BY <2>1, <2>2, Z3
  <2>4. O * O * O * O \in Nat \ {0} /\ O * (O * O * O) = O * O * O * O
    BY <2>1, <2>3, Z3
  <2>. QED
    BY <2>1, <2>2, <2>3, <2>4
<1>. HIDE DEF O
<1>1. ASSUME NEW t \in Texts PROVE ParseIP(t) \in Address
  <2>1. t[1] \in 0 .. O - 1 /\ t[2] \in 0 .. O - 1
        /\ t[3] \in 0 .. O - 1 /\ t[4] \in 0 .. O - 1
    BY DEF Texts, O
  <2>2. t[3] + O * t[4] \in 0 .. O * O - 1
    BY <2>1, <1>0, Digit
  <2>3. t[2] + O * (t[3] + O * t[4]) \in 0 .. O * O * O - 1
    BY <2>1, <2>2, <1>0, Digit
  <2>4. t[1] + O * (t[2] + O * (t[3] + O * t[4])) \in 0 .. O * O * O * O - 1
    BY <2>1, <2>3, <1>0, Digit
  <2>. QED
    BY <2>4 DEF ParseIP, Address, O
<1>2. ASSUME NEW a \in Address
      PROVE  IpToString(a) \in Texts /\ ParseIP(IpToString(a)) = a
  <2>. DEFINE a1 == a \div O
              a2 == a1 \div O
              a3 == a2 \div O
  <2>0. a \in Nat /\ a \in 0 .. O * O * O * O - 1
    BY <1>0 DEF Address, O
  <2>1. a1 \in 0 .. O * O * O - 1 /\ a % O \in 0 .. O - 1
        /\ a = (a % O) + O * a1
    BY <2>0, <1>0, Shifted, DivMod
  <2>2. a2 \in 0 .. O * O - 1 /\ a1 % O \in 0 .. O - 1
        /\ a1 = (a1 % O) + O * a2 /\ a2 = a \div (O * O)
    <3>1. a1 \in Nat
      BY <2>1
    <3>. QED
      BY <3>1, <2>0, <2>1, <1>0, Shifted, DivMod, DividedTwice
  <2>3. a3 \in 0 .. O - 1 /\ a2 % O \in 0 .. O - 1
        /\ a2 = (a2 % O) + O * a3 /\ a3 = a \div (O * O * O)
    <3>1. a2 \in Nat
      BY <2>2
    <3>2. a3 = (a \div (O * O)) \div O
      BY <2>2
    <3>3. a3 = a \div (O * O * O)
      BY <3>2, <2>0, <1>0, DividedTwice
    <3>. QED
      BY <3>1, <3>3, <2>2, <1>0, Shifted, DivMod
  <2>. HIDE DEF a1, a2, a3
  <2>4. a3 % O = a3
    <3>1. a3 = a3 + O * 0
      BY <2>3, <1>0
    <3>. QED
      BY <3>1, <2>3, <1>0, Quotient
  <2>5. IpToString(a) = <<a % O, a1 % O, a2 % O, a3>>
    BY <2>2, <2>3, <2>4 DEF IpToString, O, a1
  <2>. HIDE DEF IpToString
  <2>6. IpToString(a) \in Texts
    BY <2>5, <2>1, <2>2, <2>3 DEF Texts, O
  <2>7. ParseIP(IpToString(a)) = (a % O) + O * ((a1 % O) + O * ((a2 % O) + O * a3))
    BY <2>5 DEF ParseIP, O
  <2>. QED
    BY <2>6, <2>7, <2>1, <2>2, <2>3
<1>. QED
  BY <1>1, <1>2

-----------------------------------------------------------------------------
(* Changes of the rules give rules again. *)

\* Adding a name puts it where names of its form belong.
LEMMA NameAdded ==
    ASSUME NEW r \in RuleSet, NEW name \in Names
    PROVE  BlockDomain(r, name) \in RuleSet
<1>1. CASE IsPattern(name)
  <2>1. name \in PatternName
    BY <1>1 DEF PatternName
  <2>2. Append(r.patterns, name) \in Seq(PatternName)
    BY <2>1, AppendProperties DEF RuleSet
  <2>3. BlockDomain(r, name) = [r EXCEPT !.patterns = Append(r.patterns, name)]
    BY <1>1 DEF BlockDomain, RuleSet
  <2>. QED
    BY <2>2, <2>3 DEF RuleSet
<1>2. CASE ~IsPattern(name)
  BY <1>2 DEF BlockDomain, RuleSet, ExactName
<1>. QED
  BY <1>1, <1>2

\* A set of numbers that is not empty has a least element.
LEMMA LeastNumber ==
    ASSUME NEW I \in SUBSET Nat, I # {}
    PROVE  \E x \in I : \A y \in I : x =< y
<1>. DEFINE below(n) == 0 .. n
            T == {below(x) : x \in I}
<1>1. T \subseteq FiniteSubsetsOf(Nat) /\ T # {}
  <2>1. ASSUME NEW x \in I PROVE below(x) \in FiniteSubsetsOf(Nat)
    <3>1. x \in Int /\ below(x) \subseteq Nat
      OBVIOUS
    <3>2. IsFiniteSet(below(x))
      BY <3>1, FS_Interval
    <3>. QED
      BY <3>1, <3>2 DEF FiniteSubsetsOf
  <2>. QED
    BY <2>1
<1>2. PICK t \in T : \A u \in T : ~ (<<u, t>> \in StrictSubsetOrdering(Nat))
  <2>. HIDE DEF T
  <2>. QED
    BY <1>1, FS_StrictSubsetOrderingWellFounded, WFMin
<1>3. PICK x \in I : t = below(x)
  OBVIOUS
<1>4. \A y \in I : x =< y
  <2>1. SUFFICES ASSUME NEW y \in I, y < x PROVE FALSE
    OBVIOUS
  <2>2. below(y) \subseteq below(x) /\ below(y) # below(x)
    BY <2>1
  <2>3. <<below(y), t>> \in StrictSubsetOrdering(Nat)
    BY <1>3, <2>2 DEF StrictSubsetOrdering
  <2>. QED
    BY <1>2, <2>3
<1>. QED
  BY <1>4

\* Removing a name from the patterns leaves a sequence of patterns.
LEMMA PatternRemoved ==
    ASSUME NEW s \in Seq(PatternName), NEW name
    PROVE  RemoveFirst(s, name) \in Seq(PatternName)
<1>1. CASE \E i \in 1 .. Len(s) : s[i] = name
  <2>. DEFINE k == SelectInSeq(s, LAMBDA v : v = name)
              I == {i \in 1 .. Len(s) : s[i] = name}
  <2>1. k \in 1 .. Len(s)
    <3>1. SelectInSeq(s, LAMBDA v : v = name) = IF I # {} THEN Min(I) ELSE 0
      BY DEF SelectInSeq
    <3>2. I # {}
      BY <1>1
    <3>3. Min(I) \in I
      <4>1. Min(I) = CHOOSE x \in I : \A y \in I : x =< y
        BY DEF Min
      <4>. HIDE DEF I
      <4>2. I \in SUBSET Nat
        BY DEF I
      <4>3. \E x \in I : \A y \in I : x =< y
        BY <3>2, <4>2, LeastNumber
      <4>. QED
        BY <4>1, <4>2, <4>3
    <3>. QED
      BY <3>1, <3>2, <3>3
  <2>2. RemoveFirst(s, name) = SubSeq(s, 1, k - 1) \o SubSeq(s, k + 1, Len(s))
    BY <1>1 DEF RemoveFirst, RemoveAt
  <2>. HIDE DEF k
  <2>3. /\ SubSeq(s, 1, k - 1) \in Seq(PatternName)
        /\ SubSeq(s, k + 1, Len(s)) \in Seq(PatternName)
    BY <2>1
  <2>. QED
    BY <2>2, <2>3
<1>2. CASE ~\E i \in 1 .. Len(s) : s[i] = name
  BY <1>2 DEF RemoveFirst
<1>. QED
  BY <1>1, <1>2

\* Every change of the API, and every section that is cleared, gives rules.
LEMMA ChangedRules ==
    ASSUME rules \in RuleSet
    PROVE  /\ Changed \subseteq RuleSet
           /\ \A section : Cleared(section) \in RuleSet
<1>1. ASSUME NEW a \in BlockedIPs
      PROVE  BlockIP(rules, a) \in RuleSet /\ UnblockIP(rules, a) \in RuleSet
  BY RuleAssumption DEF BlockIP, UnblockIP, RuleSet
<1>2. ASSUME NEW a \in BlockedApps
      PROVE  BlockApp(rules, a) \in RuleSet /\ UnblockApp(rules, a) \in RuleSet
  BY RuleAssumption DEF BlockApp, UnblockApp, RuleSet
<1>3. ASSUME NEW a \in BlockedPorts
      PROVE  BlockPort(rules, a) \in RuleSet /\ UnblockPort(rules, a) \in RuleSet
  BY RuleAssumption DEF BlockPort, UnblockPort, RuleSet
<1>4. ASSUME NEW name \in BlockedNames
      PROVE  /\ BlockDomain(rules, name) \in RuleSet
             /\ UnblockDomain(rules, name) \in RuleSet
  <2>1. name \in Names
    BY RuleAssumption DEF Names
  <2>2. RemoveFirst(rules.patterns, name) \in Seq(PatternName)
    BY PatternRemoved DEF RuleSet
  <2>3. UnblockDomain(rules, name) \in RuleSet
    BY <2>2 DEF UnblockDomain, RuleSet
  <2>. QED
    BY <2>1, <2>3, NameAdded
<1>5. Changed \subseteq RuleSet
  BY <1>1, <1>2, <1>3, <1>4 DEF Changed
<1>6. ASSUME NEW section PROVE Cleared(section) \in RuleSet
  <2>1. <<>> \in Seq(PatternName)
    OBVIOUS
  <2>. DEFINE ip == IF section = "ip" THEN {} ELSE rules.ip
              app == IF section = "app" THEN {} ELSE rules.app
              exact == IF section = "domain" THEN {} ELSE rules.exact
              patterns == IF section = "domain" THEN <<>> ELSE rules.patterns
              port == IF section = "port" THEN {} ELSE rules.port
  <2>2. /\ ip \in SUBSET Address /\ app \in SUBSET AppTypes
        /\ exact \in SUBSET ExactName /\ patterns \in Seq(PatternName)
        /\ port \in SUBSET Port
    BY <2>1 DEF RuleSet
  <2>3. Cleared(section) = [rules EXCEPT !.ip = ip, !.app = app,
                                !.exact = exact, !.patterns = patterns,
                                !.port = port]
    BY DEF Cleared, RuleSet
  <2>. HIDE DEF ip, app, exact, patterns, port
  <2>. QED
    BY <2>2, <2>3 DEF RuleSet
<1>. QED
  BY <1>5, <1>6

-----------------------------------------------------------------------------
(* The inductive invariant: types, what a file that was saved holds, what  *)
(* a load has still to do, and what a check knows so far.                  *)

\* What is left of the sections.
Left == {<<"ip", "app", "domain", "port">>, <<"app", "domain", "port">>,
         <<"domain", "port">>, <<"port">>}

\* What every variable is; it implies TypeOK.
Types ==
    /\ rules \in RuleSet
    /\ stage \in [Checkers -> Kinds \cup {"idle"}]
    /\ query \in [Checkers -> Queries]
    /\ verdict \in [Checkers -> Kinds \cup {"allow", "none"}]
    /\ task \in {"none", "save", "load", "clear"}
    /\ task \in {"save", "clear"} => todo \in Left
    /\ file \in RulesFile
    /\ pending \in RulesFile
    /\ changes \in 0 .. ChangeLimit
    /\ tasks \in 0 .. TaskLimit
    /\ always \in [Checkers -> SUBSET Kinds]
    /\ ever \in [Checkers -> SUBSET Kinds]
    /\ snap \subseteq RuleSet
    /\ pure \in BOOLEAN

\* A check that is over is justified.  One that is under way has not been
\* answered by the kinds it has passed, and what it knows of the rules is
\* between what matched all along and what matched at some moment.
CheckInv ==
    \A c \in Checkers :
        IF stage[c] = "idle"
        THEN /\ verdict[c] = "allow" => always[c] = {}
             /\ verdict[c] \in Kinds =>
                    /\ verdict[c] \in ever[c]
                    /\ always[c] \cap Earlier(verdict[c]) = {}
        ELSE /\ verdict[c] = "none"
             /\ always[c] \subseteq Hits(rules, query[c])
             /\ Hits(rules, query[c]) \subseteq ever[c]
             /\ always[c] \cap Earlier(stage[c]) = {}

\* A file that was saved from rules nobody changed holds those rules; while
\* it is saved, its first sections do.
Unwritten == IF task = "save" THEN Len(todo) ELSE 0
\* The exact names of r in some order, then the patterns.
Lists(names, r) ==
    \E s \in Seq(r.exact) : Range(s) = r.exact /\ names = s \o r.patterns
\* The file holds what was saved.
SavedInv ==
    \A r \in snap :
        /\ task = "save" => rules = r
        /\ Unwritten < 1 => file.port = r.port
        /\ Unwritten < 2 => Lists(file.names, r)
        /\ Unwritten < 3 => file.app = {AppName[a] : a \in r.app}
        /\ Unwritten < 4 => file.ip = {IpToString(a) : a \in r.ip}

\* What is left of the names of r: exact ones, then patterns.  If a name looked
\* like a header, the rest of the patterns is lost.
NamesLeft(r, exacts, patterns, lost) ==
    /\ pending.names = exacts \o patterns
    /\ Range(exacts) \subseteq r.exact
    /\ rules.exact \subseteq r.exact \ {<<>>}
    /\ rules.patterns \o (patterns \o lost) = r.patterns
    /\ Unbracketed(r) =>
           /\ lost = <<>>
           /\ rules.exact \cup (Range(exacts) \ {<<>>}) = r.exact \ {<<>>}

\* The names of r are either loaded, or left, or lost.
NamesLoaded(r) ==
    \E exacts \in Seq(ExactName), patterns, lost \in Seq(PatternName) :
        NamesLeft(r, exacts, patterns, lost)

\* A load that began without rules, of a file saved from r, has loaded the
\* part of r that is no longer pending.
Loading(r) ==
    /\ rules.ip \cup {ParseIP(t) : t \in pending.ip} = r.ip
    /\ rules.app \cup UNION {AppsNamed(n) : n \in pending.app} = r.app
    /\ NamesLoaded(r)
    /\ pending.port \subseteq Port
    /\ rules.port \cup pending.port = r.port
LoadInv == task = "load" /\ pure => \A r \in snap : Loading(r)

\* The exact names are finitely many, so that they can be listed.
FewNames == IsFiniteSet(rules.exact)

\* The inductive invariant.
IInv == Types /\ FewNames /\ CheckInv /\ SavedInv /\ LoadInv

\* No rules are rules, and a file without lines is a rules file.
LEMMA NothingFits == NoRules \in RuleSet /\ NoLines \in RulesFile
<1>1. <<>> \in Seq(PatternName) /\ <<>> \in Seq(Seq(Labels))
  OBVIOUS
<1>2. Sections \in [1 .. 4 -> Kinds] /\ IsInjective(Sections)
  BY DEF Sections, Kinds, IsInjective
<1>. QED
  BY <1>1, <1>2 DEF NoRules, NoLines, RuleSet, RulesFile

\* The types hold at the start.
LEMMA TypesInit == Init => Types
<1>1. NoRules \in RuleSet /\ NoLines \in RulesFile
  BY NothingFits
<1>2. 0 \in 0 .. ChangeLimit /\ 0 \in 0 .. TaskLimit
      /\ HandFiles \subseteq RulesFile
  BY RuleAssumption
<1>. QED
  BY <1>1, <1>2 DEF Init, Types

\* Rules that are followed in the checks keep the types.
LEMMA BecomeTypes ==
    ASSUME Types, NEW r \in RuleSet, Become(r)
    PROVE  /\ rules' \in RuleSet
           /\ always' \in [Checkers -> SUBSET Kinds]
           /\ ever' \in [Checkers -> SUBSET Kinds]
  BY DEF Become, Types, Hits

\* A listing of the exact names is a sequence with all of them.
LEMMA ListingOf ==
    ASSUME NEW S, IsFiniteSet(S), NEW s \in Listings(S)
    PROVE  s \in Seq(S) /\ Range(s) = S
<1>1. Cardinality(S) \in Nat
  BY FS_CardinalityType
<1>. QED
  BY <1>1 DEF Listings

\* Writing a section of rules into the file leaves a rules file.
LEMMA WrittenFile ==
    ASSUME Types, FewNames, NEW section, NEW s \in Listings(rules.exact)
    PROVE  Written(file, section, s) \in RulesFile
<1>. DEFINE ips == {IpToString(a) : a \in rules.ip}
            apps == {AppName[a] : a \in rules.app}
            ip == IF section = "ip" THEN ips ELSE file.ip
            app == IF section = "app" THEN apps ELSE file.app
            names == IF section = "domain" THEN s \o rules.patterns
                     ELSE file.names
            port == IF section = "port" THEN rules.port ELSE file.port
<1>1. ips \in SUBSET Texts
  BY AddressText DEF Types, RuleSet
<1>2. apps \in SUBSET STRING
  BY RuleAssumption DEF Types, RuleSet
<1>3. /\ s \o rules.patterns \in Seq(Seq(Labels))
      /\ rules.port \in SUBSET (Nat \cup {NoNumber})
  <2>1. rules.patterns \in Seq(PatternName)
    BY DEF Types, RuleSet
  <2>2. PatternName \subseteq Seq(Labels)
    BY DEF PatternName, Names
  <2>3. rules.patterns \in Seq(Seq(Labels))
    BY <2>1, <2>2
  <2>4. rules.port \subseteq Nat
    BY DEF Types, RuleSet, Port
  <2>5. rules.exact \subseteq Seq(Labels)
    BY DEF Types, RuleSet, ExactName, Names
  <2>6. s \in Seq(rules.exact)
    BY ListingOf DEF FewNames
  <2>7. s \in Seq(Seq(Labels))
    BY <2>5, <2>6
  <2>. QED
    BY <2>3, <2>4, <2>7
<1>4. file \in RulesFile
  BY DEF Types
<1>. HIDE DEF ips, apps
<1>5. /\ ip \in SUBSET Texts /\ app \in SUBSET STRING
      /\ names \in Seq(Seq(Labels))
      /\ port \in SUBSET (Nat \cup {NoNumber})
  BY <1>1, <1>2, <1>3, <1>4 DEF RulesFile, Texts
<1>6. Written(file, section, s) = [file EXCEPT !.ip = ip, !.app = app,
          !.names = names, !.port = port]
  BY <1>4 DEF Written, RulesFile, ips, apps
<1>. HIDE DEF ip, app, names, port
<1>. QED
  BY <1>4, <1>5, <1>6 DEF RulesFile, Texts

\* The sections that are left after one, while there are any.
LEMMA SectionsLeft ==
    /\ Sections \in Left
    /\ \A s \in Left : Tail(s) = <<>> \/ Tail(s) \in Left
    /\ \A s \in Left : Tail(s) = <<>> <=> s = <<"port">>
    /\ \A s \in Left : s # <<>>
<1>1. /\ Tail(<<"ip", "app", "domain", "port">>) = <<"app", "domain", "port">>
      /\ Tail(<<"app", "domain", "port">>) = <<"domain", "port">>
      /\ Tail(<<"domain", "port">>) = <<"port">>
      /\ Tail(<<"port">>) = <<>>
  OBVIOUS
<1>. QED
  BY <1>1 DEF Left, Sections

\* A line that is loaded gives rules, and leaves a file that is pending.
LEMMA LoadTypes ==
    ASSUME Types, LoadLine
    PROVE  /\ pending' \in RulesFile
           /\ \E r \in RuleSet : Become(r)
<1>1. ASSUME NEW t \in pending.ip,
             pending' = [pending EXCEPT !.ip = @ \ {t}],
             Become(BlockIP(rules, ParseIP(t)))
      PROVE  pending' \in RulesFile /\ \E r \in RuleSet : Become(r)
  <2>1. ParseIP(t) \in Address
    BY AddressText DEF Types, RulesFile, Texts
  <2>2. BlockIP(rules, ParseIP(t)) \in RuleSet
    BY <2>1 DEF Types, RuleSet, BlockIP
  <2>. QED
    BY <1>1, <2>2 DEF Types, RulesFile
<1>2. ASSUME NEW n \in pending.app,
             pending' = [pending EXCEPT !.app = @ \ {n}],
             Become([rules EXCEPT !.app = @ \cup AppsNamed(n)])
      PROVE  pending' \in RulesFile /\ \E r \in RuleSet : Become(r)
  <2>1. [rules EXCEPT !.app = @ \cup AppsNamed(n)] \in RuleSet
    BY DEF Types, RuleSet, AppsNamed
  <2>. QED
    BY <1>2, <2>1 DEF Types, RulesFile
<1>3. ASSUME LoadName
      PROVE  pending' \in RulesFile /\ \E r \in RuleSet : Become(r)
  <2>. DEFINE name == Head(pending.names)
              after == IF name = <<>> THEN rules ELSE BlockDomain(rules, name)
  <2>1. name \in Names /\ Tail(pending.names) \in Seq(Seq(Labels))
    BY <1>3 DEF LoadName, Types, RulesFile, Names
  <2>2. after \in RuleSet /\ rules \in RuleSet
    BY <2>1, NameAdded DEF Types
  <2>3. <<>> \in Seq(Seq(Labels))
    OBVIOUS
  <2>4. \/ pending' = [pending EXCEPT !.names = <<>>] /\ Become(rules)
        \/ pending' = [pending EXCEPT !.names = Tail(@)] /\ Become(after)
    BY <1>3 DEF LoadName
  <2>. HIDE DEF name, after
  <2>. QED
    BY <2>1, <2>2, <2>3, <2>4 DEF Types, RulesFile
<1>5. ASSUME NEW n \in pending.port \ {NoNumber},
             pending' = [pending EXCEPT !.port = @ \ {n}],
             Become(BlockPort(rules, PortOf(n)))
      PROVE  pending' \in RulesFile /\ \E r \in RuleSet : Become(r)
  <2>1. n \in Nat
    BY DEF Types, RulesFile
  <2>2. PortOf(n) \in Port
    BY <2>1, RuleAssumption, DivMod DEF PortOf, Port
  <2>3. BlockPort(rules, PortOf(n)) \in RuleSet
    BY <2>2 DEF Types, RuleSet, BlockPort
  <2>. QED
    BY <1>5, <2>3 DEF Types, RulesFile
<1>. QED
  BY <1>1, <1>2, <1>3, <1>5 DEF LoadLine, LoadIP, LoadApp, LoadPort

\* Every step keeps the types.
LEMMA TypesNext == Types /\ FewNames /\ [Next]_vars => Types'
<1>. SUFFICES ASSUME Types, FewNames, [Next]_vars PROVE Types'
  OBVIOUS
<1>. USE DEF checkVars, fileVars
<1>1. ASSUME NEW c \in Checkers, NEW q \in Queries, StartCheck(c, q)
      PROVE  Types'
  <2>1. "ip" \in Kinds /\ Hits(rules, q) \in SUBSET Kinds
    BY DEF Kinds, Hits
  <2>. QED
    BY <1>1, <2>1 DEF StartCheck, Types
<1>2. ASSUME NEW c \in Checkers, CheckKind(c) PROVE Types'
  <2>1. stage[c] \in Kinds /\ After(stage[c]) \in Kinds \cup {"idle"}
    BY <1>2 DEF CheckKind, Types, Kinds, After
  <2>2. stage' \in [Checkers -> Kinds \cup {"idle"}]
    BY <1>2, <2>1 DEF CheckKind, Types
  <2>3. verdict' \in [Checkers -> Kinds \cup {"allow", "none"}]
    BY <1>2, <2>1 DEF CheckKind, Types
  <2>. QED
    BY <1>2, <2>2, <2>3 DEF CheckKind, Types
<1>3. ASSUME ChangeRules PROVE Types'
  <2>1. PICK r \in Changed : Become(r)
    BY <1>3 DEF ChangeRules
  <2>2. r \in RuleSet
    BY ChangedRules DEF Types
  <2>3. changes' \in 0 .. ChangeLimit
    BY <1>3, RuleAssumption DEF ChangeRules, Types
  <2>4. snap' \subseteq RuleSet
    BY <1>3 DEF ChangeRules, Types
  <2>. QED
    BY <1>3, <2>1, <2>2, <2>3, <2>4, BecomeTypes DEF ChangeRules, Types
<1>4. ASSUME NEW what \in {"save", "load", "clear"}, Begin(what)
      PROVE  task' = what /\ tasks' \in 0 .. TaskLimit
  BY <1>4, RuleAssumption DEF Begin, Types
<1>5. ASSUME SaveOpen PROVE Types'
  <2>1. NoLines \in RulesFile
    BY NothingFits
  <2>2. task' = "save" /\ tasks' \in 0 .. TaskLimit
    BY <1>4, <1>5 DEF SaveOpen
  <2>. QED
    BY <1>5, <2>1, <2>2, SectionsLeft DEF SaveOpen, Types
<1>6. ASSUME NEW what \in {"save", "clear"}, Proceed(what)
      PROVE  /\ task' \in {what, "none"}
             /\ task' # "none" => todo' \in Left
  <2>1. todo \in Left /\ todo' = Tail(todo)
    BY <1>6 DEF Proceed, Types
  <2>. QED
    BY <1>6, <2>1, SectionsLeft DEF Proceed
<1>7. ASSUME SaveSection PROVE Types'
  <2>1. task' \in {"save", "none"} /\ (task' # "none" => todo' \in Left)
    BY <1>6, <1>7 DEF SaveSection
  <2>2. file' \in RulesFile
    BY <1>7, WrittenFile DEF SaveSection
  <2>. QED
    BY <1>7, <2>1, <2>2 DEF SaveSection, Proceed, Types
<1>8. ASSUME ClearStart PROVE Types'
  <2>1. task' = "clear" /\ tasks' \in 0 .. TaskLimit
    BY <1>4, <1>8 DEF ClearStart
  <2>. QED
    BY <1>8, <2>1, SectionsLeft DEF ClearStart, Types
<1>9. ASSUME ClearSection PROVE Types'
  <2>1. task' \in {"clear", "none"} /\ (task' # "none" => todo' \in Left)
    BY <1>6, <1>9 DEF ClearSection
  <2>2. Cleared(Head(todo)) \in RuleSet
    BY ChangedRules DEF Types
  <2>. QED
    BY <1>9, <2>1, <2>2, BecomeTypes DEF ClearSection, Proceed, Types
<1>10. ASSUME LoadStart PROVE Types'
  <2>1. task' = "load" /\ tasks' \in 0 .. TaskLimit
    BY <1>4, <1>10 DEF LoadStart
  <2>. QED
    BY <1>10, <2>1 DEF LoadStart, Types
<1>11. ASSUME LoadLine PROVE Types'
  <2>1. pending' \in RulesFile /\ \E r \in RuleSet : Become(r)
    BY <1>11, LoadTypes
  <2>2. UNCHANGED <<checkVars, task, tasks, todo, file, snap, changes, pure>>
    BY <1>11 DEF LoadLine
  <2>. QED
    BY <2>1, <2>2, BecomeTypes DEF Types
<1>12. CASE LoadEnd
  BY <1>12 DEF LoadEnd, Types
<1>13. ASSUME Fresh, snap' \subseteq snap PROVE Types'
  <2>1. NoLines \in RulesFile /\ NoRules \in RuleSet
    BY NothingFits
  <2>. QED
    BY <1>13, <2>1 DEF Fresh, Types
<1>14. CASE LoadThrows
  BY <1>13, <1>14 DEF LoadThrows
<1>15. CASE Restart
  BY <1>13, <1>15 DEF Restart
<1>16. CASE UNCHANGED vars
  BY <1>16 DEF vars, Types
<1>. QED
  BY <1>1, <1>2, <1>3, <1>5, <1>7, <1>8, <1>9, <1>10, <1>11, <1>12, <1>14,
     <1>15, <1>16 DEF Next, AdminStep

\* A change of the rules adds at most one exact name.
LEMMA FewChanged ==
    ASSUME Types, FewNames, NEW r, NEW n, r.exact \subseteq rules.exact \cup {n}
    PROVE  IsFiniteSet(r.exact)
<1>1. IsFiniteSet(rules.exact \cup {n})
  BY FS_AddElement DEF FewNames
<1>. QED
  BY <1>1, FS_Subset

\* Every step keeps the exact names finitely many.
LEMMA FewNext == Types /\ FewNames /\ [Next]_vars => FewNames'
<1>. SUFFICES ASSUME Types, FewNames, [Next]_vars PROVE FewNames'
  OBVIOUS
<1>1. ASSUME NEW r, NEW n, r.exact \subseteq rules.exact \cup {n}, rules' = r
      PROVE  FewNames'
  BY <1>1, FewChanged DEF FewNames
<1>2. ASSUME NEW n
      PROVE  /\ BlockDomain(rules, n).exact \subseteq rules.exact \cup {n}
             /\ UnblockDomain(rules, n).exact \subseteq rules.exact
             /\ BlockIP(rules, n).exact = rules.exact
             /\ UnblockIP(rules, n).exact = rules.exact
             /\ BlockApp(rules, n).exact = rules.exact
             /\ UnblockApp(rules, n).exact = rules.exact
             /\ BlockPort(rules, n).exact = rules.exact
             /\ UnblockPort(rules, n).exact = rules.exact
             /\ Cleared(n).exact \subseteq rules.exact
             /\ [rules EXCEPT !.app = @ \cup AppsNamed(n)].exact = rules.exact
  BY DEF BlockDomain, UnblockDomain, BlockIP, UnblockIP, BlockApp, UnblockApp,
         BlockPort, UnblockPort, Cleared, Types, RuleSet
<1>3. CASE ChangeRules
  <2>1. PICK r \in Changed : rules' = r
    BY <1>3 DEF ChangeRules, Become
  <2>2. \E n : r.exact \subseteq rules.exact \cup {n}
    BY <1>2, <2>1 DEF Changed
  <2>. QED
    BY <1>1, <2>1, <2>2
<1>4. CASE ClearSection
  <2>1. rules' = Cleared(Head(todo))
    BY <1>4 DEF ClearSection, Become
  <2>2. Cleared(Head(todo)).exact \subseteq rules.exact
    BY <1>2
  <2>. QED
    BY <1>1, <2>1, <2>2
<1>5. CASE LoadLine
  <2>1. CASE rules' = rules
    BY <1>1, <2>1
  <2>2. ASSUME NEW t, rules' = BlockIP(rules, t) PROVE FewNames'
    BY <1>1, <1>2, <2>2
  <2>3. ASSUME NEW t, rules' = [rules EXCEPT !.app = @ \cup AppsNamed(t)]
        PROVE  FewNames'
    <3>1. rules'.exact = rules.exact
      BY <2>3 DEF Types, RuleSet
    <3>. QED
      BY <1>1, <3>1
  <2>4. ASSUME NEW t, rules' = BlockDomain(rules, t) PROVE FewNames'
    BY <1>1, <1>2, <2>4
  <2>5. ASSUME NEW t, rules' = BlockPort(rules, t) PROVE FewNames'
    BY <1>1, <1>2, <2>5
  <2>6. CASE LoadIP
    BY <2>2, <2>6 DEF LoadIP, Become
  <2>7. CASE LoadApp
    BY <2>3, <2>7 DEF LoadApp, Become
  <2>8. CASE LoadName
    BY <2>1, <2>4, <2>8 DEF LoadName, Become
  <2>9. CASE LoadPort
    BY <2>5, <2>9 DEF LoadPort, Become
  <2>. QED
    BY <1>5, <2>6, <2>7, <2>8, <2>9 DEF LoadLine
<1>6. CASE Fresh
  BY <1>6, FS_EmptySet DEF Fresh, FewNames, NoRules
<1>7. CASE UNCHANGED rules
  BY <1>7 DEF FewNames
<1>8. ASSUME NEW c \in Checkers,
             \/ \E q \in Queries : StartCheck(c, q)
             \/ CheckKind(c)
      PROVE  FewNames'
  BY <1>7, <1>8 DEF StartCheck, CheckKind
<1>9. CASE \/ SaveOpen \/ SaveSection \/ ClearStart \/ LoadStart \/ LoadEnd
           \/ UNCHANGED vars
  BY <1>7, <1>9
  DEF SaveOpen, SaveSection, ClearStart, LoadStart, LoadEnd, vars
<1>. QED
  BY <1>3, <1>4, <1>5, <1>6, <1>8, <1>9
  DEF Next, AdminStep, LoadThrows, Restart

-----------------------------------------------------------------------------
(* The answers of shouldBlock. *)

\* Whatever the rules become, a check that is under way still knows what
\* matched all along and what matched at some moment.
LEMMA BecomeChecks ==
    ASSUME Types, CheckInv, NEW r, Become(r), UNCHANGED checkVars
    PROVE  CheckInv'
<1>. SUFFICES ASSUME NEW c \in Checkers PROVE CheckInv!(c)'
  BY DEF CheckInv
<1>1. rules' = r /\ stage' = stage /\ query' = query /\ verdict' = verdict
  BY DEF Become, checkVars
<1>2. CASE stage[c] = "idle"
  BY <1>1, <1>2 DEF CheckInv, Become
<1>3. CASE stage[c] # "idle"
  <2>1. /\ always'[c] = always[c] \cap Hits(r, query[c])
        /\ ever'[c] = ever[c] \cup Hits(r, query[c])
    BY <1>3 DEF Become
  <2>. QED
    BY <1>1, <1>3, <2>1 DEF CheckInv
<1>. QED
  BY <1>2, <1>3

\* Asking one kind more keeps what is known: a kind that does not match now
\* has not matched all along, and the last one leaves none.
LEMMA CheckKindChecks ==
    ASSUME Types, CheckInv, NEW d \in Checkers, CheckKind(d)
    PROVE  CheckInv'
<1>. SUFFICES ASSUME NEW c \in Checkers PROVE CheckInv!(c)'
  BY DEF CheckInv
<1>1. /\ rules' = rules /\ query' = query
      /\ always' = always /\ ever' = ever
  BY DEF CheckKind
<1>2. CASE c # d
  BY <1>1, <1>2 DEF CheckKind, CheckInv, Types
<1>3. CASE c = d
  <2>. DEFINE kind == stage[c]
  <2>1. /\ kind \in Kinds
        /\ verdict[c] = "none"
        /\ always[c] \subseteq Hits(rules, query[c])
        /\ Hits(rules, query[c]) \subseteq ever[c]
        /\ always[c] \cap Earlier(kind) = {}
        /\ always[c] \subseteq Kinds
    BY <1>3 DEF CheckKind, Types, CheckInv, Kinds
  <2>2. CASE Matches(rules, kind, query[c])
    <3>1. stage'[c] = "idle" /\ verdict'[c] = kind
      BY <1>3, <2>2 DEF CheckKind, Types
    <3>2. kind \in ever[c]
      BY <2>1, <2>2 DEF Hits
    <3>. QED
      BY <1>1, <2>1, <3>1, <3>2 DEF Kinds
  <2>3. CASE ~Matches(rules, kind, query[c])
    <3>1. kind \notin always[c]
      BY <2>1, <2>3 DEF Hits
    <3>2. /\ stage'[c] = After(kind)
          /\ verdict'[c] = IF After(kind) = "idle" THEN "allow" ELSE verdict[c]
      BY <1>3, <2>3 DEF CheckKind, Types
    <3>3. CASE kind = "domain"
      <4>1. stage'[c] = "idle" /\ verdict'[c] = "allow"
        BY <3>2, <3>3 DEF After
      <4>2. always[c] = {}
        BY <2>1, <3>1, <3>3 DEF Earlier, Kinds
      <4>. QED
        BY <1>1, <4>1, <4>2 DEF Kinds
    <3>4. CASE kind # "domain"
      <4>1. /\ After(kind) # "idle"
            /\ Earlier(After(kind)) = Earlier(kind) \cup {kind}
        BY <2>1, <3>4 DEF After, Earlier, Kinds
      <4>2. always[c] \cap Earlier(stage'[c]) = {}
        BY <2>1, <3>1, <3>2, <4>1
      <4>. QED
        BY <1>1, <2>1, <3>2, <4>1, <4>2
    <3>. QED
      BY <3>3, <3>4
  <2>. QED
    BY <2>2, <2>3
<1>. QED
  BY <1>2, <1>3

\* Every step keeps what the checks know.
LEMMA ChecksNext == Types /\ CheckInv /\ [Next]_vars => CheckInv'
<1>. SUFFICES ASSUME Types, CheckInv, [Next]_vars PROVE CheckInv'
  OBVIOUS
<1>1. ASSUME NEW d \in Checkers, NEW q \in Queries, StartCheck(d, q)
      PROVE  CheckInv'
  <2>. SUFFICES ASSUME NEW c \in Checkers PROVE CheckInv!(c)'
    BY DEF CheckInv
  <2>1. CASE c # d
    BY <1>1, <2>1 DEF StartCheck, CheckInv, Types
  <2>2. CASE c = d
    <3>1. /\ stage'[c] = "ip" /\ query'[c] = q /\ verdict'[c] = "none"
          /\ always'[c] = Hits(rules, q) /\ ever'[c] = Hits(rules, q)
          /\ rules' = rules
      BY <1>1, <2>2 DEF StartCheck, Types
    <3>2. Earlier("ip") = {}
      BY DEF Earlier, Kinds
    <3>. QED
      BY <3>1, <3>2
  <2>. QED
    BY <2>1, <2>2
<1>2. ASSUME NEW c \in Checkers, CheckKind(c) PROVE CheckInv'
  BY <1>2, CheckKindChecks
<1>3. CASE ChangeRules
  BY <1>3, BecomeChecks DEF ChangeRules
<1>4. CASE ClearSection
  BY <1>4, BecomeChecks DEF ClearSection, Proceed
<1>5. CASE LoadLine
  <2>1. UNCHANGED checkVars
    BY <1>5 DEF LoadLine
  <2>2. \E r \in RuleSet : Become(r)
    BY <1>5, LoadTypes
  <2>. QED
    BY <2>1, <2>2, BecomeChecks
<1>6. CASE UNCHANGED <<rules, checkVars, always, ever>>
  BY <1>6 DEF checkVars, CheckInv
<1>7. CASE SaveOpen \/ ClearStart \/ LoadStart \/ LoadEnd
  BY <1>6, <1>7 DEF SaveOpen, ClearStart, LoadStart, LoadEnd
<1>8. CASE SaveSection
  BY <1>6, <1>8 DEF SaveSection, Proceed
<1>9. CASE Fresh
  <2>. SUFFICES ASSUME NEW c \in Checkers PROVE CheckInv!(c)'
    BY DEF CheckInv
  <2>1. stage'[c] = "idle" /\ verdict'[c] = "none"
    BY <1>9 DEF Fresh
  <2>. QED
    BY <2>1 DEF Kinds
<1>10. CASE UNCHANGED vars
  BY <1>6, <1>10 DEF vars
<1>. QED
  BY <1>1, <1>2, <1>3, <1>4, <1>5, <1>7, <1>8, <1>9, <1>10
  DEF Next, AdminStep, LoadThrows, Restart

-----------------------------------------------------------------------------
(* Saving and loading. *)

\* A section that is saved while the rules stay as they were.
LEMMA SectionSaved ==
    ASSUME Types, FewNames, SavedInv, SaveSection
    PROVE  SavedInv'
<1>. SUFFICES ASSUME NEW r \in snap PROVE SavedInv!(r)'
  BY DEF SavedInv, SaveSection
<1>1. /\ task = "save" /\ todo \in Left /\ todo' = Tail(todo)
      /\ task' = IF Tail(todo) = <<>> THEN "none" ELSE "save"
      /\ rules' = rules
  BY DEF SaveSection, Proceed, Types
<1>0. PICK s \in Listings(rules.exact) : file' = Written(file, Head(todo), s)
  BY DEF SaveSection
<1>2. rules = r /\ r \in RuleSet /\ file \in RulesFile
  BY <1>1 DEF SavedInv, Types
<1>3. CASE todo = <<"ip", "app", "domain", "port">>
  <2>1. Head(todo) = "ip" /\ Unwritten' = 3 /\ task' = "save"
    BY <1>1, <1>3 DEF Unwritten
  <2>2. file'.ip = {IpToString(a) : a \in r.ip}
    BY <1>0, <1>1, <1>2, <2>1 DEF Written, RulesFile
  <2>. QED
    BY <1>1, <1>2, <2>1, <2>2
<1>4. CASE todo = <<"app", "domain", "port">>
  <2>1. Head(todo) = "app" /\ Unwritten' = 2 /\ task' = "save"
    BY <1>1, <1>4 DEF Unwritten
  <2>2. file'.ip = file.ip /\ file'.app = {AppName[a] : a \in r.app}
    BY <1>0, <1>1, <1>2, <2>1 DEF Written, RulesFile
  <2>3. file.ip = {IpToString(a) : a \in r.ip}
    BY <1>1, <1>4 DEF SavedInv, Unwritten
  <2>. QED
    BY <1>1, <1>2, <2>1, <2>2, <2>3
<1>5. CASE todo = <<"domain", "port">>
  <2>1. Head(todo) = "domain" /\ Unwritten' = 1 /\ task' = "save"
    BY <1>1, <1>5 DEF Unwritten
  <2>2. /\ file'.ip = file.ip /\ file'.app = file.app
        /\ file'.names = s \o r.patterns
    BY <1>0, <1>1, <1>2, <2>1 DEF Written, RulesFile
  <2>3. /\ file.ip = {IpToString(a) : a \in r.ip}
        /\ file.app = {AppName[a] : a \in r.app}
    BY <1>1, <1>5 DEF SavedInv, Unwritten
  <2>4. Lists(file'.names, r)
    <3>1. s \in Seq(r.exact) /\ Range(s) = r.exact
      BY <1>0, <1>2, ListingOf DEF FewNames
    <3>. QED
      BY <2>2, <3>1 DEF Lists
  <2>. QED
    BY <1>1, <1>2, <2>1, <2>2, <2>3, <2>4
<1>6. CASE todo = <<"port">>
  <2>1. Head(todo) = "port" /\ Unwritten' = 0 /\ task' = "none"
    BY <1>1, <1>6 DEF Unwritten
  <2>2. /\ file'.ip = file.ip /\ file'.app = file.app
        /\ file'.names = file.names
        /\ file'.port = r.port
    BY <1>0, <1>1, <1>2, <2>1 DEF Written, RulesFile
  <2>3. /\ file.ip = {IpToString(a) : a \in r.ip}
        /\ file.app = {AppName[a] : a \in r.app}
        /\ Lists(file.names, r)
    BY <1>1, <1>6 DEF SavedInv, Unwritten
  <2>. QED
    BY <2>1, <2>2, <2>3
<1>. QED
  BY <1>1, <1>3, <1>4, <1>5, <1>6 DEF Left

\* Every step keeps what is known of a file that was saved.
LEMMA SavedNext == Types /\ FewNames /\ SavedInv /\ [Next]_vars => SavedInv'
<1>. SUFFICES ASSUME Types, FewNames, SavedInv, [Next]_vars PROVE SavedInv'
  OBVIOUS
<1>1. ASSUME NEW what, what # "save", task \in {what, "none"},
             task' \in {what, "none"}, file' = file, snap' = snap
      PROVE  SavedInv'
  BY <1>1 DEF SavedInv, Unwritten
<1>2. CASE SaveOpen
  <2>1. /\ task' = "save" /\ todo' = Sections /\ snap' = {rules}
        /\ rules' = rules
    BY <1>2 DEF SaveOpen, Begin
  <2>2. Len(Sections) = 4
    BY DEF Sections
  <2>. QED
    BY <2>1, <2>2 DEF SavedInv, Unwritten
<1>3. CASE SaveSection
  BY <1>3, SectionSaved
<1>4. CASE ChangeRules
  <2>1. CASE task = "save"
    BY <1>4, <2>1 DEF ChangeRules, SavedInv, Unwritten
  <2>2. CASE task # "save"
    BY <1>4, <2>2 DEF ChangeRules, SavedInv, Unwritten
  <2>. QED
    BY <2>1, <2>2
<1>5. CASE ClearStart
  BY <1>1, <1>5 DEF ClearStart, Begin
<1>6. CASE ClearSection
  BY <1>1, <1>6 DEF ClearSection, Proceed
<1>7. CASE LoadStart
  BY <1>1, <1>7 DEF LoadStart, Begin
<1>8. CASE LoadLine
  BY <1>1, <1>8 DEF LoadLine
<1>9. CASE LoadEnd
  BY <1>1, <1>9 DEF LoadEnd
<1>10. CASE LoadThrows
  BY <1>1, <1>10 DEF LoadThrows, Fresh
<1>11. CASE Restart
  <2>1. CASE task = "save"
    BY <1>11, <2>1 DEF Restart, SavedInv, Unwritten
  <2>2. CASE task # "save"
    BY <1>11, <2>2 DEF Restart, Fresh, SavedInv, Unwritten
  <2>. QED
    BY <2>1, <2>2
<1>12. CASE UNCHANGED <<rules, task, todo, file, snap>>
  BY <1>12 DEF SavedInv, Unwritten
<1>13. ASSUME NEW c \in Checkers,
              \/ \E q \in Queries : StartCheck(c, q)
              \/ CheckKind(c)
       PROVE  SavedInv'
  BY <1>12, <1>13 DEF StartCheck, CheckKind, fileVars
<1>14. CASE UNCHANGED vars
  BY <1>12, <1>14 DEF vars, fileVars
<1>. QED
  BY <1>2, <1>3, <1>4, <1>5, <1>6, <1>7, <1>8, <1>9, <1>10, <1>11, <1>13,
     <1>14 DEF Next, AdminStep

\* A load that begins without rules, of a file that was saved, has all of
\* those rules pending.
LEMMA LoadBegins ==
    ASSUME Types, SavedInv, LoadStart
    PROVE  LoadInv'
<1>. SUFFICES ASSUME pure', NEW r \in snap PROVE Loading(r)'
  BY DEF LoadInv, LoadStart
<1>1. /\ task = "none" /\ rules = NoRules /\ rules' = NoRules
      /\ pending' = file /\ Unwritten = 0
  BY DEF LoadStart, Begin, Unwritten
<1>2. /\ file.ip = {IpToString(a) : a \in r.ip}
      /\ file.app = {AppName[a] : a \in r.app}
      /\ file.port = r.port /\ Lists(file.names, r)
  BY <1>1 DEF SavedInv
<1>8. PICK s \in Seq(r.exact) : Range(s) = r.exact /\ file.names = s \o r.patterns
  BY <1>2 DEF Lists
<1>3. r \in RuleSet
  BY DEF Types
<1>4. {ParseIP(t) : t \in file.ip} = r.ip
  <2>1. \A a \in r.ip : ParseIP(IpToString(a)) = a
    BY <1>3, AddressText DEF RuleSet
  <2>. QED
    BY <1>2, <2>1
<1>5. UNION {AppsNamed(n) : n \in file.app} = r.app
  <2>1. \A a \in r.app : AppsNamed(AppName[a]) = {a}
    <3>1. SUFFICES ASSUME NEW a \in AppTypes
                   PROVE  AppsNamed(AppName[a]) = {a}
      BY <1>3 DEF RuleSet
    <3>2. \A b \in AppTypes : AppName[b] = AppName[a] => b = a
      BY RuleAssumption
    <3>3. a =< a
      BY RuleAssumption DEF AppTypes
    <3>. QED
      BY <3>2, <3>3 DEF AppsNamed
  <2>2. file.app = {AppName[a] : a \in r.app}
    BY <1>2
  <2>3. UNION {AppsNamed(n) : n \in file.app} \subseteq r.app
    <3>1. SUFFICES ASSUME NEW n \in file.app PROVE AppsNamed(n) \subseteq r.app
      OBVIOUS
    <3>2. PICK a \in r.app : n = AppName[a]
      BY <2>2
    <3>. QED
      BY <2>1, <3>2
  <2>4. ASSUME NEW a \in r.app PROVE a \in UNION {AppsNamed(n) : n \in file.app}
    <3>1. AppName[a] \in file.app /\ a \in AppsNamed(AppName[a])
      BY <2>1, <2>2
    <3>. QED
      BY <3>1
  <2>. QED
    BY <2>3, <2>4
<1>6. /\ NoRules.ip = {} /\ NoRules.app = {} /\ NoRules.exact = {}
      /\ NoRules.patterns = <<>> /\ NoRules.port = {}
  BY DEF NoRules
<1>7. NamesLoaded(r)'
  <2>1. <<>> \o (r.patterns \o <<>>) = r.patterns
        /\ r.patterns \in Seq(PatternName) /\ <<>> \in Seq(PatternName)
    BY <1>3 DEF RuleSet
  <2>2. s \in Seq(ExactName)
    BY <1>3 DEF RuleSet
  <2>3. NamesLeft(r, s, r.patterns, <<>>)'
    BY <1>1, <1>6, <1>8, <2>1 DEF NamesLeft
  <2>. QED
    BY <2>1, <2>2, <2>3 DEF NamesLoaded
<1>9. r.ip \in SUBSET Address /\ r.app \in SUBSET AppTypes /\ r.port \in SUBSET Port
  BY <1>3 DEF RuleSet
<1>. HIDE DEF NoRules
<1>. QED
  BY <1>1, <1>2, <1>4, <1>5, <1>6, <1>7, <1>9 DEF Loading

\* A name that is read is loaded; or it is lost, and the rest with it.
LEMMA NameLoaded ==
    ASSUME Types, NEW r \in RuleSet, NamesLoaded(r), LoadName
    PROVE  NamesLoaded(r)'
<1>. DEFINE name == Head(pending.names)
            q == rules.patterns
<1>0. /\ rules \in RuleSet /\ pending \in RulesFile /\ pending.names # <<>>
      /\ q \in Seq(PatternName) /\ r.patterns \in Seq(PatternName)
      /\ r.exact \subseteq ExactName
  BY DEF Types, LoadName, RuleSet
<1>1. PICK es \in Seq(ExactName), ps \in Seq(PatternName), lost \in Seq(PatternName) :
          NamesLeft(r, es, ps, lost)
  BY DEF NamesLoaded
<1>2. /\ pending.names = es \o ps
      /\ Range(es) \subseteq r.exact
      /\ rules.exact \subseteq r.exact \ {<<>>}
      /\ q \o (ps \o lost) = r.patterns
      /\ Unbracketed(r) =>
             /\ lost = <<>>
             /\ rules.exact \cup (Range(es) \ {<<>>}) = r.exact \ {<<>>}
  BY <1>1 DEF NamesLeft
<1>3. CASE LooksLikeHeader(name)
  <2>1. /\ pending' = [pending EXCEPT !.names = <<>>]
        /\ rules' = rules
    BY <1>3 DEF LoadName, Become
  <2>2. pending'.names = <<>>
    BY <1>0, <2>1 DEF RulesFile
  <2>3. ps \o lost \in Seq(PatternName) /\ <<>> \in Seq(ExactName)
        /\ <<>> \in Seq(PatternName) /\ <<>> \o (ps \o lost) = ps \o lost
    OBVIOUS
  <2>4. ~Unbracketed(r)
    <3>1. CASE es # <<>>
      <4>1. name = es[1] /\ es[1] \in Range(es)
        BY <1>2, <3>1 DEF Range
      <4>. QED
        BY <1>2, <1>3, <4>1 DEF Unbracketed
    <3>2. CASE es = <<>>
      <4>1. ps # <<>> /\ name = ps[1]
        BY <1>0, <1>2, <3>2
      <4>2. /\ Len(q) \in Nat /\ Len(ps) \in Nat \ {0} /\ Len(lost) \in Nat
            /\ Len(q) + 1 \in DOMAIN (q \o (ps \o lost))
            /\ (q \o (ps \o lost))[Len(q) + 1] = ps[1]
        <5>. DEFINE t == ps \o lost
        <5>1. /\ t \in Seq(PatternName) /\ Len(t) \in Nat \ {0}
              /\ t[1] = ps[1] /\ Len(ps) \in Nat \ {0} /\ Len(lost) \in Nat
          BY <4>1
        <5>. HIDE DEF t, q
        <5>2. /\ Len(q) \in Nat /\ Len(q) + 1 \in DOMAIN (q \o t)
              /\ (q \o t)[Len(q) + 1] = t[1]
          BY <1>0, <5>1
        <5>. QED
          BY <5>1, <5>2 DEF t
      <4>. QED
        BY <1>2, <1>3, <4>1, <4>2 DEF Unbracketed
    <3>. QED
      BY <3>1, <3>2
  <2>5. NamesLeft(r, <<>>, <<>>, ps \o lost)'
    <3>1. Range(<<>>) = {} /\ <<>> \o <<>> = <<>>
      BY DEF Range
    <3>. QED
      BY <1>2, <2>1, <2>2, <2>3, <2>4, <3>1 DEF NamesLeft
  <2>. QED
    BY <2>3, <2>5 DEF NamesLoaded
<1>4. CASE ~LooksLikeHeader(name) /\ es # <<>>
  <2>1. /\ Head(es) \in ExactName /\ Tail(es) \in Seq(ExactName)
        /\ name = Head(es) /\ Tail(es \o ps) = Tail(es) \o ps
        /\ Range(es) = {Head(es)} \cup Range(Tail(es))
    <3>1. Head(es) \in ExactName /\ Tail(es) \in Seq(ExactName) /\ name = Head(es)
      BY <1>2, <1>4
    <3>2. es = <<Head(es)>> \o Tail(es)
      BY <1>4
    <3>3. Tail(es \o ps) = Tail(es) \o ps
      <4>1. es \o ps = <<Head(es)>> \o (Tail(es) \o ps)
        BY <3>1, <3>2, ConcatAssociative
      <4>. HIDE DEF name
      <4>2. Tail(<<Head(es)>> \o (Tail(es) \o ps)) = Tail(es) \o ps
        <5>. DEFINE u == Tail(es) \o ps
                    S == ExactName \cup PatternName
        <5>1. u \in Seq(S) /\ Head(es) \in S
          BY <3>1
        <5>. HIDE DEF u
        <5>2. Tail(<<Head(es)>> \o u) = u
          BY <5>1
        <5>. QED
          BY <5>2 DEF u
      <4>. QED
        BY <4>1, <4>2
    <3>4. Range(es) = {Head(es)} \cup Range(Tail(es))
      <4>1. \A i \in 1 .. Len(es) : i = 1 \/ i - 1 \in 1 .. Len(Tail(es))
        BY <1>4
      <4>2. \A i \in 1 .. Len(Tail(es)) : i + 1 \in 1 .. Len(es) /\ Tail(es)[i] = es[i + 1]
        BY <1>4
      <4>3. 1 \in 1 .. Len(es) /\ Head(es) = es[1]
        BY <1>4
      <4>4. \A i \in 1 .. Len(es) : i # 1 => es[i] = Tail(es)[i - 1]
        BY <1>4
      <4>5. Range(es) = {es[i] : i \in 1 .. Len(es)}
        BY DEF Range
      <4>6. Range(Tail(es)) = {Tail(es)[i] : i \in 1 .. Len(Tail(es))}
        <5>. DEFINE w == Tail(es)
        <5>1. w \in Seq(ExactName)
          BY <3>1
        <5>. HIDE DEF w
        <5>2. DOMAIN w = 1 .. Len(w)
          BY <5>1
        <5>. QED
          BY <5>2 DEF w, Range
      <4>7. Range(es) \subseteq {Head(es)} \cup Range(Tail(es))
        BY <4>1, <4>3, <4>4, <4>5, <4>6
      <4>8. {Head(es)} \cup Range(Tail(es)) \subseteq Range(es)
        BY <4>2, <4>3, <4>5, <4>6
      <4>. QED
        BY <4>7, <4>8
    <3>. QED
      BY <3>1, <3>3, <3>4
  <2>. HIDE DEF name
  <2>2. BlockDomain(rules, name) = [rules EXCEPT !.exact = @ \cup {name}]
    BY <2>1 DEF ExactName, BlockDomain
  <2>3. /\ pending' = [pending EXCEPT !.names = Tail(@)]
        /\ rules' = IF name = <<>> THEN rules ELSE BlockDomain(rules, name)
    BY <1>4 DEF LoadName, Become, name
  <2>4. /\ pending'.names = Tail(es) \o ps
        /\ rules'.patterns = q
        /\ rules'.exact = rules.exact \cup ({name} \ {<<>>})
    BY <1>0, <1>2, <2>1, <2>2, <2>3 DEF RuleSet, RulesFile
  <2>5. NamesLeft(r, Tail(es), ps, lost)'
    BY <1>2, <2>1, <2>4 DEF NamesLeft
  <2>. QED
    BY <2>1, <2>5 DEF NamesLoaded
<1>5. CASE ~LooksLikeHeader(name) /\ es = <<>>
  <2>1. pending.names = ps /\ ps # <<>>
    BY <1>0, <1>2, <1>5
  <2>2. Head(ps) \in PatternName /\ Tail(ps) \in Seq(PatternName)
    BY <2>1
  <2>3. name # <<>>
    BY <2>1, <2>2 DEF PatternName, IsPattern
  <2>4. BlockDomain(rules, name) = [rules EXCEPT !.patterns = Append(q, Head(ps))]
    BY <1>0, <2>1, <2>2 DEF PatternName, BlockDomain, RuleSet
  <2>5. /\ pending' = [pending EXCEPT !.names = Tail(@)]
        /\ rules' = BlockDomain(rules, name)
    BY <1>5, <2>3 DEF LoadName, Become
  <2>6. /\ pending'.names = Tail(ps)
        /\ rules'.patterns = Append(q, Head(ps)) /\ rules'.exact = rules.exact
    BY <1>0, <2>1, <2>4, <2>5 DEF RuleSet, RulesFile
  <2>7. Append(q, Head(ps)) \o (Tail(ps) \o lost) = q \o (ps \o lost)
    <3>. HIDE DEF q
    <3>1. <<Head(ps)>> \in Seq(PatternName) /\ <<Head(ps)>> \o Tail(ps) = ps
      BY <2>1, <2>2
    <3>2. Append(q, Head(ps)) = q \o <<Head(ps)>>
      BY <1>0, <2>2, AppendIsConcat
    <3>3. Tail(ps) \o lost \in Seq(PatternName)
      BY <2>2
    <3>4. (q \o <<Head(ps)>>) \o (Tail(ps) \o lost)
              = q \o (<<Head(ps)>> \o (Tail(ps) \o lost))
      BY <1>0, <3>1, <3>3, ConcatAssociative
    <3>5. <<Head(ps)>> \o (Tail(ps) \o lost) = (<<Head(ps)>> \o Tail(ps)) \o lost
      BY <2>2, <3>1, ConcatAssociative
    <3>. QED
      BY <3>1, <3>2, <3>4, <3>5
  <2>8. <<>> \o Tail(ps) = Tail(ps)
    BY <2>2
  <2>9. NamesLeft(r, <<>>, Tail(ps), lost)'
    BY <1>2, <1>5, <2>6, <2>7, <2>8 DEF NamesLeft
  <2>. QED
    BY <2>2, <2>9, <1>5 DEF NamesLoaded
<1>. QED
  BY <1>3, <1>4, <1>5

\* Each line that is loaded moves from what is pending to the rules.
LEMMA LineLoaded ==
    ASSUME Types, LoadInv, LoadLine
    PROVE  LoadInv'
<1>. SUFFICES ASSUME pure, NEW r \in snap PROVE Loading(r)'
  BY DEF LoadInv, LoadLine
<1>. DEFINE kept(k) == rules'[k] = rules[k] /\ pending'[k] = pending[k]
<1>1. /\ rules \in RuleSet /\ pending \in RulesFile /\ r \in RuleSet
  BY DEF Types
<1>2. /\ rules.ip \cup {ParseIP(t) : t \in pending.ip} = r.ip
      /\ rules.app \cup UNION {AppsNamed(n) : n \in pending.app} = r.app
      /\ NamesLoaded(r)
      /\ pending.port \subseteq Port
      /\ rules.port \cup pending.port = r.port
  BY DEF LoadInv, LoadLine, Loading
<1>3. ASSUME rules'.exact = rules.exact, rules'.patterns = rules.patterns,
             pending'.names = pending.names
      PROVE  NamesLoaded(r)'
  <2>1. PICK es \in Seq(ExactName), ps \in Seq(PatternName), lost \in Seq(PatternName) :
            NamesLeft(r, es, ps, lost)
    BY <1>2 DEF NamesLoaded
  <2>2. NamesLeft(r, es, ps, lost)'
    BY <1>3, <2>1 DEF NamesLeft
  <2>. QED
    BY <2>2 DEF NamesLoaded
<1>4. CASE LoadIP
  <2>0. PICK t \in pending.ip : /\ pending' = [pending EXCEPT !.ip = @ \ {t}]
                                /\ rules' = BlockIP(rules, ParseIP(t))
    BY <1>4 DEF LoadIP, Become
  <2>1. /\ kept("app") /\ kept("port") /\ NamesLoaded(r)'
    BY <1>1, <1>3, <2>0 DEF BlockIP, RuleSet, RulesFile
  <2>2. /\ rules'.ip = rules.ip \cup {ParseIP(t)}
        /\ pending'.ip = pending.ip \ {t}
    BY <1>1, <2>0 DEF BlockIP, RuleSet, RulesFile
  <2>3. rules'.ip \cup {ParseIP(u) : u \in pending'.ip} = r.ip
    <3>. HIDE DEF ParseIP
    <3>. QED
      BY <1>2, <2>0, <2>2
  <2>. QED
    BY <1>2, <2>1, <2>3 DEF Loading
<1>5. CASE LoadApp
  <2>0. PICK name \in pending.app :
            /\ pending' = [pending EXCEPT !.app = @ \ {name}]
            /\ rules' = [rules EXCEPT !.app = @ \cup AppsNamed(name)]
    BY <1>5 DEF LoadApp, Become
  <2>1. kept("ip") /\ kept("port") /\ NamesLoaded(r)'
    BY <1>1, <1>3, <2>0 DEF RuleSet, RulesFile
  <2>2. /\ rules'.app = rules.app \cup AppsNamed(name)
        /\ pending'.app = pending.app \ {name}
    BY <1>1, <2>0 DEF RuleSet, RulesFile
  <2>3. rules'.app \cup UNION {AppsNamed(n) : n \in pending'.app} = r.app
    BY <1>2, <2>0, <2>2
  <2>. QED
    BY <1>2, <2>1, <2>3 DEF Loading
<1>6. CASE LoadName
  <2>1. NamesLoaded(r)'
    BY <1>1, <1>2, <1>6, NameLoaded
  <2>2. /\ \/ pending' = [pending EXCEPT !.names = <<>>]
           \/ pending' = [pending EXCEPT !.names = Tail(@)]
        /\ \/ rules' = rules
           \/ \E name : rules' = BlockDomain(rules, name)
    BY <1>6 DEF LoadName, Become
  <2>3. kept("ip") /\ kept("app") /\ kept("port")
    BY <1>1, <2>2 DEF BlockDomain, RuleSet, RulesFile
  <2>. QED
    BY <1>2, <2>1, <2>3 DEF Loading
<1>7. CASE LoadPort
  <2>0. PICK n \in pending.port \ {NoNumber} :
            /\ pending' = [pending EXCEPT !.port = @ \ {n}]
            /\ rules' = BlockPort(rules, PortOf(n))
    BY <1>7 DEF LoadPort, Become
  <2>1. PortOf(n) = n
    <3>1. n \in 0 .. PortWord - 1 /\ PortWord \in Nat \ {0}
      BY <1>2, <2>0, RuleAssumption DEF Port
    <3>2. (n + PortWord * 0) % PortWord = n /\ n + PortWord * 0 = n
      BY <3>1, Quotient
    <3>. QED
      BY <3>2 DEF PortOf
  <2>2. kept("ip") /\ kept("app") /\ NamesLoaded(r)'
    BY <1>1, <1>3, <2>0 DEF RuleSet, RulesFile, BlockPort
  <2>3. rules'.port = rules.port \cup {n} /\ pending'.port = pending.port \ {n}
    BY <1>1, <2>0, <2>1 DEF RuleSet, RulesFile, BlockPort
  <2>4. pending'.port \subseteq Port /\ rules'.port \cup pending'.port = r.port
    BY <1>2, <2>0, <2>3
  <2>. QED
    BY <1>2, <2>2, <2>4 DEF Loading
<1>. QED
  BY <1>4, <1>5, <1>6, <1>7 DEF LoadLine

\* Every step keeps what is known of a load.
LEMMA LoadNext == Types /\ SavedInv /\ LoadInv /\ [Next]_vars => LoadInv'
<1>. SUFFICES ASSUME Types, SavedInv, LoadInv, [Next]_vars PROVE LoadInv'
  OBVIOUS
<1>1. CASE LoadStart
  BY <1>1, LoadBegins
<1>2. CASE LoadLine
  BY <1>2, LineLoaded
<1>3. ASSUME task' # "load" \/ ~pure' PROVE LoadInv'
  BY <1>3 DEF LoadInv
<1>4. CASE UNCHANGED <<rules, task, pending, snap, pure>>
  <2>. SUFFICES ASSUME task' = "load", pure', NEW r \in snap' PROVE Loading(r)'
    BY DEF LoadInv
  <2>1. Loading(r)
    BY <1>4 DEF LoadInv
  <2>2. NamesLoaded(r)'
    <3>1. PICK es \in Seq(ExactName), ps \in Seq(PatternName), lost \in Seq(PatternName) :
              NamesLeft(r, es, ps, lost)
      BY <2>1 DEF Loading, NamesLoaded
    <3>2. NamesLeft(r, es, ps, lost)'
      BY <1>4, <3>1 DEF NamesLeft
    <3>. QED
      BY <3>2 DEF NamesLoaded
  <2>. QED
    BY <1>4, <2>1, <2>2 DEF Loading
<1>5. CASE SaveOpen \/ ClearStart
  BY <1>3, <1>5 DEF SaveOpen, ClearStart, Begin
<1>6. CASE SaveSection \/ ClearSection
  BY <1>3, <1>6 DEF SaveSection, ClearSection, Proceed
<1>7. CASE LoadEnd
  BY <1>3, <1>7 DEF LoadEnd
<1>8. CASE LoadThrows \/ Restart
  BY <1>3, <1>8 DEF LoadThrows, Restart, Fresh
<1>9. CASE ChangeRules
  BY <1>3, <1>9 DEF ChangeRules
<1>10. ASSUME NEW c \in Checkers,
              \/ \E q \in Queries : StartCheck(c, q)
              \/ CheckKind(c)
       PROVE  LoadInv'
  BY <1>4, <1>10 DEF StartCheck, CheckKind, fileVars
<1>11. CASE UNCHANGED vars
  BY <1>4, <1>11 DEF vars, fileVars
<1>. QED
  BY <1>1, <1>2, <1>5, <1>6, <1>7, <1>8, <1>9, <1>10, <1>11
  DEF Next, AdminStep

-----------------------------------------------------------------------------
\* The invariant holds of every state.
LEMMA Invariance == Spec => []IInv
<1>1. Init => IInv
  <2>1. Init => CheckInv
    BY DEF Init, CheckInv, Kinds
  <2>2. Init => SavedInv /\ LoadInv
    BY DEF Init, SavedInv, LoadInv
  <2>3. Init => FewNames
    BY FS_EmptySet DEF Init, FewNames, NoRules
  <2>. QED
    BY <2>1, <2>2, <2>3, TypesInit DEF IInv
<1>2. IInv /\ [Next]_vars => IInv'
  BY TypesNext, FewNext, ChecksNext, SavedNext, LoadNext DEF IInv
<1>. QED
  BY <1>1, <1>2, PTL DEF Spec

\* Whatever the API, a load or a clear do, the manager holds addresses,
\* application types, 16-bit ports and names, exact names and patterns apart.
THEOREM TypeCorrect == Spec => []TypeOK
<1>1. Types => TypeOK
  <2>. SUFFICES ASSUME Types PROVE TypeOK
    OBVIOUS
  <2>1. DOMAIN rules = DOMAIN NoRules
    BY DEF Types, RuleSet, NoRules
  <2>2. /\ rules.ip \subseteq Address /\ rules.app \subseteq AppTypes
        /\ rules.port \subseteq Port
    BY DEF Types, RuleSet
  <2>3. /\ rules.exact \subseteq Seq(Labels)
        /\ \A name \in rules.exact : ~IsPattern(name)
    BY DEF Types, RuleSet, ExactName, Names
  <2>4. /\ rules.patterns \in Seq(Seq(Labels))
        /\ \A i \in DOMAIN rules.patterns : IsPattern(rules.patterns[i])
    <3>1. rules.patterns \in Seq(PatternName)
      BY DEF Types, RuleSet
    <3>2. \A i \in DOMAIN rules.patterns : rules.patterns[i] \in PatternName
      BY <3>1
    <3>3. PatternName \subseteq Seq(Labels)
      BY DEF PatternName, Names
    <3>4. rules.patterns \in Seq(Seq(Labels))
      BY <3>1, <3>3
    <3>. QED
      BY <3>2, <3>4 DEF PatternName
  <2>5. task \in {"save", "clear"} => todo # <<>>
    BY SectionsLeft DEF Types
  <2>. QED
    BY <2>1, <2>2, <2>3, <2>4, <2>5 DEF Types, TypeOK
<1>. QED
  BY <1>1, Invariance, PTL DEF IInv

\* shouldBlock takes four locks one after the other while the rules change,
\* and its answer is still justified: what it allows no kind of rule matched
\* all along, and the kind it blocks by matched at some moment.
THEOREM AnswersJustified == Spec => []VerdictJustified
<1>1. Types /\ CheckInv => VerdictJustified
  BY DEF Types, CheckInv, VerdictJustified, Kinds
<1>. QED
  BY <1>1, Invariance, PTL DEF IInv

\* A packet is not reported as blocked by one kind of rule when a more
\* specific kind matched it from the start to the end of the check.
THEOREM ReasonMostSpecific == Spec => []MostSpecificReason
<1>1. Types /\ CheckInv => MostSpecificReason
  BY DEF Types, CheckInv, MostSpecificReason, Kinds
<1>. QED
  BY <1>1, Invariance, PTL DEF IInv

\* loadRules gives back the rules that saveRules wrote if nobody changed them
\* meanwhile, but for the empty name, and but for names that begin with a
\* bracket and the names after them: no other name comes in their place.
THEOREM SavedRulesLoad == Spec => RoundTrip
<1>1. IInv /\ [Next]_vars =>
          [LoadEnd /\ pure => \A r \in snap : AsSaved(r)]_vars
  <2>. SUFFICES ASSUME IInv, LoadEnd, pure, NEW r \in snap
                PROVE  AsSaved(r)
    OBVIOUS
  <2>1. Loading(r) /\ rules \in RuleSet /\ r \in RuleSet
    BY DEF LoadEnd, IInv, LoadInv, Types
  <2>2. /\ pending.ip = {} /\ pending.app = {} /\ pending.names = <<>>
        /\ pending.port = {}
    BY DEF LoadEnd, NoneLeft, Kinds
  <2>3. rules.ip = r.ip /\ rules.app = r.app /\ rules.port = r.port
    BY <2>1, <2>2 DEF Loading
  <2>4. PICK es \in Seq(ExactName), ps \in Seq(PatternName), lost \in Seq(PatternName) :
            NamesLeft(r, es, ps, lost)
    BY <2>1 DEF Loading, NamesLoaded
  <2>5. es = <<>> /\ ps = <<>>
    BY <2>2, <2>4 DEF NamesLeft
  <2>6. /\ rules.exact \subseteq r.exact \ {<<>>}
        /\ rules.patterns \o lost = r.patterns
        /\ Unbracketed(r) =>
               /\ lost = <<>>
               /\ rules.exact = r.exact \ {<<>>}
    <3>1. <<>> \o lost = lost /\ Range(<<>>) = {}
      BY DEF Range
    <3>. QED
      BY <2>4, <2>5, <3>1 DEF NamesLeft
  <2>7. rules.patterns \in Seq(PatternName)
    BY <2>1 DEF RuleSet
  <2>8. IsPrefix(rules.patterns, r.patterns)
    BY <2>6, <2>7 DEF IsPrefix
  <2>9. Unbracketed(r) => rules.patterns = r.patterns
    BY <2>6, <2>7
  <2>. QED
    BY <2>3, <2>6, <2>8, <2>9 DEF AsSaved
<1>. QED
  BY <1>1, Invariance, PTL DEF Spec, RoundTrip
=============================================================================
