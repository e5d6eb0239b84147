------------------------------ MODULE RuleManager ------------------------------
(***************************************************************************)
(* The rule manager of the first engine (src/src/rule_manager.cpp): four   *)
(* kinds of rules, each behind a lock of its own.  The fast paths ask      *)
(* shouldBlock, which takes the locks one after the other, while the API   *)
(* changes rules and one thread saves, loads or clears them all, a lock at *)
(* a time.                                                                 *)
(*                                                                         *)
(* A name is the sequence of its labels; none is the very text of one of   *)
(* the four section headers.  The rules file is what its sections hold, as *)
(* text, and the order of the sections.                                    *)
(***************************************************************************)
EXTENDS Integers, Sequences, FiniteSets, SequencesExt

CONSTANTS
    Checkers,   \* the fast paths
    Queries,    \* what they ask about: [ip, port, app, domain]
    Octets,     \* 256: the number of values of an octet
    PortWord,   \* 2^16: the number of values of uint16_t
    NumApps,    \* APP_COUNT
    AppName,    \* appTypeToString
    Labels,     \* the labels names are made of
    Starred,    \* those with an asterisk in them
    Wild,       \* the label that is just an asterisk
    Bracketed,  \* those that begin with a bracket, as section headers do
    Lower,      \* tolower of a label
    BlockedIPs, BlockedPorts, BlockedApps, BlockedNames, \* what the API sets
    HandFiles,  \* rules files that somebody wrote
    NoNumber,   \* a port that stoi rejects
    ChangeLimit, \* bound: changes through the API
    TaskLimit   \* bound: saves, loads and clears

Address == 0 .. Octets * Octets * Octets * Octets - 1
AppTypes == 1 .. NumApps
Port == 0 .. PortWord - 1
Kinds == {"ip", "port", "app", "domain"}

Sections == <<"ip", "app", "domain", "port">>

\* What a rules file can hold, however it was written.  A section it does not
\* have is as good as an empty one.
RulesFile == [order : {s \in [1 .. 4 -> Kinds] : IsInjective(s)},
              ip : SUBSET [1 .. 4 -> 0 .. Octets - 1], app : SUBSET STRING,
              names : Seq(Seq(Labels)), port : SUBSET (Nat \cup {NoNumber})]

ASSUME RuleAssumption ==
    /\ Octets \in Nat \ {0}
    /\ PortWord \in Nat \ {0}
    /\ NumApps \in Nat
    /\ Starred \subseteq Labels
    /\ Wild \in Starred
    /\ Bracketed \subseteq Labels
    /\ Lower \in [Labels -> Labels]
    /\ BlockedIPs \subseteq Address
    /\ BlockedPorts \subseteq Port
    /\ BlockedApps \subseteq AppTypes
    /\ BlockedNames \subseteq Seq(Labels)
    /\ ChangeLimit \in Nat
    /\ TaskLimit \in Nat
    /\ \A q \in Queries : q.domain \in Seq(Labels)
    /\ AppName \in [AppTypes -> STRING]
    /\ \A a, b \in AppTypes : AppName[a] = AppName[b] => a = b
    /\ NoNumber \notin Nat
    /\ HandFiles \subseteq RulesFile

VARIABLES
    rules,     \* blocked_ips_, blocked_apps_, ..., domain_patterns_
    stage,     \* the lock each checker takes next
    query,     \* what it asks about
    verdict,   \* its last answer: the kind that blocks, or "allow"
    task, todo, \* what the thread that saves, loads or clears has left to do
    file,      \* the rules file
    pending,   \* the lines of it that are still to be loaded
    changes,   \* changes made through the API
    tasks,     \* saves, loads and clears begun
    always, ever, \* history: the kinds that matched all through a check, and
                  \* those that matched at some moment of it
    snap,      \* history: the rules the file was saved from, if they are known
    pure       \* history: a load began without rules and was not disturbed

checkVars == <<stage, query, verdict>>
fileVars == <<task, tasks, todo, file, pending, snap>>
vars == <<rules, checkVars, fileVars, changes, always, ever, pure>>

NoRules == [ip |-> {}, app |-> {}, port |-> {}, exact |-> {}, patterns |-> <<>>]
NoLines == [order |-> Sections, ip |-> {}, app |-> {}, names |-> <<>>,
            port |-> {}]

-----------------------------------------------------------------------------
(* Conversions, and what a rule matches. *)

\* parseIP and ipToString: the first octet is the lowest byte.
ParseIP(t) ==
    t[1] + Octets * (t[2] + Octets * (t[3] + Octets * t[4]))
IpToString(a) ==
    <<a % Octets, (a \div Octets) % Octets,
      (a \div (Octets * Octets)) % Octets,
      (a \div (Octets * Octets * Octets)) % Octets>>

\* static_cast<uint16_t>(std::stoi(line))
PortAsRead(n) == n  \* mutant: the value is not cut to 16 bits
PortOf(n) == n % PortWord

\* The first type with this name, if there is one.
AppsNamed(name) ==
    {a \in AppTypes : /\ AppName[a] = name
                      /\ \A b \in AppTypes : AppName[b] = name => a <= b}

IsPattern(name) == \E i \in DOMAIN name : name[i] \in Starred
InLower(name) == [i \in DOMAIN name |-> Lower[name[i]]]

\* domainMatchesPattern: "*.example.com" matches names that end with
\* ".example.com", and "example.com".
DomainMatchesPattern(name, pattern) ==
    /\ Len(pattern) >= 2
    /\ pattern[1] = Wild
    /\ IsSuffix(Tail(pattern), name)

\* Only patterns are compared in lower case.
IsDomainBlocked(r, name) ==
    \/ name \in r.exact
    \/ \E i \in DOMAIN r.patterns :
           DomainMatchesPattern(InLower(name), InLower(r.patterns[i]))

Matches(r, kind, q) ==
    \/ kind = "ip" /\ q.ip \in r.ip
    \/ kind = "port" /\ q.port \in r.port
    \/ kind = "app" /\ q.app \in r.app
    \/ kind = "domain" /\ q.domain # <<>> /\ IsDomainBlocked(r, q.domain)

Hits(r, q) == {kind \in Kinds : Matches(r, kind, q)}

-----------------------------------------------------------------------------
(* Changes of the rules: each takes one lock. *)

BlockIP(r, a) == [r EXCEPT !.ip = @ \cup {a}]
BlockApp(r, a) == [r EXCEPT !.app = @ \cup {a}]
BlockPort(r, p) == [r EXCEPT !.port = @ \cup {p}]
BlockDomain(r, name) ==
    IF IsPattern(name) THEN [r EXCEPT !.patterns = Append(@, name)]
    ELSE [r EXCEPT !.exact = @ \cup {name}]

UnblockIP(r, a) == [r EXCEPT !.ip = @ \ {a}]
UnblockApp(r, a) == [r EXCEPT !.app = @ \ {a}]
UnblockPort(r, p) == [r EXCEPT !.port = @ \ {p}]
UnblockDomain(r, name) ==
    IF IsPattern(name) THEN [r EXCEPT !.patterns = RemoveFirst(@, name)]
    ELSE [r EXCEPT !.exact = @ \ {name}]

Changed ==
    {BlockIP(rules, a) : a \in BlockedIPs}
    \cup {UnblockIP(rules, a) : a \in BlockedIPs}
    \cup {BlockApp(rules, a) : a \in BlockedApps}
    \cup {UnblockApp(rules, a) : a \in BlockedApps}
    \cup {BlockPort(rules, p) : p \in BlockedPorts}
    \cup {UnblockPort(rules, p) : p \in BlockedPorts}
    \cup {BlockDomain(rules, n) : n \in BlockedNames}
    \cup {UnblockDomain(rules, n) : n \in BlockedNames}

\* The rules become r; the checks that are under way take note.
Become(r) ==
    /\ rules' = r
    /\ always' = [c \in Checkers |->
           IF stage[c] = "idle" THEN always[c]
           ELSE always[c] \cap Hits(r, query[c])]
    /\ ever' = [c \in Checkers |->
           IF stage[c] = "idle" THEN ever[c]
           ELSE ever[c] \cup Hits(r, query[c])]

ChangeRules ==
    /\ changes < ChangeLimit
    /\ changes' = changes + 1
    /\ \E r \in Changed : Become(r)
    /\ snap' = IF task = "save" THEN {} ELSE snap
    /\ pure' = FALSE
    /\ UNCHANGED <<checkVars, task, tasks, todo, file, pending>>

-----------------------------------------------------------------------------
(* shouldBlock *)

AfterSkipping(kind) ==  \* mutant: the apps are not asked
    CASE kind = "ip" -> "port" [] kind = "port" -> "domain"
      [] kind = "app" -> "domain" [] kind = "domain" -> "idle"
AfterSwapped(kind) ==   \* mutant: the ports are asked last
    CASE kind = "ip" -> "app" [] kind = "app" -> "domain"
      [] kind = "domain" -> "port" [] kind = "port" -> "idle"
After(kind) ==
    CASE kind = "ip" -> "port" [] kind = "port" -> "app"
      [] kind = "app" -> "domain" [] kind = "domain" -> "idle"

StartCheck(c, q) ==
    /\ stage[c] = "idle"
    /\ stage' = [stage EXCEPT ![c] = "ip"]
    /\ query' = [query EXCEPT ![c] = q]
    /\ verdict' = [verdict EXCEPT ![c] = "none"]
    /\ always' = [always EXCEPT ![c] = Hits(rules, q)]
    /\ ever' = [ever EXCEPT ![c] = Hits(rules, q)]
    /\ UNCHANGED <<rules, fileVars, changes, pure>>

\* The check of one kind, under its lock.
CheckKind(c) ==
    LET kind == stage[c]
        hit == Matches(rules, kind, query[c])
        next == IF hit THEN "idle" ELSE After(kind)
    IN
    /\ kind # "idle"
    /\ stage' = [stage EXCEPT ![c] = next]
    /\ verdict' = [verdict EXCEPT ![c] = IF hit THEN kind
                                         ELSE IF next = "idle" THEN "allow"
                                         ELSE @]
    /\ UNCHANGED <<rules, query, fileVars, changes, always, ever, pure>>

-----------------------------------------------------------------------------
(* saveRules and clearAll: a section, and a lock, at a time. *)

\* The exact names, in the order the hash set has them, then the patterns.
Listings(S) == {s \in [1 .. Cardinality(S) -> S] : Range(s) = S}

WrittenNoPatterns(f, section, listing) ==  \* mutant: they are left out
    [f EXCEPT !.ip = IF section = "ip" THEN {IpToString(a) : a \in rules.ip}
                     ELSE @,
              !.app = IF section = "app" THEN {AppName[a] : a \in rules.app}
                      ELSE @,
              !.names = IF section = "domain" THEN listing ELSE @,
              !.port = IF section = "port" THEN rules.port ELSE @]
Written(f, section, listing) ==
    [f EXCEPT !.ip = IF section = "ip" THEN {IpToString(a) : a \in rules.ip}
                     ELSE @,
              !.app = IF section = "app" THEN {AppName[a] : a \in rules.app}
                      ELSE @,
              !.names = IF section = "domain" THEN listing \o rules.patterns
                        ELSE @,
              !.port = IF section = "port" THEN rules.port ELSE @]

Cleared(section) ==
    [rules EXCEPT !.ip = IF section = "ip" THEN {} ELSE @,
                  !.app = IF section = "app" THEN {} ELSE @,
                  !.exact = IF section = "domain" THEN {} ELSE @,
                  !.patterns = IF section = "domain" THEN <<>> ELSE @,
                  !.port = IF section = "port" THEN {} ELSE @]

Begin(what) ==
    /\ task = "none"
    /\ tasks < TaskLimit
    /\ task' = what
    /\ tasks' = tasks + 1

\* Opening the file for writing empties it.
SaveOpen ==
    /\ Begin("save")
    /\ todo' = Sections
    /\ file' = NoLines
    /\ snap' = {rules}
    /\ UNCHANGED <<rules, checkVars, pending, changes, always, ever, pure>>

\* The thread goes on to the next section.
Proceed(what) ==
    /\ task = what
    /\ todo' = Tail(todo)
    /\ task' = IF Tail(todo) = <<>> THEN "none" ELSE task
    /\ UNCHANGED <<checkVars, tasks, pending, changes>>

SaveSection ==
    /\ Proceed("save")
    /\ \E s \in Listings(rules.exact) : file' = Written(file, Head(todo), s)
    /\ UNCHANGED <<rules, snap, always, ever, pure>>

ClearStart ==
    /\ Begin("clear")
    /\ todo' = Sections
    /\ UNCHANGED <<rules, checkVars, file, pending, snap, changes, always,
                   ever, pure>>

ClearSection ==
    /\ Proceed("clear")
    /\ Become(Cleared(Head(todo)))
    /\ UNCHANGED <<file, snap, pure>>

-----------------------------------------------------------------------------
(* loadRules: a line, and a lock, at a time, on top of what there is. *)

LoadStart ==
    /\ Begin("load")
    /\ pending' = file
    /\ pure' = (rules = NoRules)
    /\ UNCHANGED <<rules, checkVars, todo, file, snap, changes, always, ever>>

\* All lines of this section have been read.
NoneLeft(kind) ==
    \/ kind = "ip" /\ pending.ip = {}
    \/ kind = "app" /\ pending.app = {}
    \/ kind = "domain" /\ pending.names = <<>>
    \/ kind = "port" /\ pending.port = {}
\* The lines of this section come next.
Reached(kind) ==
    \E i \in 1 .. 4 : /\ pending.order[i] = kind
                      /\ \A j \in 1 .. i - 1 : NoneLeft(pending.order[j])

\* line[0] == '[': the line is taken for the header of a section.
LooksLikeHeader(name) == name # <<>> /\ name[1] \in Bracketed

LoadIP ==
    /\ Reached("ip")
    /\ \E t \in pending.ip :
          /\ pending' = [pending EXCEPT !.ip = @ \ {t}]
          /\ Become(BlockIP(rules, ParseIP(t)))

LoadApp ==
    /\ Reached("app")
    /\ \E name \in pending.app :
          /\ pending' = [pending EXCEPT !.app = @ \ {name}]
          /\ Become([rules EXCEPT !.app = @ \cup AppsNamed(name)])

\* After a name that looks like a header, the other lines are in a section
\* that nobody knows, up to the next header.
LoadName ==
    /\ Reached("domain")
    /\ pending.names # <<>>
    /\ LET name == Head(pending.names) IN
          \/ /\ LooksLikeHeader(name)
             /\ pending' = [pending EXCEPT !.names = <<>>]
             /\ Become(rules)
          \/ /\ ~LooksLikeHeader(name)
             /\ pending' = [pending EXCEPT !.names = Tail(@)]
             /\ Become(IF name = <<>> THEN rules  \* an empty line
                       ELSE BlockDomain(rules, name))

LoadPort ==
    /\ Reached("port")
    /\ \E n \in pending.port \ {NoNumber} :
          /\ pending' = [pending EXCEPT !.port = @ \ {n}]
          /\ Become(BlockPort(rules, PortOf(n)))

LoadLine ==
    /\ task = "load"
    /\ LoadIP \/ LoadApp \/ LoadName \/ LoadPort
    /\ UNCHANGED <<checkVars, task, tasks, todo, file, snap, changes, pure>>

LoadEnd ==
    /\ task = "load"
    /\ \A kind \in Kinds : NoneLeft(kind)
    /\ task' = "none"
    /\ UNCHANGED <<rules, checkVars, tasks, todo, file, pending, snap,
                   changes, always, ever, pure>>

-----------------------------------------------------------------------------
\* A program begins without rules; the file is what it was.
Fresh ==
    /\ rules' = NoRules
    /\ stage' = [c \in Checkers |-> "idle"]
    /\ verdict' = [c \in Checkers |-> "none"]
    /\ task' = "none"
    /\ todo' = <<>>
    /\ pending' = NoLines
    /\ UNCHANGED <<query, tasks, file, changes, always, ever, pure>>

\* std::stoi throws, and nothing catches it.
LoadThrows ==
    /\ task = "load"
    /\ Reached("port")
    /\ NoNumber \in pending.port
    /\ Fresh
    /\ UNCHANGED snap

\* The program ends, at any moment, and is started again.
Restart ==
    /\ Fresh
    /\ snap' = IF task = "save" THEN {} ELSE snap

Init ==
    /\ rules = NoRules
    /\ stage = [c \in Checkers |-> "idle"]
    /\ query \in [Checkers -> Queries]
    /\ verdict = [c \in Checkers |-> "none"]
    /\ task = "none"
    /\ tasks = 0
    /\ todo = <<>>
    /\ file \in HandFiles \cup {NoLines}
    /\ pending = NoLines
    /\ changes = 0
    /\ always = [c \in Checkers |-> {}]
    /\ ever = [c \in Checkers |-> {}]
    /\ snap = {}
    /\ pure = FALSE

AdminStep ==
    \/ SaveOpen \/ SaveSection \/ ClearStart \/ ClearSection
    \/ LoadStart \/ LoadLine \/ LoadEnd \/ LoadThrows

Next ==
    \/ \E c \in Checkers, q \in Queries : StartCheck(c, q)
    \/ \E c \in Checkers : CheckKind(c)
    \/ ChangeRules
    \/ AdminStep
    \/ Restart

Spec == Init /\ [][Next]_vars

-----------------------------------------------------------------------------
(* Properties. *)

\* Rules hold addresses, application types, 16-bit ports and names, and a
\* pattern is never among the exact names.
TypeOK ==
    /\ DOMAIN rules = DOMAIN NoRules
    /\ rules.ip \subseteq Address
    /\ rules.app \subseteq AppTypes
    /\ rules.port \subseteq Port
    /\ rules.exact \subseteq Seq(Labels)
    /\ \A name \in rules.exact : ~IsPattern(name)
    /\ rules.patterns \in Seq(Seq(Labels))
    /\ \A i \in DOMAIN rules.patterns : IsPattern(rules.patterns[i])
    /\ stage \in [Checkers -> Kinds \cup {"idle"}]
    /\ query \in [Checkers -> Queries]
    /\ verdict \in [Checkers -> Kinds \cup {"allow", "none"}]
    /\ task \in {"none", "save", "load", "clear"}
    /\ task \in {"save", "clear"} => todo # <<>>
    /\ changes \in 0 .. ChangeLimit
    /\ tasks \in 0 .. TaskLimit
    /\ always \in [Checkers -> SUBSET Kinds]
    /\ ever \in [Checkers -> SUBSET Kinds]
    /\ pure \in BOOLEAN

\* An answer of shouldBlock is true to the rules although they change while
\* it takes its four locks: a packet is allowed only if no kind of rule
\* matched it all through the check, and blocked only by a kind that matched
\* it at some moment of the check.
VerdictJustified ==
    \A c \in Checkers :
        /\ verdict[c] = "allow" => always[c] = {}
        /\ verdict[c] \in Kinds => verdict[c] \in ever[c]

\* "Check IP first (most specific)" (rule_manager.cpp:215): a packet is not
\* reported as blocked by one kind when an earlier kind matched it all along.
Earlier(kind) ==
    {k \in Kinds : \/ kind = "port" /\ k = "ip"
                   \/ kind = "app" /\ k \in {"ip", "port"}
                   \/ kind = "domain" /\ k # "domain"}
MostSpecificReason ==
    \A c \in Checkers :
        verdict[c] \in Kinds => always[c] \cap Earlier(verdict[c]) = {}

\* Loading a file that was saved while nobody changed the rules, into a
\* manager without rules, gives the rules it was saved from.  The empty name
\* is lost, as it is written as an empty line.  So is a name that begins with
\* a bracket, as it is read as a header (rule_manager.cpp:294), with the names
\* after it; but no other name comes in their place, the patterns that are
\* left are the first ones, and the other kinds of rules do not suffer.
Unbracketed(r) ==
    /\ \A name \in r.exact : ~LooksLikeHeader(name)
    /\ \A i \in DOMAIN r.patterns : ~LooksLikeHeader(r.patterns[i])
AsSaved(r) ==
    /\ rules.ip = r.ip /\ rules.app = r.app /\ rules.port = r.port
    /\ rules.exact \subseteq r.exact \ {<<>>}
    /\ IsPrefix(rules.patterns, r.patterns)
    /\ Unbracketed(r) => /\ rules.exact = r.exact \ {<<>>}
                         /\ rules.patterns = r.patterns
RoundTrip == [][LoadEnd /\ pure => \A r \in snap : AsSaved(r)]_vars
=============================================================================
