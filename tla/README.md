# TLA+ models of the DPI engine

The repository holds a packet inspection engine in C++, in two generations: the
current multi-threaded program (`src/src/dpi_mt.cpp`, with daily quotas) and the
engine it replaces (`dpi_engine.cpp`, `load_balancer.cpp`, `fast_path.cpp`,
`connection_tracker.cpp`, `rule_manager.cpp`). Both read a capture file, spread
its packets over load balancers and fast paths by a hash of the five-tuple, find
the name in a flow's first payloads, block by rule (and by quota, in the current
one) and write what passes to another capture. This directory models both:
what TLC checks on small instances is listed under *Runs*, what TLAPS proves for
every value of the constants under *Proofs*.

File names without a directory are in `src/src/` or `src/include/`; `README.md`
with a line number is `src/README.md`.

## 1. Inventory

| Component | State | Operations | Interacts with | Hard parts |
|---|---|---|---|---|
| Pipeline, current engine (`dpi_mt.cpp`) | a `TSQueue` per thread, `running_` flags, flow tables per fast path, `Stats` | reader loop, `LoadBalancer::run`, `FastPath::run`, writer lambda, `stop()` in `process()` | queues between all stages, one shared `QuotaManager` | interleaving, shutdown order, the fixed sleep before it, bounded queues |
| Blocking queue (`thread_safe_queue.h`, `TSQueue` in `dpi_mt.cpp`) | `queue_`, `shutdown_`, two condition variables | `push`, `tryPush`, `pop`, `popWithTimeout`, `shutdown` | every pair of stages | lost wakeups, overtaking, shutdown while threads wait |
| Quotas (`quota_manager.cpp`) | `limits_`, `usage_`, the state file | `loadRules`, `loadState`, `recordAndCheck`, `saveState` | charged by all fast paths; carried over by the file | several runs a day, crashes, failed saves, midnight, 64-bit limits |
| Pipeline, first engine (`dpi_engine.cpp`, `load_balancer.cpp`, `fast_path.cpp`) | queues, flags, counters of every stage | reader, LB and FP threads, output thread, `stop()` | as above; the output thread runs on the engine's flag | the same, and an output thread that may leave early |
| Fast path and connection table (`fast_path.cpp`, `connection_tracker.cpp`) | connections with TCP state, name, verdict, age | `processPacket`, eviction, `cleanupStale` | asks the rule manager; rules change at any moment | resets, late handshakes, eviction of a blocked flow, timeouts |
| Rule manager (`rule_manager.cpp`) | four sets of rules, a lock each; the rules file | block/unblock, `shouldBlock`, `saveRules`, `loadRules`, `clearAll` | fast paths, the API | checks and saves that take the locks one after the other, restarts, malformed files |
| Reader, parser, extractors (`pcap_reader.cpp`, `packet_parser.cpp`, `sni_extractor.cpp`) | the position in the file and in the packet | `readNextPacket`, `parse`, `extract`, `extractQuery`; the payload offset of each engine | feeds the pipelines | nested lengths, cut packets, two byte orders, offsets computed twice |
| Types (`types.cpp`, `types.h`) | none | hash, names of applications, name to application | all | an ordered list of patterns that are sought anywhere in a name |
| Single-threaded program (`main_working.cpp`) | one flow table, the counters of the report | one loop over the capture | parser, extractors, types | none of its own; the threaded engine must decide as it does |
| `main_simple.cpp`, `main.cpp`, `main_dpi.cpp`, `generate_test_pcap.py` | one loop's locals | print what is parsed, command line, a test capture | none | none |

What makes each correct:

* pipeline: every packet read is forwarded, dropped or still on its way, and the
  report's counters say so; a stage outlives those that push to it; a flow's
  packets keep their order and come out at most once; a blocked flow stays
  blocked; what passes, and what the report says, is what the single-threaded
  program would pass and say; `process()` returns.
* the first engine's pipeline: the same, and one connection table per flow.
* types: a site of an application on the list of supported ones is given that
  application's name.
* queue: a bounded FIFO; no thread sleeps beside a slot or an item it could use;
  nobody sleeps after the shutdown.
* quotas: over a day and however it is split into runs, an application is let
  through no more than its limit; what is charged is carried over, and only the
  bytes of the day are.
* connection table: never over its capacity; a flow is forgotten only when it
  was closed, silent for long, or outnumbered by flows active since; a flow once
  cut passes again only for the known reasons; a forwarded packet matches no
  rule that was in force since it came.
* rule manager: an answer is justified by the rules of the time it was worked
  out in; an undisturbed save loads to what was saved, but for the names the
  format cannot carry.
* reader, parser, extractors: no read leaves the packet; the right packets go
  on, with the right payload; the name found is the name in the packet.

## 2. Modules

| Module | Models | State and actions in terms of the code |
|---|---|---|
| `Engine` | `dpi_mt.cpp` | Threads are numbered in the order `process()` stops them: load balancers, fast paths, the writer. `pc[t]`/`hand[t]` are where a thread is in its loop and the packet it holds, `queue[t]`/`shut[t]` the `TSQueue` it pops, `mainPc`/`cursor` where `process()` is and whom it is stopping. One action per queue operation, loop test, flag write, shutdown and join; `FPInspect` is the handler from the flow lookup to the verdict. Its only shared access is `recordAndCheck`, one critical section, so it is one step. |
| `SequentialEngine` | `main_working.cpp` | No variables: `Run` is a recursive function that takes a `Turn` for each packet of the capture, from an empty flow table to the table, the report's counters and the packets written. |
| `SameVerdicts` | `Engine` beside `SequentialEngine` | The same capture and rules given to both; no state of its own. |
| `AppTypes` | `types.cpp`, `blockApp`, the substring search of `isBlocked` | The ordered list of patterns as data, and what it makes of a name. The instances of `Engine` take their tables from it (`NamesAsComputed`). |
| `FlowChannel` | abstract | What the engine promises one flow: an ordered, lossless, at-most-once channel that stays cut once it is cut. |
| `TSQueue` | `thread_safe_queue.h` | One step per critical section. `pc[t]` is idle, asleep in a wait set, or woken and competing for the mutex again; `notify_one` picks any sleeper; spurious wakeups and timeouts are steps. |
| `BoundedFifo` | abstract | What a queue promises. `TSQueue` implements it, so `Engine` and `LegacyEngine` use queue operations as single steps. |
| `QuotaManager` | `quota_manager.cpp` and its use | `StartRun` (loadRules and loadState), `Charge`, the two halves of `saveState` (opening the file empties it), failed saves, kills and midnight at any point. |
| `LegacyEngine` | `dpi_engine.cpp`, `load_balancer.cpp`, `fast_path.cpp` (threads) | As `Engine`, but `stop()` clears the engine's own `running_` first and the output thread runs on it. `conns[fp]` is the connection table of a fast path; `FPInspect` decides with the operators of `FlowTracker`, instantiated once per fast path (`Tracker`): `FPLook` is the table's part of `processPacket`, `FPAsk` one lock of `shouldBlock`, and `ChangeRules` is the API in another thread, at any moment between them. |
| `FlowTracker` | `fast_path.cpp`, `connection_tracker.cpp` | `Receive` is `processPacket` up to the rules, with all it calls: the table is private to the thread, so that is one step. `CheckRules` is `shouldBlock`, one lock per step (`job`, `lock`); the rules change between packets and between the locks, and cleanup runs between packets. |
| `RuleManager` | `rule_manager.cpp` | `shouldBlock` in four steps, a lock each; `saveRules` and `clearAll` a section at a time; `loadRules` a line at a time, in the order of the file's sections, with the test for a header (`LooksLikeHeader`); the API's changes, restarts and the exception of `stoi` in between. |
| `Dissector` | `pcap_reader.cpp`, `packet_parser.cpp`, `sni_extractor.cpp`, the offsets of `dpi_mt.cpp` and `dpi_engine.cpp` | Works on the bytes of a packet, one layer or length field per step. `reach` records how far it has read. |
| `Payloads` | what the bytes of files and packets mean | No state. `Inspectable` and `HeaderEnd` tell a packet with complete headers from its bytes; `ServerNameIn`, `HostIn` and `LabelsIn` tell, forward from field to field, where a hello, a request (its first line that begins with `host:`, among the headers) or a query has its name; `HostFirst` that a request does not say `host:` before that; `NothingIn` that there is none. The instances' packets say what they hold, and `Means`, a part of `FilesAssumption`, that their bytes agree. Hellos go to port 443 and requests to port 80, neither from port 53, and queries to or from port 53: where the engines look for each (queries: the first engine only, `Understood`). Of a packet of kind "unknown" nothing is said, so any file is admitted. |
| `Sums` | the totals `stop()` and the reports add up over threads | `Sum(f)`, as the number of pairs of an argument and one of the things counted for it. |
| `MC*` | | Instances for TLC. |
| `*_proof` | | Theorems. |

`Engine` and `LegacyEngine` rest on `TSQueue` (through `BoundedFifo`) for atomic
queue operations, `Engine` on `QuotaManager` for the usage a run starts with and
on `Dissector` for the name that comes with a packet. `LegacyEngine` is composed
with `FlowTracker`: each fast path looks up, evicts, updates and checks as
`FlowTracker` does, but nothing grows older than the five minutes of
`cleanupStale` during its runs (ages are a matter of `FlowTracker` alone), so an
idle pop removes closed connections only. `FlowTracker`, `LegacyEngine` and
`RuleManager` all take the four locks of `shouldBlock` one at a time; in
`Engine` the rules are fixed before the threads start, so one check is one step.

Abstractions: a packet is its index in the capture with a flow, a size and the
host found in it; names, applications and addresses are values of small sets;
the hash is a function, so that flows with chosen hashes can be set up; elapsed
time is left out (a sleep or a timed wait may end at any moment), except in
`FlowTracker`, where ages are ticks. In `RuleManager` a name is the sequence of
its labels, and a file the order of its four sections and what each holds, as
text: a section is written once, a hand-written file has them in any order, a
crash leaves whole sections, and no name is the very text of one of the four
headers (`[BLOCKED_PORTS]` as a domain would have the names after it read as
ports).

## 3. Runs

| Run | Question | Instance |
|---|---|---|
| `engine` | Do reader, threads and shutdown keep the stop order (`ShutdownOrder`), lose or count twice no packet (`Accounting`, `ForwardedIsWritten`), keep the shared quota (`QuotaRespected`) and overshoot it only by a packet per cut flow (`UsageOvershoot`)? Does a blocked flow stay silent (`BlockedFlowSilent`), does each flow get out what the single-threaded program lets out, and the report say the same (`SameAsSequential`)? Does the pipeline implement `FlowChannel`, does `process()` return (`Termination`), and would a sleep that is long enough drain the queues (`SleepDrains`)? | one load balancer, two fast paths, queues of one, up to four packets on four flows, a quota shared by the fast paths that may have been used up before |
| `engine_drained` | Violated: does the sleep drain the queues (`Drained`)? | the same |
| `engine_netflix` | Violated: does blocking an application that the documentation lists silence its sites (`ListedAppSilent`)? | the same, with Netflix blocked and two packets |
| `tsqueue` | Is no wakeup lost (`ProducersWoken`, `ConsumersWoken`), does the shutdown release everybody, are items popped, does the queue implement `BoundedFifo`? | two producers, two consumers, two slots, two pushes each |
| `quota_manager` | Is usage carried over (`UsageSurvivesRuns`), does the quota hold over the day (`QuotaAcrossRuns`), are only the day's bytes charged (`ChargedOnlyToday`)? | two applications, four rules files, two days, a 4-bit word so that limits wrap |
| `quota_midnight` | Violated: does the file count today's bytes (`StateFileIsToday`)? | the same |
| `legacy_engine` | Stop order (`StageOrder`), accounting and flow order (`FlowOrder`) of the first engine; do the figures of the report agree with each other and, unless the output thread left early, with the file (`ReportAgrees`); does a cut flow stay cut through the whole pipeline until it is closed (`CutUntilClosed`); does `processFile` return if the output fits its queue (`StopsIfOutputFits`)? | two load balancers, a fast path each with a table of two connections (so nothing is evicted), queues of two, up to three packets, with a reset and a FIN of a cut flow among them, one change of the rules, also in the middle of a check |
| `legacy_counts` | Violated: are the packets of each fast path counted (`PerFpCounted`)? | the same |
| `flow_tracker` | What makes a cut flow pass again (`LeakNeedsReset`), may an identified flow lose its name (`IdentityKept`), which flows may be forgotten (`RecentFlowsKept`), does a rule win that was in force since the packet came (`ForwardedIsAllowed`)? | three flows, a table of two, four packets of nine kinds, two ticks, rules that change at any moment |
| `flow_cut` | Violated: does a blocked flow stay cut (`BlockedFlowStaysCut`)? | the same |
| `rule_manager` | Are answers justified while the rules change (`VerdictJustified`), is the reason the most specific that held throughout (`MostSpecificReason`), does a saved file load to what was saved, and what is lost when a name begins with a bracket (`RoundTrip`)? | one checker, two changes through the API, three saves, loads or clears, any number of restarts, names with a bracket and with an asterisk, two files written by hand, one with its sections in another order |
| `dissector` | Does every read stay in the packet (`ReadsWithin`), are the right packets passed on with the right payload (`Dispatched`), is the right name found, unless a request says `host:` before its Host header (`NameRight`)? | some five hundred files; header, field and list lengths varied, a packet of each kind cut at every length, malformed fields, both byte orders, both engines |

Bounds. Queues of one or two slots make every stage block on the next and still
let packets queue up; three or four packets are enough for one in each stage,
for a flow's name to come late and for one more packet after its block. `engine`
has two fast paths below one load balancer, `legacy_engine` two load balancers
with a fast path each, which are the two ways packets can race; two of each add
no third, since a load balancer then uses one fast path only
(`OneFastPathEach`). For the queue, two threads on each side are the least that
can overtake one another between the notification and the lock. A table of two
with three flows evicts; two ticks against a timeout of one let a connection go
stale. Two days have one midnight; more repeat it. A save, a clear or a restart,
and a load make the round trip of the rules. In `RuleManager` the octets have
two values and ports four, so that a port of the file is cut. Counters that only
grow (`PushLimit`, `PacketLimit`, `MaxClock`, `ByteLimit`, `LastDay`,
`ChangeLimit`, `TaskLimit`, `MaxChanges`) are bounded by guards named for them;
the theorems hold for any value of them.

Deadlock is checked except where the system may stop: `LegacyEngine` (see below)
and `Dissector`, whose file ends.

Fairness is assumed in `engine`, `tsqueue` and `legacy_engine` only: weak
fairness of every thread's steps. In `engine` the main thread's sleep is exempt:
500 ms may be shorter or longer than anything the other threads do, so no step
of theirs may rest on its end. `Termination` asks that the sleep ends;
`SleepDrains` says that if it lasted, everything would be decided and written,
which only the bounded queues and the threads themselves can bring about. The
operating system schedules a thread that can run, every timed wait ends, and
`notify_one` or `notify_all` makes a thread able to run. `ItemsArePopped` and
`ShutdownReleases` hold although timeouts are not fair, so they rest on the
notifications alone. There is no fairness between the threads that compete for
one mutex beyond that.

### Disagreements the runs show

* `engine_drained`: "Wait for queues to drain" (`dpi_mt.cpp:517`) is a sleep of
  500 ms; the stop that follows abandons what is still queued. Such packets are
  in `total_packets` and neither forwarded nor dropped.
* `engine_netflix`: README.md:1033 and `main_dpi.cpp:38` list Netflix among the
  applications that can be blocked. `sniToAppType` seeks `x.com`, of Twitter/X,
  anywhere in the name (`types.cpp:110`) before it comes to Netflix, so
  `www.netflix.com` is Twitter/X. `www.microsoft.com` holds `t.co` and is
  mistaken too; the other fourteen sites of `generate_test_pcap.py:152-169` are
  recognised (`SitesRecognised` in `MCEngine`).
* `flow_cut`: README.md:854-856 promises that all later packets of a blocked
  flow are dropped. `processPacket` updates the TCP state (`fast_path.cpp:93`)
  before it looks for the block (`fast_path.cpp:97`), so a reset, or an
  acknowledged FIN, turns BLOCKED into CLOSED and the flow is classified anew.
* `quota_midnight`: README.md:1018 says the state file is reset at midnight. A
  run under way at midnight saves both days' bytes under the new date
  (`quota_manager.cpp:166`).
* `legacy_counts`: `per_fp_counts_` is sized from a vector that has just been
  moved from (`load_balancer.cpp:18-19`), so the first count is written out of
  bounds (`load_balancer.cpp:67`).

Seen while modelling, without a run of their own:

* `StopsIfOutputFits` has its premise because the output thread leaves when
  `running_` is cleared and its queue is empty for a moment
  (`dpi_engine.cpp:89`, `287`). A fast path that then fills the output queue
  (10000 packets) waits in `push` for ever, and `stop()` for the fast path.
* The load balancer and the fast path reduce the same hash (`dpi_mt.cpp:510`,
  `351`): with two of each, half the fast paths never get a packet
  (`OneFastPathEach`), against the even spread README.md:439 describes; the
  sample output at README.md:960-963 shows it. No packet is treated differently
  for it.
* README.md:447-453 has the SYN-ACK of a connection go to the fast path of its
  SYN. It carries the reversed five-tuple, hashes elsewhere and is another flow;
  `reverse()` (`types.h:33`) is used by `getConnection` only, which nothing
  calls. All properties are per direction.
* `dpi_mt.cpp` seeks names in UDP payloads too and takes an empty host for an
  answer (`dpi_mt.cpp:272-292`); `main_working.cpp` does neither (`187-213`).
  `SameNames` leaves such flows out of `SameAsSequential`.
* The pattern `yt3.ggpht` of YouTube is never reached (`types.cpp:73` takes the
  name for Google). The names are compared in lower case, but blocked domains
  as they are written (`dpi_mt.cpp:142`, `NamesUnder`).
* An engine of `dpi_engine.cpp` cannot process a second file: its queues stay
  shut down (`thread_safe_queue.h:26` then discards every packet). `main_dpi.cpp`
  processes one.
* `--lbs 0` divides by zero at the first packet (`dpi_mt.cpp:510`);
  `ShapeAssumption` leaves it out.
* A capture in the other byte order is written out with its own magic number
  before native fields and packet headers (`pcap_reader.cpp:38-43`).
* What the output thread leaves behind when it ends early is counted as
  forwarded and is not in the file: `ReportAgrees` says that they differ in this
  case only, by what is left in its queue.
* `sni_extractor.h:89` says "Extract Host header from HTTP request". The loop
  (`sni_extractor.cpp:168-174`) takes the text `host:` wherever it stands: in
  the path, or at the end of another header's name, as in `X-Forwarded-Host:`.
  If that comes before the Host header, the flow is given the wrong name.
  `NameRight` leaves out such requests and no others (`HostFirst`); `MCDissector`
  has some (`Forwarded`).
* A blocked name that begins with a bracket, such as `[::1]`, is saved as it is
  and read as a section header (`rule_manager.cpp:294`): it is lost, with the
  names after it. `RoundTrip` says what is left in this case.
* `limit_mb` is multiplied by 2^20 modulo 2^64: some limits become small or
  none. `QuotaAcrossRuns` is about the limit in force.
* An application that is left out of the rules for one run loses its usage of
  the day (`quota_manager.cpp:168`); `intact` in `UsageSurvivesRuns` says so.
* A pattern that is blocked or loaded twice survives one `unblockDomain`
  (`rule_manager.cpp:109`, `121-124`), and names that are not patterns are
  compared with their case (`rule_manager.cpp:156`).
* In the first engine the fallback by port marks a flow as classified
  (`fast_path.cpp:136-141`), so that a name in a later packet is not looked for;
  and a connection is established only if SYN and SYN+ACK come with the same
  five-tuple, which is that of one direction.

## 4. Proofs

Each `*_proof` module extends its component's module (`EngineRefinement_proof` is
the second one about `Engine`, beside `FlowChannel` and `SequentialEngine`). All
rest on the named assumptions about the constants in the component's module,
which TLC evaluates for every instance, and on nothing else. Every theorem holds
for any number of threads, size of queues and tables, hash, capture, rules and
length of run that those assumptions admit. Two of them are there for
`SequentialVerdicts` only: a packet with a transport header is not empty
(`SizeAssumption`; `dpi_mt.cpp` passes no other on), and the applications that
ports stand for differ from one another where the code tells them apart, with
UNKNOWN never the application of a name (`AppAssumption`; `sniToAppType` answers
HTTPS when it recognises nothing).

**Current engine** (`Engine_proof`; the last two rows `EngineRefinement_proof`)

| Theorem (property of a run) | Argument |
|---|---|
| `Routing`, `OneFastPathEach` | division with remainder and monotonic multiplication (`Blocks`); with equal moduli the second reduction of the hash is the first one again |
| `TypeCorrect` (`TypeOK`) | inductive; one lemma per thread kind, a step per action |
| `ConsumersOutliveProducers` (`ShutdownOrder`) | not inductive: it does not say how far `process()` has come. `StopInv` adds that the threads before `cursor` have left, those after it run with open queues, and that a thread leaves only after its flag was cleared |
| `QuotaNeverExceeded` (`QuotaRespected`) | `QuotaInv`: what was let through is part of the usage, and was within the limit when its last packet was let through |
| `PacketsAccounted` (`Accounting`) | `CountInv` says it stage by stage: what a stage has counted is what the next one has, plus the lengths of the queues between them, plus the threads that hold a packet there. `Sum` counts pairs, so that adding one to one counter adds one pair (`SumPlus`, `SumSame`) |
| `ReportMatchesFile` (`ForwardedIsWritten`) | `DoneInv`: once the writer was joined its queue is empty and its hands are, and nothing upstream can fill them again; with `CountInv` all that was forwarded is in the file |
| `FlowsInOrder` | `OrderInv`: a packet is only where the hash sends it (`RoutedInv`), every queue and the file are ordered (`SortedInv`), and of two packets of a flow the one that has come further is the earlier (`LineInv`). The seven stations of a packet (`At`) make the last one a single statement for all stages |
| `BlockedNamesSilence` (`BlockedFlowSilent`) | `SilentInv` follows each packet of a blocked application or name: while it waits for its verdict the flow is not classified, afterwards the flow is blocked, and what of the flow is past the verdict is earlier |
| `OvershootBounded` (`UsageOvershoot`) | `OverInv`: each packet that crosses the limit cuts a flow that was not cut before, so the largest packet times the number of cut flows bounds what lies beyond; that there is a largest packet follows from a capture being finite |
| `EngineIsFlowChannel` (`ImplementsFlowChannel`) | step by step, on `OrderInv` and `SilentInv`. `OfFlow` is what of a sequence belongs to a flow; the lemmas say what it is of an empty sequence, after `Append`, and that equal members in equal order make it equal (`Chain`) |
| `SequentialVerdicts` (`SameAsSequential`) | `SameInv`, on `OrderInv` and `QuotaInv`. A verdict is always on the earliest packet of its flow that waits for one (`InspectIs`), so what a fast path has seen of a flow is the flow up to some packet n (`JudgedInv`), and what it knows of it is what the loop knows after n (`AgreeInv`), except that the engine's guess by port leaves the search for a name open in a field of its own (`Agrees`), and that a quota may have cut the flow (`Alike`). Then what is past the verdict is a gapless part of what the loop lets through (`PastInv`), and two ordered sequences of which one leaves nothing out before what it has are a prefix and a whole (`IncreasingPrefix`); the counters are cardinalities of the same sets (`TallyInv`, `StatsAre`, `NamesAre`) |

**First engine** (`LegacyEngine_proof`)

| Theorem (property of a run) | Argument |
|---|---|
| `TypeCorrect` (`TypeOK`) | inductive; the table of each fast path by the operators of `FlowTracker` |
| `StagesInOrder` (`StageOrder`) | `StopInv`, as above, without the output thread: it runs on the engine's flag and may have left |
| `FlowsInOrder` (`FlowOrder`) | `OrderInv`, as above |
| `CutsHold` (`CutUntilClosed`) | `CutInv` on top of `OrderInv`: the last packet a fast path has decided of a flow is the latest one decided (`JudgedInv`), a connection is in the table its hash leads to (`EntryInv`), and a flow that was cut is BLOCKED there unless a packet that closes it was decided since (tables have room for every flow, so nothing is evicted) |
| `PacketsAccounted` (`Accounting`) | `CountInv`, as above |
| `ReportAddsUp` (`ReportAgrees`) | every fast path has left with empty hands when the report is printed, so by `CountInv` what was forwarded is in the file or in the output queue; `LeftInv`: an output thread that did not leave early left that queue empty, and nobody fills it again; by `EntryInv` a connection is only in the table its hash leads to, so the tables are disjoint |

**The other components**

| Theorem (property of a run) | Argument |
|---|---|
| `TSQueue_proof!TypeCorrect` (`TypeOK`), `NoLostWakeup` (`ProducersWoken`), `NoItemForgotten` (`ConsumersWoken`) | the three are inductive together (`Inv`); the lemmas count how a critical section moves threads between the sleeping, the woken and the idle |
| `TSQueue_proof!QueueImplementsFifo` (`ImplementsFifo`) | a push that gets through is `Accept`, a pop that returns an item `Give`, all waits are stutters |
| `FlowTracker_proof!TypeCorrect` (`TypeOK`) | the table never exceeds `max_connections_`: a lookup evicts before it inserts |
| `FlowTracker_proof!CutFlowLeaksOnlyByReset` (`LeakNeedsReset`) | `CutInv`: a cut flow that has an entry is BLOCKED in it; only a packet that closes it changes that |
| `FlowTracker_proof!SteadyRulesObeyed` (`ForwardedIsAllowed`) | `AskedInv`: of the kinds whose locks are behind the check (`Passed`), no rule that has been in force since the packet came matches it; the entry does not change while the check goes on |
| `FlowTracker_proof!RecentKept` (`RecentFlowsKept`) | `RecentInv`: the age of an entry is that of the flow's latest packet, and a closed entry is that of a flow left closed. So the oldest entry of a full table has as many others, as young or younger, as the table holds once the new flow is in; these stay as recent, in the table or out of it |
| `FlowTracker_proof!IdentitySurvives` (`IdentityKept`) | `NamedInv`: an entry with a name is CLASSIFIED, BLOCKED or CLOSED, so no payload of it is looked at again before it is closed |
| `RuleManager_proof!TypeCorrect` (`TypeOK`), `AnswersJustified` (`VerdictJustified`), `ReasonMostSpecific` (`MostSpecificReason`), `SavedRulesLoad` (`RoundTrip`) | one inductive invariant `IInv` for the four. `CheckInv`: the kinds a check has passed over did not match at that moment, so they are not in `always`, and those in `always` have matched since the check began. `SavedInv`: while no change has come in between, the sections written are those of the rules as they were when the save began. `LoadInv`: in a load into empty rules, what has been loaded and what is still to come make up what was saved, but for names that a bracketed one has swallowed (`NamesLeft`). `FewNames`: the exact names are finitely many, so they can be listed in the file |
| `QuotaManager_proof!TypeCorrect` (`TypeOK`) | inductive |
| `QuotaManager_proof!UsageNotForgotten` (`UsageSurvivesRuns`) | `SurviveInv` says where the usage is in each phase: with the run, in the file, or both |
| `QuotaManager_proof!QuotaHoldsOverTheDay` (`QuotaAcrossRuns`) | `PassInv`: what passed was charged, limits in force are at most the day's largest |
| `QuotaManager_proof!OtherDaysForgotten` (`ChargedOnlyToday`) | inductive with `TypeOK`: the day of the file or of the run is the day whose bytes it counts |
| `Dissector_proof!NoReadBeyondPacket` (`ReadsWithin`) | `IInv` says at each `pc` how `offset`, `cur` and `end` lie to the length of the packet: `TypeInv`, `ParsedInv` (what the parser has found of the headers), `JobInv` (the payload begins where the parser has stopped, also in the engines' own arithmetic) and `EndInv` |
| `Dissector_proof!OffsetsAgree` | the same invariant: either engine's `Transport` of a packet that was passed on is the parser's `offset`, and `Payload` is what is left |
| `Dissector_proof!PacketsDispatched` (`Dispatched`) | `ReadInv`: the records that were read are sound, and the packet at hand is the last of them; `SeenInv`: what each layer has found makes the packet `Inspectable`, and each way out shows that it is not (`ParseSees`); `SentInv`: of the records that are dealt with, exactly the inspectable ones have a job, in their order |
| `Dissector_proof!NamesRight` (`NameRight`) | `NameInv`, on top of these, says for each kind of packet where what was read so far must have led the extractors: to the next place of the path (`Leads`; or the packet is short, and the other extractors do not take it for theirs), to nothing before the header for the host (`Asks`), past the first m labels (`Spells`), or nowhere (`Finds`). Requests that say `host:` earlier are exempt (`Exempt`). One lemma per kind (`HelloLeads`, `RequestAsks`, `QuerySpells`, `NothingFinds`), one step per extractor and field. The end of an extensions list and of a header's value need care: the loop stops at whichever comes first of what the field says and where the packet ends |

Induction over data is out of the prover's reach as the library states it; where
the argument needs it (`OfFlow`, the search of `Dissector` for a terminator, the
lines of a rules file) it is done by the least counterexample: `LeastNumber`
proves, from the well-founded order of finite sets by inclusion, that every
non-empty set of naturals has a least element. For the same reason these
operators are recursive functions, and what a counter is the sum of is `Sum`, a
cardinality.

Only model-checked:

* The table of `AppTypes` (`NamesAsComputed`, `SitesRecognised`): it is evaluated,
  for the names of the instances.
* Liveness (`Termination`, `SleepDrains`, `ShutdownReleases`, `ItemsArePopped`,
  `StopsIfOutputFits`) and what rests on `ENABLED`: outside the prover's reach.

## 5. Not modelled

* The QUIC extractor (`sni_extractor.cpp:280`): nothing calls it.
* Reports, logging and command lines: formatting. What the sums of the report
  must agree on is `ReportAgrees`, `Accounting` and `SameAsSequential`.
* `main_simple.cpp` and `main.cpp`: they print each packet and keep nothing.
* The arithmetic of the hash: a function of the five-tuple is all the properties
  need, and they hold for any.
* `closeConnection`, `clear`, `getConnection` and the global connection table:
  read-only or called by nothing.
* The bytes of an output record and the file errors of the writer, which the code
  does not look at.
* Memory order of the counters: they are atomics that are read after the threads
  were joined. The text of the JSON and rules files, beyond what loading makes of
  it.

## 6. Plan

Done, in this order: `Engine` with its instances and proofs; `TSQueue` and
`BoundedFifo`; `FlowChannel`; `QuotaManager`; `FlowTracker`; `LegacyEngine`;
`RuleManager`; `Dissector`; `AppTypes`; `SequentialEngine` with `SameVerdicts`;
`LegacyEngine` composed with `FlowTracker`.

Proved since: every safety invariant and action property of the passing runs, the
refinements of `FlowChannel` and `BoundedFifo`, and that the threads decide as
the single-threaded program does. `Payloads` came last, so that what is to be
found in a packet is told by its bytes, for any file.

What could follow: a run for the text `host:` before the header of a request,
which gives the wrong name. The other hazards without a property (a hash reduced
twice, a pattern blocked twice, what a crash or a run without a limit does to the
day's usage, the hang of a full output queue) are observations about the code,
and nothing in the repository promises otherwise. The liveness properties stay
with the runs.
