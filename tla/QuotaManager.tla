----------------------------- MODULE QuotaManager -----------------------------
(***************************************************************************)
(* The daily quotas over several runs of the program                       *)
(* (src/src/quota_manager.cpp, and its use in src/src/dpi_mt.cpp): a run   *)
(* loads the limits and the state file, charges packets, and saves the     *)
(* state file when it ends.  The day may change, and the program may stop, *)
(* at any point.                                                           *)
(*                                                                         *)
(* A state file that is cut short lacks the closing braces loadState looks *)
(* for, so it restores nothing: it is like a missing one.  Within a run    *)
(* every access to the usage is one critical section of mutex_.            *)
(***************************************************************************)
EXTENDS Integers

CONSTANTS
    Apps,        \* the applications packets are charged to
    RuleFiles,   \* rules files: app -> limit_mb as it is written there
    Word,        \* 2^64: the number of values of uint64_t
    Megabyte,    \* 1024 * 1024
    Sizes,       \* sizes of packets
    LastDay, ByteLimit  \* bounds: days, and bytes charged to an app in a day

ASSUME QuotaAssumption ==
    /\ Word \in Nat \ {0}
    /\ Megabyte \in Nat \ {0}
    /\ Sizes \subseteq Nat
    /\ LastDay \in Nat
    /\ \A r \in RuleFiles :
           DOMAIN r \subseteq Apps /\ r \in [DOMAIN r -> Nat]

VARIABLES
    file,     \* quota_state.json: its date and usage_bytes
    day,      \* the local date
    phase,    \* no process, a run, or a run inside saveState
    limits,   \* limits_, empty if there is none
    usage,    \* usage_
    today,    \* history: bytes charged to each app since midnight
    passed,   \* history: those of them that were let through
    top,      \* history: the largest limit in force since midnight
    intact,   \* history: no usage of the app was lost since midnight
    spanned   \* history: a run, or what it saved, has seen a midnight

stateVars == <<limits, usage>>
historyVars == <<today, passed, top, intact, spanned>>
vars == <<file, day, phase, stateVars, historyVars>>

NoDate == -1  \* the date of a missing, truncated or malformed file
None == [a \in {} |-> 0]
NoFile == [date |-> NoDate, usage |-> None]
Maximum(m, n) == IF m >= n THEN m ELSE n

-----------------------------------------------------------------------------
(* loadRules and loadState *)

\* safeUint64: what stoull rejects is read as 0.
Parsed(n) == IF n < Word THEN n ELSE 0

\* An entry without a limit is skipped; the product wraps around.
Limited(r) == {a \in DOMAIN r : Parsed(r[a]) > 0}
Limits(r) == [a \in Limited(r) |-> (Parsed(r[a]) * Megabyte) % Word]

AlwaysToday(d) == d # NoDate  \* mutant: yesterday's file is taken as well
NeverToday(d) == d > day      \* mutant: the comparison is turned round
IsToday(d) == d = day

\* Every app of the state file is restored, or only those with a limit.
RestoredAll(r) ==  \* mutant: usage_.count(app) is not asked
    [a \in Limited(r) \cup DOMAIN file.usage |->
        IF a \in DOMAIN file.usage THEN file.usage[a] ELSE 0]
Restored(r) ==
    [a \in Limited(r) |->
        IF a \in DOMAIN file.usage THEN file.usage[a] ELSE 0]

Loaded(r) ==
    IF IsToday(file.date) THEN Restored(r) ELSE [a \in Limited(r) |-> 0]

\* process() up to the first packet.  Without a valid limit the feature is
\* off and the state file is neither read nor written.
StartRun(r) ==
    /\ phase = "down"
    /\ phase' = "run"
    /\ limits' = Limits(r)
    /\ usage' = IF Limited(r) = {} THEN None ELSE Loaded(r)
    /\ top' = [a \in Apps |-> IF a \in Limited(r)
                              THEN Maximum(top[a], Limits(r)[a]) ELSE top[a]]
    /\ UNCHANGED <<file, day, today, passed, intact, spanned>>

-----------------------------------------------------------------------------
(* recordAndCheck *)

ExceededBefore(a, bytes) == usage[a] > limits[a]  \* mutant
Exceeded(a, bytes) == usage[a] + bytes > limits[a]

Record(a, bytes) ==
    /\ phase = "run"
    /\ a \in DOMAIN limits
    /\ today[a] + bytes <= ByteLimit
    /\ usage' = [usage EXCEPT ![a] = @ + bytes]
    /\ today' = [today EXCEPT ![a] = @ + bytes]
    /\ passed' = IF Exceeded(a, bytes) THEN passed
                 ELSE [passed EXCEPT ![a] = @ + bytes]
    /\ UNCHANGED <<file, day, phase, limits, top, intact, spanned>>

-----------------------------------------------------------------------------
(* saveState, and the ways a run ends *)

\* Without quotas, or if the file cannot be opened, the run just ends.
EndWithoutQuotas ==
    /\ phase = "run"
    /\ limits = None
    /\ phase' = "down"
    /\ UNCHANGED <<file, day, stateVars, historyVars>>

SaveFails ==
    /\ phase = "run"
    /\ limits # None
    /\ phase' = "down"
    /\ intact' = [a \in Apps |-> FALSE]
    /\ UNCHANGED <<file, day, stateVars, today, passed, top, spanned>>

\* Opening the file for writing empties it.
SaveOpen ==
    /\ phase = "run"
    /\ limits # None
    /\ phase' = "save"
    /\ file' = NoFile
    /\ UNCHANGED <<day, stateVars, historyVars>>

\* The date is the one at the end of the run.  An app without a limit in
\* this run is not written, so what earlier runs charged to it is lost.
SaveWrite ==
    /\ phase = "save"
    /\ phase' = "down"
    /\ file' = [date |-> day, usage |-> usage]
    /\ intact' = [a \in Apps |-> intact[a] /\ a \in DOMAIN usage]
    /\ UNCHANGED <<day, stateVars, today, passed, top, spanned>>

\* The process is killed, or the machine stops.
Crash ==
    /\ phase # "down"
    /\ phase' = "down"
    /\ intact' = [a \in Apps |-> FALSE]
    /\ UNCHANGED <<file, day, stateVars, today, passed, top, spanned>>

-----------------------------------------------------------------------------
(* A new day begins; the quantities that are counted per day start again.  *)

Midnight ==
    /\ day < LastDay
    /\ day' = day + 1
    /\ today' = [a \in Apps |-> 0]
    /\ passed' = [a \in Apps |-> 0]
    /\ top' = [a \in Apps |-> IF phase # "down" /\ a \in DOMAIN limits
                              THEN limits[a] ELSE 0]
    /\ intact' = [a \in Apps |-> TRUE]
    /\ spanned' = (phase # "down")
    /\ UNCHANGED <<file, phase, stateVars>>

Init ==
    /\ file = NoFile
    /\ day = 0
    /\ phase = "down"
    /\ limits = None
    /\ usage = None
    /\ today = [a \in Apps |-> 0]
    /\ passed = [a \in Apps |-> 0]
    /\ top = [a \in Apps |-> 0]
    /\ intact = [a \in Apps |-> TRUE]
    /\ spanned = FALSE

EndRun == EndWithoutQuotas \/ SaveFails \/ SaveOpen \/ SaveWrite \/ Crash

Next ==
    \/ \E r \in RuleFiles : StartRun(r)
    \/ \E a \in Apps, bytes \in Sizes : Record(a, bytes)
    \/ EndRun
    \/ Midnight

Spec == Init /\ [][Next]_vars

-----------------------------------------------------------------------------
(* Properties. *)

\* A run keeps a usage for exactly the apps it has a limit for, and the
\* limits are 64-bit numbers.
TypeOK ==
    /\ DOMAIN file = {"date", "usage"}
    /\ file.date \in Nat \cup {NoDate}
    /\ file.date <= day
    /\ DOMAIN file.usage \subseteq Apps
    /\ file.usage \in [DOMAIN file.usage -> Nat]
    /\ day \in 0 .. LastDay
    /\ phase \in {"down", "run", "save"}
    /\ DOMAIN limits \subseteq Apps
    /\ limits \in [DOMAIN limits -> 0 .. Word - 1]
    /\ usage \in [DOMAIN limits -> Nat]
    /\ today \in [Apps -> Nat]
    /\ passed \in [Apps -> Nat]
    /\ top \in [Apps -> Nat]
    /\ intact \in [Apps -> BOOLEAN]
    /\ spanned \in BOOLEAN

\* README.md:1000, "Usage survives across multiple runs": as long as no run
\* was killed, failed to save or ran without a limit for the app, every byte
\* charged to an app since midnight, by any run, is known to the current run
\* or to the state file.
UsageSurvivesRuns ==
    \A a \in Apps : intact[a] /\ today[a] > 0 =>
        IF phase = "down"
        THEN /\ file.date = day
             /\ a \in DOMAIN file.usage
             /\ file.usage[a] >= today[a]
        ELSE a \in DOMAIN usage => usage[a] >= today[a]

\* Over all the runs of a day, and however they are split, an app whose
\* usage was not lost is let through no more than the largest limit it had.
QuotaAcrossRuns ==
    \A a \in Apps : intact[a] => passed[a] <= top[a]

\* A run charges an app only with bytes of the same day, and so does a later
\* run that loads what was saved, unless a run has been caught by midnight.
ChargedOnlyToday ==
    ~spanned =>
        /\ phase # "down" =>
               \A a \in DOMAIN usage : usage[a] <= today[a]
        /\ file.date = day =>
               \A a \in DOMAIN file.usage : file.usage[a] <= today[a]

\* README.md:1018, quota_state.json "tracks bytes used today; auto-resets at
\* midnight": a state file dated today counts only today's bytes.
StateFileIsToday ==
    file.date = day =>
        \A a \in DOMAIN file.usage : file.usage[a] <= today[a]
=============================================================================
