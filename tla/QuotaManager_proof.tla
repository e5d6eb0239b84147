-------------------------- MODULE QuotaManager_proof --------------------------
(***************************************************************************)
(* Theorems about the daily quotas.                                        *)
(***************************************************************************)
EXTENDS QuotaManager, TLAPS

\* What loadRules makes of a file are limits of a word.
LEMMA LimitsType ==
    ASSUME NEW r \in RuleFiles
    PROVE  /\ Limited(r) \subseteq Apps
           /\ Limits(r) \in [Limited(r) -> 0 .. Word - 1]
<1>1. \A a \in Limited(r) : a \in DOMAIN r /\ r[a] \in Nat
  BY QuotaAssumption DEF Limited
<1>2. \A n \in Nat : Parsed(n) * Megabyte \in Nat
  BY QuotaAssumption DEF Parsed
<1>3. \A n \in Nat : n % Word \in 0 .. Word - 1
  BY QuotaAssumption
<1>4. \A a \in Limited(r) :
         (Parsed(r[a]) * Megabyte) % Word \in 0 .. Word - 1
  BY <1>1, <1>2, <1>3
<1>. QED
  BY <1>4, QuotaAssumption DEF Limits, Limited

\* A run starts with a usage for each app it has a limit for.
LEMMA LoadedType ==
    ASSUME TypeOK, NEW r \in RuleFiles
    PROVE  Loaded(r) \in [Limited(r) -> Nat]
<1>. QED
  BY DEF Loaded, Restored, TypeOK

\* The types hold before the first run.
LEMMA TypeInit == Init => TypeOK
<1>. SUFFICES ASSUME Init PROVE TypeOK
  OBVIOUS
<1>1. DOMAIN None = {} /\ \A S : None \in [DOMAIN None -> S]
  BY DEF None
<1>2. /\ DOMAIN file = {"date", "usage"}
      /\ file.date = NoDate
      /\ file.usage = None
  BY DEF Init, NoFile
<1>3. NoDate <= 0
  BY DEF NoDate
<1>. HIDE DEF None
<1>4. /\ DOMAIN file.usage \subseteq Apps
      /\ file.usage \in [DOMAIN file.usage -> Nat]
      /\ DOMAIN limits \subseteq Apps
      /\ limits \in [DOMAIN limits -> 0 .. Word - 1]
      /\ usage \in [DOMAIN limits -> Nat]
  BY <1>1, <1>2 DEF Init
<1>5. /\ day = 0 /\ day \in 0 .. LastDay
      /\ phase \in {"down", "run", "save"}
      /\ today \in [Apps -> Nat]
      /\ passed \in [Apps -> Nat]
      /\ top \in [Apps -> Nat]
  BY QuotaAssumption DEF Init
<1>6. intact \in [Apps -> BOOLEAN] /\ spanned \in BOOLEAN
  BY DEF Init
<1>7. file.date \in Nat \cup {NoDate} /\ file.date <= day
  BY <1>2, <1>3, <1>5
<1>. QED
  BY <1>2, <1>4, <1>5, <1>6, <1>7 DEF TypeOK

\* TypeOK is inductive.
LEMMA TypeStep == TypeOK /\ [Next]_vars => TypeOK'
<1>. SUFFICES ASSUME TypeOK, [Next]_vars PROVE TypeOK'
  OBVIOUS
<1>. USE QuotaAssumption DEF TypeOK
<1>1. ASSUME NEW r \in RuleFiles, StartRun(r) PROVE TypeOK'
  <2>1. /\ limits' = Limits(r)
        /\ usage' = IF Limited(r) = {} THEN None ELSE Loaded(r)
        /\ top' = [a \in Apps |-> IF a \in Limited(r)
                                  THEN Maximum(top[a], Limits(r)[a])
                                  ELSE top[a]]
        /\ phase' = "run"
        /\ UNCHANGED <<file, day, today, passed, intact, spanned>>
    BY <1>1 DEF StartRun
  <2>2. /\ DOMAIN limits' \subseteq Apps
        /\ limits' \in [DOMAIN limits' -> 0 .. Word - 1]
        /\ DOMAIN limits' = Limited(r)
    BY <2>1, LimitsType
  <2>3. usage' \in [DOMAIN limits' -> Nat]
    <3>1. CASE Limited(r) = {}
      BY <2>1, <2>2, <3>1 DEF None
    <3>2. CASE Limited(r) # {}
      BY <2>1, <2>2, <3>2, LoadedType
    <3>. QED
      BY <3>1, <3>2
  <2>4. \A a \in Limited(r) : Limits(r)[a] \in Nat
    BY LimitsType
  <2>5. top' \in [Apps -> Nat]
    BY <2>1, <2>4 DEF Maximum
  <2>. QED
    BY <2>1, <2>2, <2>3, <2>5
<1>2. ASSUME NEW a \in Apps, NEW bytes \in Sizes, Record(a, bytes)
      PROVE  TypeOK'
  <2>1. bytes \in Nat /\ a \in DOMAIN limits
    BY <1>2 DEF Record
  <2>2. /\ usage' = [usage EXCEPT ![a] = @ + bytes]
        /\ today' = [today EXCEPT ![a] = @ + bytes]
        /\ passed' = IF Exceeded(a, bytes) THEN passed
                     ELSE [passed EXCEPT ![a] = @ + bytes]
        /\ UNCHANGED <<file, day, phase, limits, top, intact, spanned>>
    BY <1>2 DEF Record
  <2>3. /\ usage' \in [DOMAIN limits -> Nat]
        /\ today' \in [Apps -> Nat]
        /\ passed' \in [Apps -> Nat]
    BY <2>1, <2>2
  <2>. QED
    BY <2>2, <2>3
<1>3. CASE EndRun
  <2>1. CASE SaveOpen
    BY <2>1 DEF SaveOpen, stateVars, historyVars, NoFile, NoDate, None
  <2>2. CASE SaveWrite
    BY <2>2 DEF SaveWrite, stateVars
  <2>3. CASE EndWithoutQuotas \/ SaveFails \/ Crash
    BY <2>3 DEF EndWithoutQuotas, SaveFails, Crash, stateVars, historyVars
  <2>. QED
    BY <1>3, <2>1, <2>2, <2>3 DEF EndRun
<1>4. CASE Midnight
  <2>1. /\ top' = [a \in Apps |-> IF phase # "down" /\ a \in DOMAIN limits
                                  THEN limits[a] ELSE 0]
        /\ today' = [a \in Apps |-> 0]
        /\ passed' = [a \in Apps |-> 0]
        /\ intact' = [a \in Apps |-> TRUE]
        /\ spanned' = (phase # "down")
        /\ UNCHANGED <<file, phase, limits, usage>>
    BY <1>4 DEF Midnight, stateVars
  <2>2. top' \in [Apps -> Nat]
    BY <2>1
  <2>3. day' \in 0 .. LastDay /\ file'.date <= day'
    <3>1. day < LastDay /\ day' = day + 1 /\ day \in 0 .. LastDay
      BY <1>4 DEF Midnight
    <3>2. file.date \in Int /\ file.date <= day
      BY DEF NoDate
    <3>. QED
      BY <2>1, <3>1, <3>2
  <2>. QED
    BY <2>1, <2>2, <2>3
<1>5. CASE UNCHANGED vars
  BY <1>5 DEF vars, stateVars, historyVars
<1>. QED
  BY <1>1, <1>2, <1>3, <1>4, <1>5 DEF Next

\* For every word size, rules file and history of runs, days and crashes,
\* limits are words and a run's usage covers exactly its limits.
THEOREM TypeCorrect == Spec => []TypeOK
<1>. QED
  BY TypeInit, TypeStep, PTL DEF Spec

-----------------------------------------------------------------------------
(* Usage survives the runs of a day. *)

\* The file knows all bytes of app a of this day.
Saved(a) ==
    file.date = day /\ a \in DOMAIN file.usage /\ file.usage[a] >= today[a]

\* The strengthening: a run that has no limit for an app leaves the file as
\* it was, so that it still knows the app's bytes.
SurviveInv ==
    \A a \in Apps : intact[a] /\ today[a] > 0 =>
        /\ phase # "down" /\ a \in DOMAIN usage => usage[a] >= today[a]
        /\ phase = "down" \/ (phase = "run" /\ a \notin DOMAIN usage)
               => Saved(a)

\* SurviveInv is inductive.
LEMMA SurviveStep == TypeOK /\ SurviveInv /\ [Next]_vars => SurviveInv'
<1>. SUFFICES ASSUME TypeOK, SurviveInv, [Next]_vars PROVE SurviveInv'
  OBVIOUS
<1>1. ASSUME NEW r \in RuleFiles, StartRun(r) PROVE SurviveInv'
  <2>1. /\ phase = "down" /\ phase' = "run"
        /\ usage' = IF Limited(r) = {} THEN None ELSE Loaded(r)
        /\ UNCHANGED <<file, day, today, intact>>
    BY <1>1 DEF StartRun
  <2>2. ASSUME NEW a \in Apps, intact'[a], today'[a] > 0
        PROVE  /\ a \in DOMAIN usage' => usage'[a] >= today'[a]
               /\ Saved(a)'
    <3>1. Saved(a)
      BY <2>1, <2>2 DEF SurviveInv
    <3>2. ASSUME a \in DOMAIN usage' PROVE usage'[a] = file.usage[a]
      BY <2>1, <3>1, <3>2 DEF Loaded, Restored, IsToday, None, Saved
    <3>. QED
      BY <2>1, <3>1, <3>2 DEF Saved
  <2>. QED
    BY <2>1, <2>2 DEF SurviveInv
<1>2. ASSUME NEW a \in Apps, NEW bytes \in Sizes, Record(a, bytes)
      PROVE  SurviveInv'
  <2>1. /\ phase = "run" /\ phase' = "run" /\ a \in DOMAIN usage
        /\ usage' = [usage EXCEPT ![a] = @ + bytes]
        /\ today' = [today EXCEPT ![a] = @ + bytes]
        /\ UNCHANGED <<file, day, intact>>
        /\ bytes \in Nat
    BY <1>2, QuotaAssumption DEF Record, TypeOK
  <2>2. ASSUME NEW b \in Apps, intact'[b], today'[b] > 0
        PROVE  /\ b \in DOMAIN usage' => usage'[b] >= today'[b]
               /\ b \notin DOMAIN usage' => Saved(b)'
    <3>1. CASE b = a
      <4>1. /\ usage'[a] = usage[a] + bytes
            /\ today'[a] = today[a] + bytes
            /\ usage[a] \in Nat /\ today[a] \in Nat
        BY <2>1 DEF TypeOK
      <4>2. usage[a] >= today[a]
        BY <2>1, <2>2, <3>1, <4>1 DEF SurviveInv
      <4>. QED
        BY <2>1, <3>1, <4>1, <4>2
    <3>2. CASE b # a
      <4>1. today'[b] = today[b] /\ DOMAIN usage' = DOMAIN usage
            /\ (b \in DOMAIN usage => usage'[b] = usage[b])
        BY <2>1, <3>2 DEF TypeOK
      <4>. QED
        BY <2>1, <2>2, <3>2, <4>1 DEF SurviveInv, Saved
    <3>. QED
      BY <3>1, <3>2
  <2>. QED
    BY <2>1, <2>2 DEF SurviveInv
<1>3. CASE EndWithoutQuotas
  <2>1. DOMAIN usage = {}
    BY <1>3 DEF EndWithoutQuotas, None, TypeOK
  <2>. QED
    BY <1>3, <2>1 DEF EndWithoutQuotas, stateVars, historyVars, SurviveInv,
                      Saved
<1>4. CASE SaveFails \/ Crash
  BY <1>4 DEF SaveFails, Crash, SurviveInv
<1>5. CASE SaveOpen
  BY <1>5 DEF SaveOpen, stateVars, historyVars, SurviveInv
<1>6. CASE SaveWrite
  <2>1. /\ phase = "save" /\ phase' = "down"
        /\ file' = [date |-> day, usage |-> usage]
        /\ intact' = [a \in Apps |-> intact[a] /\ a \in DOMAIN usage]
        /\ UNCHANGED <<day, usage, today>>
    BY <1>6 DEF SaveWrite, stateVars
  <2>2. ASSUME NEW a \in Apps, intact'[a], today'[a] > 0 PROVE Saved(a)'
    <3>1. intact[a] /\ a \in DOMAIN usage /\ usage[a] >= today[a]
      BY <2>1, <2>2 DEF SurviveInv
    <3>. QED
      BY <2>1, <3>1 DEF Saved
  <2>. QED
    BY <2>1, <2>2 DEF SurviveInv
<1>7. CASE Midnight
  BY <1>7 DEF Midnight, SurviveInv
<1>8. CASE UNCHANGED vars
  BY <1>8 DEF vars, stateVars, historyVars, SurviveInv, Saved
<1>. QED
  BY <1>1, <1>2, <1>3, <1>4, <1>5, <1>6, <1>7, <1>8 DEF Next, EndRun

\* Nothing was charged at the start.
LEMMA SurviveInit == Init => SurviveInv
  BY DEF Init, SurviveInv

\* However a day is split into runs, and whatever their rules, no byte that
\* was charged to an app is forgotten unless a run lost it.
THEOREM UsageNotForgotten == Spec => []UsageSurvivesRuns
<1>1. SurviveInv /\ TypeOK => UsageSurvivesRuns
  BY DEF SurviveInv, UsageSurvivesRuns, Saved, TypeOK
<1>. QED
  BY <1>1, SurviveInit, SurviveStep, TypeInit, TypeStep, PTL DEF Spec

-----------------------------------------------------------------------------
(* The quota holds over the runs of a day. *)

\* What is let through was charged, and the limits in force are below top.
PassInv ==
    /\ \A a \in Apps : passed[a] <= today[a]
    /\ phase # "down" =>
           \A a \in DOMAIN limits : limits[a] <= top[a]
    /\ QuotaAcrossRuns

\* PassInv is inductive.
LEMMA PassStep ==
    TypeOK /\ SurviveInv /\ PassInv /\ [Next]_vars => PassInv'
<1>. SUFFICES ASSUME TypeOK, SurviveInv, PassInv, [Next]_vars
              PROVE  PassInv'
  OBVIOUS
<1>1. ASSUME NEW r \in RuleFiles, StartRun(r) PROVE PassInv'
  <2>1. /\ limits' = Limits(r)
        /\ top' = [a \in Apps |-> IF a \in Limited(r)
                                  THEN Maximum(top[a], Limits(r)[a])
                                  ELSE top[a]]
        /\ UNCHANGED <<today, passed, intact>>
    BY <1>1 DEF StartRun
  <2>2. /\ DOMAIN limits' = Limited(r)
        /\ Limited(r) \subseteq Apps
        /\ \A a \in Limited(r) : Limits(r)[a] \in Nat
    BY <2>1, LimitsType, QuotaAssumption
  <2>3. \A a \in Apps : top'[a] >= top[a]
    BY <2>1, <2>2 DEF Maximum, TypeOK
  <2>4. \A a \in DOMAIN limits' : limits'[a] <= top'[a]
    BY <2>1, <2>2 DEF Maximum, TypeOK
  <2>5. \A a \in Apps :
           passed[a] \in Nat /\ top[a] \in Nat /\ top'[a] \in Nat
    BY <2>1, <2>2 DEF TypeOK, Maximum
  <2>6. \A a \in Apps : intact'[a] => passed'[a] <= top'[a]
    BY <2>1, <2>3, <2>5 DEF PassInv, QuotaAcrossRuns
  <2>. QED
    BY <2>1, <2>4, <2>6 DEF PassInv, QuotaAcrossRuns
<1>2. ASSUME NEW a \in Apps, NEW bytes \in Sizes, Record(a, bytes)
      PROVE  PassInv'
  <2>1. /\ phase = "run" /\ a \in DOMAIN limits
        /\ today' = [today EXCEPT ![a] = @ + bytes]
        /\ passed' = IF usage[a] + bytes > limits[a] THEN passed
                     ELSE [passed EXCEPT ![a] = @ + bytes]
        /\ UNCHANGED <<phase, limits, top, intact>>
        /\ bytes \in Nat
    BY <1>2, QuotaAssumption DEF Record, Exceeded
  <2>2. /\ usage[a] \in Nat /\ today[a] \in Nat /\ passed[a] \in Nat
        /\ limits[a] \in Nat /\ top[a] \in Nat
        /\ limits[a] <= top[a] /\ passed[a] <= today[a]
    BY <2>1, QuotaAssumption DEF TypeOK, PassInv
  <2>3. intact[a] => today[a] <= usage[a]
    <3>1. CASE today[a] > 0
      BY <2>1, <2>2, <3>1 DEF SurviveInv, TypeOK
    <3>2. CASE ~(today[a] > 0)
      BY <2>2, <3>2
    <3>. QED
      BY <3>1, <3>2
  <2>4. /\ passed'[a] <= today'[a]
        /\ intact[a] => passed'[a] <= top[a]
    <3>1. today'[a] = today[a] + bytes
      BY <2>1 DEF TypeOK
    <3>2. CASE usage[a] + bytes > limits[a]
      <4>1. passed'[a] = passed[a]
        BY <2>1, <3>2
      <4>2. intact[a] => passed[a] <= top[a]
        BY DEF PassInv, QuotaAcrossRuns
      <4>. QED
        BY <2>1, <2>2, <3>1, <4>1, <4>2
    <3>3. CASE ~(usage[a] + bytes > limits[a])
      <4>1. passed'[a] = passed[a] + bytes
        BY <2>1, <3>3 DEF TypeOK
      <4>. QED
        BY <2>1, <2>2, <2>3, <3>1, <3>3, <4>1
    <3>. QED
      BY <3>2, <3>3
  <2>5. ASSUME NEW b \in Apps, b # a
        PROVE  passed'[b] = passed[b] /\ today'[b] = today[b]
    BY <2>1, <2>5 DEF TypeOK
  <2>. QED
    BY <2>1, <2>4, <2>5 DEF PassInv, QuotaAcrossRuns
<1>3. CASE EndRun
  BY <1>3 DEF EndRun, EndWithoutQuotas, SaveFails, SaveOpen, SaveWrite, Crash,
              stateVars, historyVars, PassInv, QuotaAcrossRuns
<1>4. CASE Midnight
  <2>1. /\ today' = [a \in Apps |-> 0]
        /\ passed' = [a \in Apps |-> 0]
        /\ top' = [a \in Apps |-> IF phase # "down" /\ a \in DOMAIN limits
                                  THEN limits[a] ELSE 0]
        /\ UNCHANGED <<phase, limits>>
    BY <1>4 DEF Midnight, stateVars
  <2>2. \A a \in Apps : top'[a] \in Nat
    BY <2>1, QuotaAssumption DEF TypeOK
  <2>3. phase # "down" => \A a \in DOMAIN limits : limits[a] <= top'[a]
    BY <2>1, QuotaAssumption DEF TypeOK
  <2>. QED
    BY <2>1, <2>2, <2>3 DEF PassInv, QuotaAcrossRuns
<1>5. CASE UNCHANGED vars
  BY <1>5 DEF vars, stateVars, historyVars, PassInv, QuotaAcrossRuns
<1>. QED
  BY <1>1, <1>2, <1>3, <1>4, <1>5 DEF Next

\* For every set of rules files and every history of runs: as long as its
\* usage was not lost, an app is let through no more than its limit per day,
\* over all runs together.
THEOREM QuotaHoldsOverTheDay == Spec => []QuotaAcrossRuns
<1>1. Init => PassInv
  BY DEF Init, PassInv, QuotaAcrossRuns
<1>2. PassInv => QuotaAcrossRuns
  BY DEF PassInv
<1>. QED
  BY <1>1, <1>2, PassStep, SurviveInit, SurviveStep, TypeInit, TypeStep, PTL
  DEF Spec

-----------------------------------------------------------------------------
(* The bytes of one day are charged to that day. *)

\* ChargedOnlyToday is inductive together with TypeOK.
LEMMA TodayStep ==
    TypeOK /\ ChargedOnlyToday /\ [Next]_vars => ChargedOnlyToday'
<1>. SUFFICES ASSUME TypeOK, ChargedOnlyToday, [Next]_vars
              PROVE  ChargedOnlyToday'
  OBVIOUS
<1>. USE DEF ChargedOnlyToday
<1>1. ASSUME NEW r \in RuleFiles, StartRun(r) PROVE ChargedOnlyToday'
  <2>1. /\ usage' = IF Limited(r) = {} THEN None ELSE Loaded(r)
        /\ UNCHANGED <<file, day, today, spanned>>
    BY <1>1 DEF StartRun
  <2>2. Limited(r) \subseteq Apps
    BY LimitsType
  <2>3. ASSUME ~spanned, NEW a \in DOMAIN usage' PROVE usage'[a] <= today[a]
    <3>1. usage' = Loaded(r) /\ a \in Limited(r) /\ today[a] \in Nat
      BY <2>1, <2>2, <2>3 DEF None, TypeOK, Loaded, Restored
    <3>2. \/ usage'[a] = 0
          \/ file.date = day /\ a \in DOMAIN file.usage /\ usage'[a] = file.usage[a]
      BY <3>1 DEF Loaded, Restored, IsToday
    <3>. QED
      BY <2>3, <3>1, <3>2
  <2>. QED
    BY <2>1, <2>3
<1>2. ASSUME NEW a \in Apps, NEW bytes \in Sizes, Record(a, bytes)
      PROVE  ChargedOnlyToday'
  <2>1. /\ phase = "run" /\ a \in DOMAIN usage /\ bytes \in Nat
        /\ usage' = [usage EXCEPT ![a] = @ + bytes]
        /\ today' = [today EXCEPT ![a] = @ + bytes]
        /\ UNCHANGED <<file, day, phase, spanned>>
    BY <1>2, QuotaAssumption DEF Record, TypeOK
  <2>2. /\ usage \in [DOMAIN usage -> Nat] /\ today \in [Apps -> Nat]
        /\ DOMAIN usage \subseteq Apps /\ DOMAIN file.usage \subseteq Apps
        /\ file.usage \in [DOMAIN file.usage -> Nat]
    BY DEF TypeOK
  <2>3. \A b \in Apps : today[b] <= today'[b] /\ today'[b] \in Nat
    BY <2>1, <2>2
  <2>4. ASSUME ~spanned, NEW b \in DOMAIN usage PROVE usage'[b] <= today'[b]
    <3>1. usage[b] <= today[b] /\ usage[b] \in Nat /\ today[b] \in Nat
      BY <2>1, <2>2, <2>4
    <3>2. CASE b = a
      BY <2>1, <2>2, <3>1, <3>2
    <3>3. CASE b # a
      BY <2>1, <2>2, <3>1, <3>3
    <3>. QED
      BY <3>2, <3>3
  <2>5. ASSUME ~spanned, file.date = day, NEW b \in DOMAIN file.usage
        PROVE  file.usage[b] <= today'[b]
    <3>1. file.usage[b] <= today[b] /\ file.usage[b] \in Nat /\ b \in Apps
      BY <2>2, <2>5
    <3>. QED
      BY <2>2, <2>3, <3>1
  <2>. QED
    BY <2>1, <2>4, <2>5
<1>3. CASE SaveOpen
  BY <1>3 DEF SaveOpen, stateVars, historyVars, NoFile, None
<1>4. CASE SaveWrite
  BY <1>4 DEF SaveWrite, stateVars
<1>5. CASE EndWithoutQuotas \/ SaveFails \/ Crash
  BY <1>5 DEF EndWithoutQuotas, SaveFails, Crash, stateVars, historyVars
<1>6. CASE Midnight
  <2>1. /\ day' = day + 1 /\ spanned' = (phase # "down")
        /\ UNCHANGED <<file, phase>>
    BY <1>6 DEF Midnight
  <2>2. file.date # day + 1
    <3>1. file.date \in Int /\ day \in Int /\ file.date <= day
      BY QuotaAssumption DEF TypeOK, NoDate
    <3>. QED
      BY <3>1
  <2>. QED
    BY <2>1, <2>2
<1>7. CASE UNCHANGED vars
  BY <1>7 DEF vars, stateVars, historyVars
<1>. QED
  BY <1>1, <1>2, <1>3, <1>4, <1>5, <1>6, <1>7 DEF Next, EndRun

\* For every history of runs: unless a run was caught by midnight, no byte of
\* another day counts against today's quota, neither in the run nor in the
\* file the next run loads.
THEOREM OtherDaysForgotten == Spec => []ChargedOnlyToday
<1>1. Init => ChargedOnlyToday
  BY DEF Init, ChargedOnlyToday, NoFile, None
<1>. QED
  BY <1>1, TodayStep, TypeInit, TypeStep, PTL DEF Spec
=============================================================================
