---------------------------- MODULE GraceProofs -----------------------------
(***************************************************************************)
(* Theorems about one domain's tracker, for every value of its constants:  *)
(* any number of configs, any --max-failures, --samples and --interval.    *)
(***************************************************************************)
EXTENDS GraceProperties, SequenceTheorems, FiniteSetTheorems, TLAPS

-----------------------------------------------------------------------------
(* Types of the helpers                                                    *)

LEMMA NewsType ==
  ASSUME TypeOK, NEW c \in MaybeConfig, NEW seen, News(c, seen)
  PROVE  /\ c \in Configs
         /\ \A source \in Sources : Seen(source, c) \in Observation
  BY DEF TypeOK, News, MaybeConfig, Seen, Observation

LEMMA PollDNSType ==
  ASSUME TypeOK, NEW c \in MaybeConfig, pollDNS(c)
  PROVE  report' \in Report /\ observed' \in Seq(Observation)
<1>1. CASE News(c, report.dnsLastSeen)
  <2>. DEFINE first == IF report.dnsChanged = 0 THEN clock ELSE report.dnsChanged
              count == report.dnsRotations + 1
  <2>1. c \in Configs /\ Seen("dns", c) \in Observation
    BY <1>1, NewsType DEF Sources
  <2>2. /\ report.dnsChanged \in Nat
        /\ report.dnsRotations \in Nat
        /\ clock \in Nat
    BY DEF TypeOK, Report
  <2>3. first \in Nat /\ count \in Nat
    BY <2>2
  <2>4. report' = [report EXCEPT !.dnsLastSeen = c, !.dnsRotations = count,
                                 !.dnsChanged = first]
    BY <1>1 DEF pollDNS
  <2>5. report' \in Report
    <3>. HIDE DEF first, count
    <3>. QED  BY <2>1, <2>3, <2>4 DEF TypeOK, Report, MaybeConfig
  <2>6. observed' = Append(observed, Seen("dns", c))
    BY <1>1 DEF pollDNS
  <2>. QED  BY <2>1, <2>5, <2>6 DEF TypeOK
<1>2. CASE ~News(c, report.dnsLastSeen)
  BY <1>2 DEF pollDNS, TypeOK, views
<1>. QED  BY <1>1, <1>2

LEMMA RecordType ==
  ASSUME TypeOK, NEW c \in MaybeConfig, recordIfChanged(c)
  PROVE  report' \in Report /\ observed' \in Seq(Observation)
<1>1. CASE News(c, report.retryLastSeen)
  <2>. DEFINE first == IF report.retryChanged = 0 THEN clock ELSE report.retryChanged
              count == report.retryRotations + 1
  <2>1. c \in Configs /\ Seen("retry", c) \in Observation
    BY <1>1, NewsType DEF Sources
  <2>2. /\ report.retryChanged \in Nat
        /\ report.retryRotations \in Nat
        /\ clock \in Nat
    BY DEF TypeOK, Report
  <2>3. first \in Nat /\ count \in Nat
    BY <2>2
  <2>4. report' = [report EXCEPT !.retryLastSeen = c, !.retryRotations = count,
                                 !.retryChanged = first]
    BY <1>1 DEF recordIfChanged
  <2>5. report' \in Report
    <3>. HIDE DEF first, count
    <3>. QED  BY <2>1, <2>3, <2>4 DEF TypeOK, Report, MaybeConfig
  <2>6. observed' = Append(observed, Seen("retry", c))
    BY <1>1 DEF recordIfChanged
  <2>. QED  BY <2>1, <2>5, <2>6 DEF TypeOK
<1>2. CASE ~News(c, report.retryLastSeen)
  BY <1>2 DEF recordIfChanged, TypeOK, views
<1>. QED  BY <1>1, <1>2

LEMMA StreakTypes ==
  ASSUME TypeOK, NEW c \in MaybeConfig, NEW rejected \in BOOLEAN
  PROVE  /\ Lengthened(rejected) \in Streak
         /\ Logged([rejected |-> rejected, retry |-> c, at |-> clock]) \in Seq(Probe)
<1>1. /\ streak.failures \in Nat
      /\ streak.rejections \in Nat
      /\ streak.start \in Nat
      /\ clock \in Nat
  BY DEF TypeOK, Streak
<1>2. Lengthened(rejected) \in Streak
  BY <1>1 DEF Lengthened, Streak
<1>3. [rejected |-> rejected, retry |-> c, at |-> clock] \in Probe
  BY <1>1 DEF Probe
<1>4. Logged([rejected |-> rejected, retry |-> c, at |-> clock]) \in Seq(Probe)
  BY <1>3 DEF Logged, TypeOK
<1>. QED  BY <1>2, <1>4

LEMMA FreshTypes == NewReport \in Report /\ NoStreak \in Streak
  BY DEF NewReport, Report, MaybeConfig, NoStreak, Streak

LEMMA SummaryType == ASSUME TypeOK PROVE Summary(report) \in SummaryLine
<1>1. /\ report.retryChanged \in Nat /\ report.dnsChanged \in Nat
      /\ report.retryRotations \in Nat /\ report.dnsRotations \in Nat
      /\ report.firstSeen \in Nat
      /\ report.death \in Nat /\ report.declaredAt \in Nat
      /\ report.bootstrapOK \in BOOLEAN /\ report.alive \in BOOLEAN
      /\ report.repeatedConfig \in BOOLEAN
      /\ report.deathReason \in DeathReasons \cup {""}
      /\ sample \in Nat
  BY DEF TypeOK, Report
<1>2. rotation(report).at \in Nat /\ rotation(report).source \in Sources
  BY <1>1 DEF rotation, Sources
<1>. QED  BY <1>1, <1>2 DEF Summary, SummaryLine

-----------------------------------------------------------------------------
(* Type correctness                                                        *)

LEMMA TypeInit == Init => TypeOK
<1> SUFFICES ASSUME Init PROVE TypeOK
  OBVIOUS
<1>1. /\ pc \in Places /\ cancelled \in BOOLEAN /\ fired \in BOOLEAN
      /\ clock \in Nat /\ timer \in Nat /\ sample \in Nat /\ greaseFailures \in Nat
      /\ prev \in MaybeConfig /\ underTest \in MaybeConfig
  BY DEF Init, Places, MaybeConfig
<1>2. report \in Report /\ streak \in Streak
  BY FreshTypes DEF Init
<1>3. /\ greaseLog \in Seq(Configs) /\ observed \in Seq(Observation)
      /\ streakLog \in Seq(Probe) /\ summaries \in Seq(SummaryLine)
  BY DEF Init
<1>. QED  BY <1>1, <1>2, <1>3 DEF TypeOK

LEMMA TypeStep == TypeOK /\ [Next]_vars => TypeOK'
<1>. USE ConfigsAssumption, MaxFailuresAssumption, SamplesAssumption,
         IntervalAssumption, MaxTimeAssumption, MaxRotationsAssumption
     DEF ctx, ticker, boot, views, streaks
<1> SUFFICES ASSUME TypeOK, [Next]_vars PROVE TypeOK'
  OBVIOUS
<1>1. CASE StartSample
  BY <1>1, FreshTypes DEF StartSample, TypeOK, Places, Blocking, FreshReport
<1>2. CASE SamplesExhausted
  BY <1>2 DEF SamplesExhausted, TypeOK, Places, Blocking
<1>3. CASE BackoffElapsed
  BY <1>3 DEF BackoffElapsed, TypeOK, Places, Blocking, StopTimer
<1>4. CASE BackoffCancelled
  BY <1>4 DEF BackoffCancelled, TypeOK, Places, Blocking, StopTimer
<1>5. CASE BeginWatch
  <2>1. report' \in Report
    BY <1>5 DEF BeginWatch, TypeOK, Report
  <2>2. timer' \in Nat /\ fired' \in BOOLEAN /\ pc' \in Places
    BY <1>5 DEF BeginWatch, ArmTimer, Places, Blocking
  <2>3. streak' \in Streak /\ streakLog' \in Seq(Probe)
    BY <1>5, FreshTypes DEF BeginWatch
  <2>. QED  BY <1>5, <2>1, <2>2, <2>3 DEF BeginWatch, TypeOK
<1>6. CASE TickArrives
  BY <1>6 DEF TickArrives, TypeOK, Places, Blocking
<1>7. CASE ContextDone
  BY <1>7 DEF ContextDone, TypeOK, Places, Blocking, Report, StopTimer
<1>8. CASE CompareReturns
  BY <1>8 DEF CompareReturns, TypeOK, Places, Blocking
<1>9. CASE DeclareDeath
  BY <1>9 DEF DeclareDeath, TypeOK, Places, Blocking, Report, Streak, deathReason, DeathReasons, StopTimer
<1>10. CASE KeepWatching
  BY <1>10 DEF KeepWatching, TypeOK, Places, Blocking
<1>11. CASE WriteSummary
  BY <1>11, SummaryType DEF WriteSummary, TypeOK, Places, Blocking, JustDied
<1>12. CASE GreaseFails
  <2>1. timer' \in Nat /\ fired' \in BOOLEAN /\ pc' \in Places
    BY <1>12 DEF GreaseFails, ArmTimer, Places, Blocking, TypeOK
  <2>. QED  BY <1>12, <2>1 DEF GreaseFails, TypeOK
<1>13. CASE AttemptAccepted
  BY <1>13, FreshTypes DEF AttemptAccepted, TypeOK, Places, Blocking, ClearedStreak
<1>14. CASE AttemptFailed
  BY <1>14, StreakTypes DEF AttemptFailed, TypeOK, Places, Blocking, MaybeConfig
<1>15. CASE Cancel
  BY <1>15 DEF Cancel, TypeOK, Places, Blocking
<1>16. CASE TimePasses
  BY <1>16 DEF TimePasses, TypeOK, Places, Blocking
<1>17. CASE Terminated
  BY <1>17 DEF Terminated, vars, TypeOK
<1>18. ASSUME NEW c \in Configs, GreaseSucceeds(c) PROVE TypeOK'
  <2>1. (prev # NoConfig /\ prev = c) \in BOOLEAN /\ clock \in Nat
    BY DEF TypeOK
  <2>2. report' \in Report
    BY <1>18, <2>1 DEF GreaseSucceeds, TypeOK, Report, MaybeConfig
  <2>3. Seen("grease", c) \in Observation
    BY <2>1 DEF Seen, Observation, Sources
  <2>4. /\ observed' \in Seq(Observation) /\ greaseLog' \in Seq(Configs)
        /\ underTest' \in MaybeConfig
    BY <1>18, <2>3 DEF GreaseSucceeds, TypeOK, MaybeConfig
  <2>5. pc' \in Places
    BY <1>18 DEF GreaseSucceeds, Places, Blocking
  <2>. QED  BY <1>18, <2>2, <2>4, <2>5 DEF GreaseSucceeds, TypeOK
<1>19. ASSUME NEW c \in MaybeConfig, PollBaseline(c) PROVE TypeOK'
  BY <1>19, PollDNSType DEF PollBaseline, TypeOK, Places, Blocking
<1>20. ASSUME NEW c \in MaybeConfig, PollTick(c) PROVE TypeOK'
  BY <1>20, PollDNSType DEF PollTick, TypeOK, Places, Blocking
<1>21. ASSUME NEW c \in MaybeConfig, AttemptRejected(c) PROVE TypeOK'
  BY <1>21, RecordType, StreakTypes DEF AttemptRejected, TypeOK, Places, Blocking
<1>22. CASE UNCHANGED vars
  BY <1>22 DEF vars, TypeOK
<1>. QED
  BY <1>1, <1>2, <1>3, <1>4, <1>5, <1>6, <1>7, <1>8, <1>9, <1>10, <1>11, <1>12, <1>13, <1>14, <1>15, <1>16, <1>17, <1>18, <1>19, <1>20, <1>21, <1>22
     DEF Next, Internal, GreaseAnswers, DNSAnswers, ServerAnswers

\* Every variable keeps to its type, so no nil config list is ever tested or
\* recorded as an observation (bootstrap, pollDNS, recordIfChanged).
THEOREM TypeCorrect == Spec => []TypeOK
  BY TypeInit, TypeStep, PTL DEF Spec

-----------------------------------------------------------------------------
(* A death                                                                 *)

\* No death is on record while a sample is being bootstrapped or watched.
NotYetDeclared ==
    pc \in {"grease", "backoff", "baseline", "watch"} \cup Watched =>
        report.declaredAt = 0

\* Failures are logged at the time they happen.
LoggedInThePast == \A i \in DOMAIN streakLog : streakLog[i].at <= clock

\* FatalStreak and ReasonFitsStreak speak of the moment a death is declared.  What
\* makes them true are the counters, which StreakIsCounted follows through the
\* loop, and that a report is not touched between its death and the next sample.
DeathInv ==
    /\ TypeOK
    /\ StreakIsCounted
    /\ NotYetDeclared
    /\ LoggedInThePast
    /\ FatalStreak
    /\ ReasonFitsStreak

\* One more failed attempt, a rejection or not, keeps counters and log in step.
LEMMA FailureIsCounted ==
  ASSUME TypeOK, StreakIsCounted, LoggedInThePast, pc = "attempt",
         NEW rejected \in BOOLEAN, NEW c \in MaybeConfig,
         streak' = Lengthened(rejected),
         streakLog' = Logged([rejected |-> rejected, retry |-> c, at |-> clock]),
         pc' \in {"verdict", "compare"}, clock' = clock
  PROVE  StreakIsCounted' /\ LoggedInThePast'
<1>. DEFINE n == Len(streakLog)
            probe == [rejected |-> rejected, retry |-> c, at |-> clock]
<1>1. /\ streakLog \in Seq(Probe) /\ n \in Nat /\ DOMAIN streakLog = 1 .. n
      /\ MaxFailures \in Nat /\ clock \in Nat
  BY MaxFailuresAssumption DEF TypeOK
<1>2. /\ streak.failures = n /\ n < MaxFailures
      /\ streak.rejections \in Nat /\ streak.rejections <= n
      /\ streak.rejections = n <=> Rejections = 1 .. n
      /\ streak.rejections = 0 <=> Rejections = {}
      /\ n # 0 => streak.start = streakLog[1].at
  BY <1>1 DEF StreakIsCounted, Watched, TypeOK, Streak
<1>3. /\ streakLog' = Append(streakLog, probe)
      /\ Len(streakLog') = n + 1 /\ DOMAIN (streakLog') = 1 .. n + 1
      /\ streakLog'[n + 1] = probe
      /\ \A i \in 1 .. n : streakLog'[i] = streakLog[i]
  <2>1. streakLog' = Append(streakLog, probe)
    BY <1>1, <1>2 DEF Logged
  <2>2. probe \in Probe
    BY <1>1 DEF Probe
  <2>. QED  BY <1>1, <2>1, <2>2
<1>4. Rejections' = Rejections \cup (IF rejected THEN {n + 1} ELSE {})
  BY <1>1, <1>3 DEF Rejections
<1>5. Rejections \subseteq 1 .. n
  BY <1>1 DEF Rejections
<1>6. /\ streak'.failures = n + 1
      /\ streak'.rejections = streak.rejections + (IF rejected THEN 1 ELSE 0)
      /\ streak'.start = streakLog'[1].at
  BY <1>1, <1>2, <1>3 DEF Lengthened
<1>7. streak'.rejections = n + 1 <=> Rejections' = 1 .. n + 1
  <2>1. CASE rejected
    <3>1. /\ 1 .. n + 1 = (1 .. n) \cup {n + 1}
          /\ n + 1 \notin 1 .. n
          /\ n + 1 \notin Rejections
      BY <1>1, <1>5
    <3>2. Rejections' = 1 .. n + 1 <=> Rejections = 1 .. n
      BY <1>4, <2>1, <3>1
    <3>. QED  BY <1>1, <1>2, <1>6, <2>1, <3>2
  <2>2. CASE ~rejected
    <3>1. n + 1 \notin Rejections' /\ n + 1 \in 1 .. n + 1
      BY <1>1, <1>4, <1>5, <2>2
    <3>. QED  BY <1>1, <1>2, <1>6, <2>2, <3>1
  <2>. QED  BY <2>1, <2>2
<1>8. streak'.rejections = 0 <=> Rejections' = {}
  BY <1>1, <1>2, <1>4, <1>6
<1>9. StreakIsCounted'
  BY <1>1, <1>2, <1>3, <1>6, <1>7, <1>8 DEF StreakIsCounted
<1>10. LoggedInThePast'
  BY <1>1, <1>3 DEF LoggedInThePast
<1>. QED  BY <1>9, <1>10

LEMMA DeathInvInit == Init => DeathInv
<1> SUFFICES ASSUME Init PROVE DeathInv
  OBVIOUS
<1>1. TypeOK
  BY TypeInit
<1>2. StreakIsCounted /\ NotYetDeclared
  BY DEF Init, StreakIsCounted, Watched, NotYetDeclared
<1>3. LoggedInThePast
  BY DEF Init, LoggedInThePast
<1>4. FatalStreak /\ ReasonFitsStreak
  BY DEF Init, FatalStreak, ReasonFitsStreak, Died, NewReport
<1>. QED  BY <1>1, <1>2, <1>3, <1>4 DEF DeathInv

LEMMA DeathInvStep == DeathInv /\ [Next]_vars => DeathInv'
<1> SUFFICES ASSUME DeathInv, [Next]_vars PROVE DeathInv'
  OBVIOUS
<1>. USE MaxFailuresAssumption DEF ctx, boot, views, streaks
<1>0. TypeOK'
  BY TypeStep DEF DeathInv
<1>. DEFINE Safe == /\ StreakIsCounted /\ NotYetDeclared /\ LoggedInThePast
                   /\ FatalStreak /\ ReasonFitsStreak
<1>1. ASSUME StartSample PROVE Safe'
  BY <1>1 DEF StartSample, FreshReport, NewReport, DeathInv, TypeOK, StreakIsCounted, NotYetDeclared,
     LoggedInThePast, FatalStreak, ReasonFitsStreak, Rejections, Died, Watched
<1>2. ASSUME SamplesExhausted PROVE Safe'
  BY <1>2 DEF SamplesExhausted, DeathInv, TypeOK, StreakIsCounted, NotYetDeclared,
     LoggedInThePast, FatalStreak, ReasonFitsStreak, Rejections, Died, Watched
<1>3. ASSUME BackoffElapsed PROVE Safe'
  BY <1>3 DEF BackoffElapsed, DeathInv, TypeOK, StreakIsCounted, NotYetDeclared,
     LoggedInThePast, FatalStreak, ReasonFitsStreak, Rejections, Died, Watched
<1>4. ASSUME BackoffCancelled PROVE Safe'
  BY <1>4 DEF BackoffCancelled, DeathInv, TypeOK, StreakIsCounted, NotYetDeclared,
     LoggedInThePast, FatalStreak, ReasonFitsStreak, Rejections, Died, Watched
<1>5. ASSUME BeginWatch PROVE Safe'
  BY <1>5 DEF BeginWatch, NoStreak, DeathInv, TypeOK, StreakIsCounted, NotYetDeclared,
     LoggedInThePast, FatalStreak, ReasonFitsStreak, Rejections, Died, Watched
<1>6. ASSUME TickArrives PROVE Safe'
  BY <1>6 DEF TickArrives, DeathInv, TypeOK, StreakIsCounted, NotYetDeclared,
     LoggedInThePast, FatalStreak, ReasonFitsStreak, Rejections, Died, Watched
<1>7. ASSUME ContextDone PROVE Safe'
  BY <1>7 DEF ContextDone, DeathInv, TypeOK, StreakIsCounted, NotYetDeclared,
     LoggedInThePast, FatalStreak, ReasonFitsStreak, Rejections, Died, Watched
<1>8. ASSUME CompareReturns PROVE Safe'
  BY <1>8 DEF CompareReturns, DeathInv, TypeOK, StreakIsCounted, NotYetDeclared,
     LoggedInThePast, FatalStreak, ReasonFitsStreak, Rejections, Died, Watched
<1>9. ASSUME KeepWatching PROVE Safe'
  BY <1>9 DEF KeepWatching, DeathInv, TypeOK, StreakIsCounted, NotYetDeclared,
     LoggedInThePast, FatalStreak, ReasonFitsStreak, Rejections, Died, Watched
<1>10. ASSUME WriteSummary PROVE Safe'
  BY <1>10 DEF WriteSummary, DeathInv, TypeOK, StreakIsCounted, NotYetDeclared,
     LoggedInThePast, FatalStreak, ReasonFitsStreak, Rejections, Died, Watched
<1>11. ASSUME GreaseFails PROVE Safe'
  BY <1>11 DEF GreaseFails, DeathInv, TypeOK, StreakIsCounted, NotYetDeclared,
     LoggedInThePast, FatalStreak, ReasonFitsStreak, Rejections, Died, Watched
<1>12. ASSUME AttemptAccepted PROVE Safe'
  BY <1>12 DEF AttemptAccepted, ClearedStreak, NoStreak, DeathInv, TypeOK, StreakIsCounted, NotYetDeclared,
     LoggedInThePast, FatalStreak, ReasonFitsStreak, Rejections, Died, Watched
<1>13. ASSUME Cancel PROVE Safe'
  BY <1>13 DEF Cancel, DeathInv, TypeOK, StreakIsCounted, NotYetDeclared,
     LoggedInThePast, FatalStreak, ReasonFitsStreak, Rejections, Died, Watched
<1>14. ASSUME TimePasses PROVE Safe'
  <2>1. LoggedInThePast'
    <3>1. clock \in Nat /\ clock' \in Nat /\ clock <= clock'
      BY <1>14, MaxTimeAssumption DEF TimePasses, DeathInv, TypeOK
    <3>2. \A i \in DOMAIN streakLog : streakLog[i].at \in Nat
      <4>1. streakLog \in Seq(Probe)
        BY DEF DeathInv, TypeOK
      <4>2. \A i \in DOMAIN streakLog : streakLog[i] \in Probe
        BY <4>1
      <4>. QED  BY <4>2 DEF Probe
    <3>3. streakLog' = streakLog
      BY <1>14 DEF TimePasses, streaks
    <3>4. \A i \in DOMAIN streakLog : streakLog[i].at <= clock'
      BY <3>1, <3>2 DEF DeathInv, LoggedInThePast
    <3>. QED  BY <3>3, <3>4 DEF LoggedInThePast
  <2>2. UNCHANGED <<pc, report, streak, streakLog>>
    BY <1>14 DEF TimePasses
  <2>. QED
    BY <2>1, <2>2 DEF DeathInv, StreakIsCounted, NotYetDeclared, FatalStreak,
       ReasonFitsStreak, Rejections, Died
<1>15. ASSUME UNCHANGED vars PROVE Safe'
  BY <1>15 DEF vars, DeathInv, StreakIsCounted, NotYetDeclared,
     LoggedInThePast, FatalStreak, ReasonFitsStreak, Rejections, Died
<1>16. ASSUME DeclareDeath PROVE Safe'
  <2>1. /\ pc = "verdict" /\ streak.failures >= MaxFailures
        /\ pc' = "summary" /\ UNCHANGED <<clock, streak, streakLog>>
    BY <1>16 DEF DeclareDeath
  <2>2. /\ report'.death = streak.start
        /\ report'.declaredAt = clock
        /\ report'.deathReason = deathReason(streak.rejections, streak.failures)
    BY <1>16 DEF DeclareDeath, DeathInv, TypeOK, Report
  <2>3. /\ streak.failures = Len(streakLog) /\ streak.failures <= MaxFailures
        /\ streak.rejections = streak.failures <=> Rejections = DOMAIN streakLog
        /\ streak.rejections = 0 <=> Rejections = {}
        /\ streakLog # <<>> => streak.start = streakLog[1].at
    BY <2>1 DEF DeathInv, StreakIsCounted, Watched
  <2>4. Len(streakLog) = MaxFailures /\ MaxFailures \in DOMAIN streakLog /\ streakLog # <<>>
    BY <2>1, <2>3 DEF DeathInv, TypeOK
  <2>5. FatalStreak'
    BY <2>1, <2>2, <2>3, <2>4 DEF FatalStreak, DeathInv, LoggedInThePast, TypeOK, Probe
  <2>6. ReasonFitsStreak'
    <3>1. Rejections' = Rejections
      BY <2>1 DEF Rejections
    <3>2. streak.rejections \in Nat /\ streak.failures \in Nat /\ streak.failures # 0
      BY <2>3, <2>4 DEF DeathInv, TypeOK, Streak
    <3>3. /\ report'.deathReason = "ech_rejected" <=> streak.rejections = streak.failures
          /\ report'.deathReason = "connect_failed" <=> streak.rejections = 0
      BY <2>2, <3>2 DEF deathReason
    <3>. QED  BY <2>1, <2>3, <3>1, <3>3 DEF ReasonFitsStreak
  <2>7. StreakIsCounted' /\ NotYetDeclared' /\ LoggedInThePast'
    BY <2>1 DEF StreakIsCounted, NotYetDeclared, LoggedInThePast, Watched, DeathInv
  <2>. QED  BY <2>5, <2>6, <2>7
<1>17. ASSUME AttemptFailed PROVE Safe'
  <2>1. StreakIsCounted' /\ LoggedInThePast'
    BY <1>17, FailureIsCounted DEF AttemptFailed, DeathInv, MaybeConfig
  <2>. QED
    BY <1>17, <2>1 DEF AttemptFailed, DeathInv, NotYetDeclared, FatalStreak,
       ReasonFitsStreak, Died, Watched
<1>18. ASSUME NEW c \in MaybeConfig, AttemptRejected(c) PROVE Safe'
  <2>1. StreakIsCounted' /\ LoggedInThePast'
    BY <1>18, FailureIsCounted DEF AttemptRejected, DeathInv
  <2>2. report.declaredAt = 0
    BY <1>18 DEF AttemptRejected, DeathInv, NotYetDeclared, Watched
  <2>3. report'.declaredAt = 0
    BY <1>18, <2>2 DEF AttemptRejected, recordIfChanged, DeathInv, TypeOK, Report
  <2>. QED
    BY <2>1, <2>3 DEF NotYetDeclared, FatalStreak, ReasonFitsStreak, Died
<1>19. ASSUME NEW c \in MaybeConfig, PollBaseline(c) \/ PollTick(c) PROVE Safe'
  <2>1. report.declaredAt = 0
    BY <1>19 DEF PollBaseline, PollTick, DeathInv, NotYetDeclared, Watched
  <2>2. report'.declaredAt = 0
    BY <1>19, <2>1 DEF PollBaseline, PollTick, pollDNS, DeathInv, TypeOK, Report
  <2>3. StreakIsCounted' /\ LoggedInThePast'
    BY <1>19 DEF PollBaseline, PollTick, DeathInv, StreakIsCounted, LoggedInThePast,
       Rejections, Watched
  <2>. QED
    BY <2>2, <2>3 DEF NotYetDeclared, FatalStreak, ReasonFitsStreak, Died
<1>20. ASSUME NEW c \in Configs, GreaseSucceeds(c) PROVE Safe'
  <2>1. report.declaredAt = 0
    BY <1>20 DEF GreaseSucceeds, DeathInv, NotYetDeclared
  <2>2. report'.declaredAt = 0
    BY <1>20, <2>1 DEF GreaseSucceeds, DeathInv, TypeOK, Report
  <2>3. StreakIsCounted' /\ LoggedInThePast'
    BY <1>20 DEF GreaseSucceeds, DeathInv, StreakIsCounted, LoggedInThePast, Watched
  <2>. QED
    BY <2>2, <2>3 DEF NotYetDeclared, FatalStreak, ReasonFitsStreak, Died
<1>21. Safe'
  BY <1>1, <1>2, <1>3, <1>4, <1>5, <1>6, <1>7, <1>8, <1>9, <1>10, <1>11, <1>12, <1>13,
     <1>14, <1>15, <1>16, <1>17, <1>18, <1>19, <1>20
     DEF Next, Internal, GreaseAnswers, DNSAnswers, ServerAnswers, Terminated
<1>. QED  BY <1>0, <1>21 DEF DeathInv

\* The strengthened invariant holds throughout.
THEOREM DeathInvHolds == Spec => []DeathInv
  BY DeathInvInit, DeathInvStep, PTL DEF Spec

\* A config is declared dead after exactly MaxFailures failures in a row, and its
\* time of death is that of the first of them.
THEOREM DeathsAreFatalStreaks == Spec => []FatalStreak
<1>1. DeathInv => FatalStreak
  BY DEF DeathInv
<1>. QED  BY <1>1, DeathInvHolds, PTL

\* deathReason tells clean rejections, connection trouble and a mixture apart, and
\* looks at the fatal streak alone.
THEOREM ReasonsFit == Spec => []ReasonFitsStreak
<1>1. DeathInv => ReasonFitsStreak
  BY DEF DeathInv
<1>. QED  BY <1>1, DeathInvHolds, PTL

-----------------------------------------------------------------------------
(* The tracker implements ConfigWatch                                       *)

\* The report of a sample that has not ended yet records no end, and says whether
\* the bootstrap is over.
OpenReport ==
    pc \in {"grease", "backoff", "baseline", "watch"} \cup Watched =>
        /\ report.declaredAt = 0
        /\ ~report.alive
        /\ report.bootstrapOK <=> pc \in Watched

\* What trackDomain asks (was death declared?) is what the summary tells.
ClosedReport ==
    pc = "summary" => (Died(report) <=> Outcome(report) = "dead")

\* sampleN numbers the summaries written.
SamplesCounted ==
    /\ pc # "done" => sample = Len(summaries) + 1
    /\ (pc # "done" /\ Samples # 0) => sample <= Samples + 1
    /\ (pc \notin {"head", "done"} /\ Samples # 0) => sample <= Samples

RefinementInv ==
    /\ DeathInv
    /\ clock # 0
    /\ OpenReport
    /\ ClosedReport
    /\ SamplesCounted

LEMMA RefinementInvInit == Init => RefinementInv
<1> SUFFICES ASSUME Init PROVE RefinementInv
  OBVIOUS
<1>1. DeathInv
  BY DeathInvInit
<1>2. clock # 0 /\ OpenReport /\ ClosedReport
  BY DEF Init, OpenReport, ClosedReport, Watched
<1>3. SamplesCounted
  BY SamplesAssumption DEF Init, SamplesCounted
<1>. QED  BY <1>1, <1>2, <1>3 DEF RefinementInv

\* A poll or a rejection that reports a rotation leaves the ending alone.
LEMMA RotationKeepsEnding ==
  ASSUME TypeOK, NEW c \in MaybeConfig, pollDNS(c) \/ recordIfChanged(c)
  PROVE  /\ report'.declaredAt = report.declaredAt
         /\ report'.alive = report.alive
         /\ report'.bootstrapOK = report.bootstrapOK
  BY DEF TypeOK, Report, pollDNS, recordIfChanged, views

LEMMA RefinementInvStep == RefinementInv /\ [Next]_vars => RefinementInv'
<1> SUFFICES ASSUME RefinementInv, [Next]_vars PROVE RefinementInv'
  OBVIOUS
<1>. USE SamplesAssumption DEF ctx, boot, views, streaks
<1>0. DeathInv /\ DeathInv' /\ TypeOK
  BY DeathInvStep DEF RefinementInv, DeathInv
<1>. DEFINE Safe == clock # 0 /\ OpenReport /\ ClosedReport /\ SamplesCounted
<1>1. ASSUME StartSample PROVE Safe'
  BY <1>0, <1>1 DEF StartSample, RefinementInv, FreshReport, NewReport, OpenReport, ClosedReport,
     SamplesCounted, Watched, HasBudget, TypeOK
<1>2. ASSUME SamplesExhausted PROVE Safe'
  BY <1>2 DEF SamplesExhausted, RefinementInv, OpenReport, ClosedReport, SamplesCounted,
     Watched
<1>3. ASSUME BackoffElapsed PROVE Safe'
  BY <1>3 DEF BackoffElapsed, RefinementInv, OpenReport, ClosedReport, SamplesCounted,
     Watched
<1>4. ASSUME BackoffCancelled PROVE Safe'
  BY <1>4 DEF BackoffCancelled, RefinementInv, OpenReport, ClosedReport, SamplesCounted,
     Watched, Died, Outcome
<1>5. ASSUME BeginWatch PROVE Safe'
  BY <1>0, <1>5 DEF BeginWatch, RefinementInv, OpenReport, ClosedReport, SamplesCounted,
     Watched, TypeOK, Report
<1>6. ASSUME TickArrives PROVE Safe'
  BY <1>6 DEF TickArrives, RefinementInv, OpenReport, ClosedReport, SamplesCounted,
     Watched
<1>7. ASSUME ContextDone PROVE Safe'
  BY <1>0, <1>7 DEF ContextDone, RefinementInv, OpenReport, ClosedReport, SamplesCounted,
     Watched, Died, Outcome, TypeOK, Report
<1>8. ASSUME CompareReturns PROVE Safe'
  BY <1>8 DEF CompareReturns, RefinementInv, OpenReport, ClosedReport, SamplesCounted,
     Watched
<1>9. ASSUME DeclareDeath PROVE Safe'
  BY <1>0, <1>9 DEF DeclareDeath, RefinementInv, OpenReport, ClosedReport,
     SamplesCounted, Watched, Died, Outcome, TypeOK, Report
<1>10. ASSUME KeepWatching PROVE Safe'
  BY <1>10 DEF KeepWatching, RefinementInv, OpenReport, ClosedReport, SamplesCounted,
     Watched
<1>11. ASSUME WriteSummary PROVE Safe'
  <2>1. OpenReport' /\ ClosedReport'
    BY <1>11 DEF WriteSummary, OpenReport, ClosedReport, Watched
  <2>2. Len(summaries') = Len(summaries) + 1 /\ Len(summaries) \in Nat
    BY <1>0, <1>11, SummaryType DEF WriteSummary, TypeOK
  <2>3. SamplesCounted'
    BY <1>0, <1>11, <2>2 DEF WriteSummary, RefinementInv, SamplesCounted, TypeOK
  <2>4. clock' # 0
    BY <1>11 DEF WriteSummary, RefinementInv
  <2>. QED  BY <2>1, <2>3, <2>4
<1>12. ASSUME GreaseFails PROVE Safe'
  BY <1>12 DEF GreaseFails, RefinementInv, OpenReport, ClosedReport, SamplesCounted,
     Watched, Died, Outcome
<1>13. ASSUME NEW c \in Configs, GreaseSucceeds(c) PROVE Safe'
  BY <1>0, <1>13 DEF GreaseSucceeds, RefinementInv, OpenReport, ClosedReport,
     SamplesCounted, Watched, TypeOK, Report
<1>14. ASSUME NEW c \in MaybeConfig, PollBaseline(c) \/ PollTick(c) PROVE Safe'
  BY <1>0, <1>14, RotationKeepsEnding DEF PollBaseline, PollTick, RefinementInv,
     OpenReport, ClosedReport, SamplesCounted, Watched
<1>15. ASSUME AttemptAccepted PROVE Safe'
  BY <1>15 DEF AttemptAccepted, RefinementInv, OpenReport, ClosedReport, SamplesCounted,
     Watched
<1>16. ASSUME AttemptFailed PROVE Safe'
  BY <1>16 DEF AttemptFailed, RefinementInv, OpenReport, ClosedReport, SamplesCounted,
     Watched
<1>17. ASSUME NEW c \in MaybeConfig, AttemptRejected(c) PROVE Safe'
  BY <1>0, <1>17, RotationKeepsEnding DEF AttemptRejected, RefinementInv,
     OpenReport, ClosedReport, SamplesCounted, Watched
<1>18. ASSUME Cancel PROVE Safe'
  BY <1>18 DEF Cancel, RefinementInv, OpenReport, ClosedReport, SamplesCounted, Watched,
     Died
<1>19. ASSUME TimePasses PROVE Safe'
  BY <1>0, <1>19 DEF TimePasses, TypeOK, RefinementInv, OpenReport, ClosedReport, SamplesCounted,
     Watched, Died
<1>20. ASSUME UNCHANGED vars PROVE Safe'
  BY <1>20 DEF vars, RefinementInv, OpenReport, ClosedReport, SamplesCounted, Died
<1>21. Safe'
  BY <1>1, <1>2, <1>3, <1>4, <1>5, <1>6, <1>7, <1>8, <1>9, <1>10, <1>11, <1>12, <1>13,
     <1>14, <1>15, <1>16, <1>17, <1>18, <1>19, <1>20
     DEF Next, Internal, GreaseAnswers, DNSAnswers, ServerAnswers, Terminated
<1>. QED  BY <1>0, <1>21 DEF RefinementInv

-----------------------------------------------------------------------------
(* Every step is a step of ConfigWatch or leaves it where it is            *)

LEMMA OutcomeOfSummary ==
  ASSUME TypeOK PROVE Outcome(Summary(report)) = Outcome(report)
  BY DEF Outcome, Summary

LEMMA EndedGrows ==
  ASSUME TypeOK, WriteSummary
  PROVE  Past' = Append(Past, Outcome(report))
<1>. DEFINE n == Len(summaries)
            s == Summary(report)
<1>1. /\ summaries \in Seq(SummaryLine) /\ s \in SummaryLine
      /\ summaries' = Append(summaries, s)
  BY SummaryType DEF TypeOK, WriteSummary
<1>2. Outcome(s) = Outcome(report)
  BY OutcomeOfSummary
<1>. HIDE DEF s
<1>3. /\ n \in Nat /\ DOMAIN summaries = 1 .. n
      /\ DOMAIN summaries' = 1 .. n + 1
      /\ summaries'[n + 1] = s
      /\ \A i \in 1 .. n : summaries'[i] = summaries[i]
  BY <1>1
<1>. DEFINE O == {"failed", "alive", "dead"}
<1>4. Outcome(report) \in O /\ \A r : Outcome(r) \in O
  BY DEF Outcome
<1>5. /\ Past \in Seq(O) /\ Len(Past) = n
      /\ \A i \in 1 .. n : Past[i] = Outcome(summaries[i])
  BY <1>3, <1>4 DEF Past
<1>6. /\ Past' \in Seq(O) /\ Len(Past') = n + 1
      /\ \A i \in 1 .. n + 1 : Past'[i] = Outcome(summaries'[i])
  BY <1>3, <1>4 DEF Past
<1>. HIDE DEF n, O
<1>7. /\ Append(Past, Outcome(report)) \in Seq(O)
      /\ Len(Append(Past, Outcome(report))) = n + 1
      /\ \A i \in 1 .. n : Append(Past, Outcome(report))[i] = Past[i]
      /\ Append(Past, Outcome(report))[n + 1] = Outcome(report)
  BY <1>4, <1>5, AppendProperties
<1>8. \A i \in 1 .. n + 1 : Past'[i] = Append(Past, Outcome(report))[i]
  <2> SUFFICES ASSUME NEW i \in 1 .. n + 1
               PROVE  Past'[i] = Append(Past, Outcome(report))[i]
    OBVIOUS
  <2>1. CASE i \in 1 .. n
    BY <1>3, <1>5, <1>6, <1>7, <2>1
  <2>2. CASE i = n + 1
    BY <1>2, <1>3, <1>6, <1>7, <2>2
  <2>3. n \in Nat
    BY <1>3
  <2>4. i \in 1 .. n \/ i = n + 1
    BY <2>3
  <2>. QED  BY <2>1, <2>2, <2>4
<1>. DEFINE p == Past'
            q == Append(Past, Outcome(report))
<1>9. /\ p \in Seq(O) /\ q \in Seq(O) /\ Len(p) = Len(q)
      /\ \A i \in 1 .. Len(p) : p[i] = q[i]
  BY <1>6, <1>7, <1>8
<1>. HIDE DEF p, q
<1>10. p = q
  BY <1>9, SeqEqual
<1>. QED  BY <1>10 DEF p, q

Simulated == [Watch!CWNext]_Watch!cwVars

LEMMA SeenByWatch ==
  UNCHANGED <<Phase, Strikes, Past>> => Simulated
  BY DEF Simulated, Watch!cwVars

LEMMA InitialStateMaps == Init => Watch!CWInit
<1> SUFFICES ASSUME Init PROVE Watch!CWInit
  OBVIOUS
<1>1. Phase = "idle" /\ Strikes = 0
  BY DEF Init, Phase, Strikes, Watched
<1>2. Past = <<>>
  <2>1. summaries = <<>> /\ DOMAIN summaries = {}
    BY DEF Init
  <2>. QED  BY <2>1, EmptySeq DEF Past
<1>. QED  BY <1>1, <1>2 DEF Watch!CWInit

LEMMA StepMaps == RefinementInv /\ RefinementInv' /\ [Next]_vars => Simulated
<1> SUFFICES ASSUME RefinementInv, RefinementInv', [Next]_vars PROVE Simulated
  OBVIOUS
<1>. USE SamplesAssumption, MaxFailuresAssumption DEF ctx, boot, views, streaks
<1>0. TypeOK /\ StreakIsCounted /\ StreakIsCounted' /\ Len(Past) = Len(summaries)
  BY DEF RefinementInv, DeathInv, TypeOK, Past
<1>1. ASSUME StartSample PROVE Simulated
  <2>1. Phase = "idle" /\ Phase' = "eliciting" /\ UNCHANGED <<Strikes, Past>>
    BY <1>1 DEF StartSample, Phase, Strikes, Past, Watched
  <2>2. Samples = 0 \/ Len(Past) < Samples
    BY <1>0, <1>1 DEF StartSample, HasBudget, RefinementInv, SamplesCounted, TypeOK
  <2>. QED  BY <2>1, <2>2 DEF Simulated, Watch!CWNext, Watch!Begin
<1>2. ASSUME SamplesExhausted PROVE Simulated
  <2>1. Phase = "idle" /\ Phase' = "over" /\ UNCHANGED <<Strikes, Past>>
    BY <1>2 DEF SamplesExhausted, Phase, Strikes, Past, Watched
  <2>2. Samples # 0 /\ Len(Past) = Samples
    BY <1>0, <1>2 DEF SamplesExhausted, HasBudget, RefinementInv, SamplesCounted, TypeOK
  <2>. QED  BY <2>1, <2>2 DEF Simulated, Watch!CWNext, Watch!Exhausted
<1>3. ASSUME BackoffElapsed PROVE Simulated
  BY <1>3, SeenByWatch DEF BackoffElapsed, Phase, Strikes, Past, Watched
<1>4. ASSUME BackoffCancelled PROVE Simulated
  <2>1. Phase = "eliciting" /\ Phase' = "failed" /\ UNCHANGED <<Strikes, Past>>
    BY <1>4 DEF BackoffCancelled, Phase, Strikes, Past, Watched, Outcome, RefinementInv,
       OpenReport
  <2>. QED  BY <2>1 DEF Simulated, Watch!CWNext, Watch!Elicited
<1>5. ASSUME BeginWatch PROVE Simulated
  BY <1>5, SeenByWatch DEF BeginWatch, NoStreak, Phase, Strikes, Past, Watched
<1>6. ASSUME TickArrives PROVE Simulated
  BY <1>6, SeenByWatch DEF TickArrives, Phase, Strikes, Past, Watched
<1>7. ASSUME ContextDone PROVE Simulated
  <2>1. /\ Phase = "watching" /\ Phase' = "alive" /\ UNCHANGED Past
        /\ Strikes < MaxFailures /\ Strikes' = 0
    BY <1>0, <1>7 DEF ContextDone, Phase, Strikes, Past, Watched, Outcome, RefinementInv,
       OpenReport, StreakIsCounted, TypeOK, Report
  <2>2. Strikes # MaxFailures
    BY <1>0, <2>1 DEF Strikes, TypeOK, Streak
  <2>. QED  BY <2>1, <2>2 DEF Simulated, Watch!CWNext, Watch!Ended
<1>8. ASSUME CompareReturns PROVE Simulated
  BY <1>8, SeenByWatch DEF CompareReturns, Phase, Strikes, Past, Watched
<1>9. ASSUME DeclareDeath PROVE Simulated
  <2>1. /\ Phase = "watching" /\ Phase' = Outcome(report') /\ UNCHANGED Past
        /\ Strikes = streak.failures /\ Strikes' = 0
        /\ streak.failures >= MaxFailures /\ streak.failures <= MaxFailures
    BY <1>0, <1>9 DEF DeclareDeath, Phase, Strikes, Past, Watched, StreakIsCounted
  <2>2. Strikes = MaxFailures
    BY <1>0, <2>1 DEF TypeOK, Streak
  <2>3. Outcome(report') = "dead"
    BY <1>0, <1>9 DEF DeclareDeath, Outcome, RefinementInv, OpenReport, Watched, TypeOK,
       Report
  <2>. QED  BY <2>1, <2>2, <2>3 DEF Simulated, Watch!CWNext, Watch!Ended
<1>10. ASSUME KeepWatching PROVE Simulated
  BY <1>10, SeenByWatch DEF KeepWatching, Phase, Strikes, Past, Watched
<1>11. ASSUME WriteSummary PROVE Simulated
  <2>1. /\ Phase = Outcome(report) /\ Phase \in {"failed", "alive", "dead"}
        /\ Phase' = (IF Phase = "dead" THEN "idle" ELSE "over")
        /\ UNCHANGED Strikes
    BY <1>11 DEF WriteSummary, Phase, Strikes, Watched, Outcome, RefinementInv,
       ClosedReport
  <2>2. Past' = Append(Past, Phase)
    BY <1>0, <1>11, <2>1, EndedGrows
  <2>. QED
    BY <2>1, <2>2 DEF Simulated, Watch!CWNext, Watch!Concluded, Watch!Outcomes
<1>12. ASSUME GreaseFails PROVE Simulated
  <2>1. CASE pc' = "backoff"
    BY <1>12, <2>1, SeenByWatch DEF GreaseFails, Phase, Strikes, Past, Watched
  <2>2. CASE pc' = "summary"
    <3>1. Phase = "eliciting" /\ Phase' = "failed" /\ UNCHANGED <<Strikes, Past>>
      BY <1>12, <2>2 DEF GreaseFails, Phase, Strikes, Past, Watched, Outcome,
         RefinementInv, OpenReport
    <3>. QED  BY <3>1 DEF Simulated, Watch!CWNext, Watch!Elicited
  <2>. QED  BY <1>12, <2>1, <2>2 DEF GreaseFails
<1>13. ASSUME NEW c \in Configs, GreaseSucceeds(c) PROVE Simulated
  <2>1. Phase = "eliciting" /\ Phase' = "watching" /\ UNCHANGED <<Strikes, Past>>
    BY <1>13 DEF GreaseSucceeds, Phase, Strikes, Past, Watched
  <2>. QED  BY <2>1 DEF Simulated, Watch!CWNext, Watch!Elicited
<1>14. ASSUME NEW c \in MaybeConfig, PollBaseline(c) \/ PollTick(c) PROVE Simulated
  BY <1>14, SeenByWatch DEF PollBaseline, PollTick, Phase, Strikes, Past, Watched
<1>15. ASSUME AttemptAccepted PROVE Simulated
  <2>1. /\ Phase = "watching" /\ UNCHANGED <<Phase, Past>>
        /\ Strikes < MaxFailures /\ Strikes' = 0
    BY <1>0, <1>15 DEF AttemptAccepted, ClearedStreak, NoStreak, Phase, Strikes, Past,
       Watched, StreakIsCounted
  <2>. QED  BY <2>1 DEF Simulated, Watch!CWNext, Watch!Accepted
<1>16. ASSUME AttemptFailed PROVE Simulated
  <2>1. /\ Phase = "watching" /\ UNCHANGED <<Phase, Past>>
        /\ Strikes < MaxFailures /\ Strikes' = Strikes + 1
    BY <1>0, <1>16 DEF AttemptFailed, Lengthened, Phase, Strikes, Past, Watched,
       StreakIsCounted
  <2>. QED  BY <2>1 DEF Simulated, Watch!CWNext, Watch!Missed
<1>17. ASSUME NEW c \in MaybeConfig, AttemptRejected(c) PROVE Simulated
  <2>1. /\ Phase = "watching" /\ UNCHANGED <<Phase, Past>>
        /\ Strikes < MaxFailures /\ Strikes' = Strikes + 1
    BY <1>0, <1>17 DEF AttemptRejected, Lengthened, Phase, Strikes, Past, Watched,
       StreakIsCounted
  <2>. QED  BY <2>1 DEF Simulated, Watch!CWNext, Watch!Missed
<1>18. ASSUME Cancel PROVE Simulated
  BY <1>18, SeenByWatch DEF Cancel, Phase, Strikes, Past
<1>19. ASSUME TimePasses PROVE Simulated
  BY <1>19, SeenByWatch DEF TimePasses, Phase, Strikes, Past
<1>20. ASSUME UNCHANGED vars PROVE Simulated
  BY <1>20, SeenByWatch DEF vars, Phase, Strikes, Past
<1>. QED
  BY <1>1, <1>2, <1>3, <1>4, <1>5, <1>6, <1>7, <1>8, <1>9, <1>10, <1>11, <1>12, <1>13,
     <1>14, <1>15, <1>16, <1>17, <1>18, <1>19, <1>20
     DEF Next, Internal, GreaseAnswers, DNSAnswers, ServerAnswers, Terminated

\* The tracker implements ConfigWatch: whatever the server, the resolver, the
\* network and the user do, a config under test ends dead if and only if
\* MaxFailures attempts in a row failed, and only a death leads to another sample.
THEOREM TrackerImplementsConfigWatch == Spec => ImplementsConfigWatch
<1>1. RefinementInv /\ RefinementInv' /\ [Next]_vars => [Watch!CWNext]_Watch!cwVars
  BY StepMaps DEF Simulated
<1>. QED
  BY <1>1, RefinementInvInit, RefinementInvStep, InitialStateMaps, PTL
     DEF Spec, ImplementsConfigWatch, Watch!CWSpec

-----------------------------------------------------------------------------
(* Samples: what each reports, when it happened, how they follow each other *)

(* The inductive invariant                                                 *)

Bootstrapping == {"grease", "backoff"}

\* From the bootstrap's success to the end of the watch loop.
Following == {"baseline", "watch"} \cup Watched

\* The last config that was handed out, and the one before it.
LastElicited == IF greaseLog = <<>> THEN NoConfig ELSE greaseLog[Len(greaseLog)]

ElicitedBefore == IF Len(greaseLog) < 2 THEN NoConfig ELSE greaseLog[Len(greaseLog) - 1]

\* A rerun knows the config that the sample before tested to death, and nothing of
\* earlier samples.
PredecessorKnown ==
    /\ pc \in {"head"} \cup Bootstrapping => prev = LastElicited
    /\ (pc \in Following \/ (pc = "summary" /\ report.bootstrapOK)) =>
         /\ greaseLog # <<>>
         /\ underTest = LastElicited
         /\ prev = ElicitedBefore
         /\ report.repeatedConfig <=> (prev # NoConfig /\ prev = underTest)

\* While the bootstrap runs there is budget left for the probe under way.
ProbesLeft ==
    /\ pc = "grease" =>
         IF prev = NoConfig THEN greaseFailures = 0 ELSE greaseFailures < MaxFailures
    /\ pc = "backoff" => prev # NoConfig /\ greaseFailures < MaxFailures

\* A channel's first rotation is dated between the bootstrap and now.
Dated(changed, from, now) == changed = 0 \/ (from <= changed /\ changed <= now)

\* Times of the sample under way.
SampleDated ==
    /\ pc \in Bootstrapping => report = NewReport
    /\ pc \in Following \cup {"summary"} =>
         /\ Dated(report.dnsChanged, report.firstSeen, clock)
         /\ Dated(report.retryChanged, report.firstSeen, clock)
    /\ pc \in Following =>
         /\ report.firstSeen # 0 /\ report.firstSeen <= clock
         /\ report.death = 0 /\ report.deathReason = ""
    /\ pc \in Watched => \A i \in DOMAIN streakLog : streakLog[i].at >= report.firstSeen

\* The report of a sample that has ended.
EndDated ==
    pc = "summary" =>
        /\ ~report.bootstrapOK => report = NewReport
        /\ report.bootstrapOK => report.firstSeen # 0
        /\ ~Died(report) => report.death = 0 /\ report.deathReason = ""
        /\ Died(report) =>
             /\ report.deathReason # ""
             /\ report.firstSeen <= report.death /\ report.death <= report.declaredAt
             /\ report.declaredAt <= clock
             /\ report.dnsChanged <= report.declaredAt
             /\ report.retryChanged <= report.declaredAt

\* The deaths on file came before the sample under way.
PastIsOver ==
    \A i \in DOMAIN summaries :
        /\ summaries[i].declaredAt <= clock
        /\ (pc \in Following \/ (pc = "summary" /\ report.bootstrapOK)) =>
             summaries[i].declaredAt <= report.firstSeen

\* What is on file, while there may be another sample and at the end.
OnFile ==
    /\ pc # "done" => \A i \in DOMAIN summaries : IsDead(summaries[i])
    /\ SequenceOfSamples

\* The first record of a channel is where the report says.
ChannelDated(source, changed) ==
    /\ changed = 0 <=> \A i \in DOMAIN observed : observed[i].source # source
    /\ changed # 0 => \E i \in DOMAIN observed : /\ observed[i].source = source
                                                 /\ observed[i].at = changed
    /\ \A i \in DOMAIN observed : observed[i].source = source => observed[i].at >= changed

SignsDated ==
    /\ \A i \in DOMAIN observed : observed[i].at # 0 /\ observed[i].at <= clock
    /\ ChannelDated("dns", report.dnsChanged)
    /\ ChannelDated("retry", report.retryChanged)

-----------------------------------------------------------------------------
(* Which config a sample tests, and how often it asked for one             *)

\* A sample starts with a report that says nothing.
LEMMA BlankReport ==
  /\ ~NewReport.bootstrapOK /\ ~NewReport.alive
  /\ NewReport.dnsChanged = 0 /\ NewReport.retryChanged = 0
  /\ NewReport.death = 0 /\ NewReport.deathReason = "" /\ ~Died(NewReport)
  BY DEF NewReport, Died

\* A poll or a rejection that reports a rotation dates that channel, and leaves the
\* rest of the report alone.
LEMMA RotationKeepsReport ==
  ASSUME TypeOK, NEW c \in MaybeConfig, pollDNS(c) \/ recordIfChanged(c)
  PROVE  /\ report'.repeatedConfig = report.repeatedConfig
         /\ report'.firstSeen = report.firstSeen
         /\ report'.death = report.death
         /\ report'.deathReason = report.deathReason
  BY DEF TypeOK, Report, pollDNS, recordIfChanged, views

\* A sample that knows its predecessor flags a repetition as it should.
LEMMA PredecessorMakesFlag ==
  ASSUME TypeOK, PredecessorKnown, pc \in Following
  PROVE  report.repeatedConfig <=>
           LET n == Len(greaseLog) IN n > 1 /\ greaseLog[n] = greaseLog[n - 1]
<1>. DEFINE n == Len(greaseLog)
<1>1. /\ greaseLog \in Seq(Configs) /\ n \in Nat /\ greaseLog # <<>>
      /\ underTest = LastElicited /\ prev = ElicitedBefore
      /\ report.repeatedConfig <=> (prev # NoConfig /\ prev = underTest)
  BY DEF TypeOK, PredecessorKnown
<1>2. underTest = greaseLog[n]
  BY <1>1 DEF LastElicited
<1>3. CASE n > 1
  <2>1. prev = greaseLog[n - 1] /\ greaseLog[n - 1] \in Configs
    BY <1>1, <1>3 DEF ElicitedBefore
  <2>. QED  BY <1>1, <1>2, <1>3, <2>1, ConfigsAssumption
<1>4. CASE ~(n > 1)
  <2>1. prev = NoConfig
    BY <1>1, <1>4 DEF ElicitedBefore
  <2>. QED  BY <1>1, <1>4, <2>1
<1>. QED  BY <1>3, <1>4

\* RepeatFlag looks at the log of elicited configs, the tracker at what it remembers of
\* the sample before; BootstrapBudget counts probes, the tracker asks before the next.
ElicitInv ==
    /\ PredecessorKnown
    /\ RepeatFlag
    /\ ProbesLeft
    /\ BootstrapBudget

LEMMA ElicitInvInit == Init => ElicitInv
<1> SUFFICES ASSUME Init PROVE ElicitInv
  OBVIOUS
<1>1. PredecessorKnown
  BY DEF Init, PredecessorKnown, LastElicited, Following, Watched
<1>2. RepeatFlag
  BY DEF Init, RepeatFlag, NewReport
<1>3. ProbesLeft /\ BootstrapBudget
  BY MaxFailuresAssumption DEF Init, ProbesLeft, BootstrapBudget
<1>. QED  BY <1>1, <1>2, <1>3 DEF ElicitInv

LEMMA ElicitInvStep == RefinementInv /\ ElicitInv /\ [Next]_vars => ElicitInv'
<1> SUFFICES ASSUME RefinementInv, ElicitInv, [Next]_vars PROVE ElicitInv'
  OBVIOUS
<1>. USE MaxFailuresAssumption, ConfigsAssumption DEF ctx, boot, views, streaks
<1>0. TypeOK /\ OpenReport /\ ClosedReport /\ PredecessorKnown /\ RepeatFlag /\ ProbesLeft
      /\ BootstrapBudget
  BY DEF RefinementInv, DeathInv, ElicitInv
<1>1. ASSUME StartSample PROVE ElicitInv'
  <2>1. /\ pc = "head" /\ pc' = "grease" /\ ~report'.bootstrapOK /\ greaseFailures' = 0
        /\ UNCHANGED <<prev, greaseLog>>
    BY <1>1 DEF StartSample, FreshReport, NewReport
  <2>. QED
    BY <1>0, <2>1 DEF ElicitInv, PredecessorKnown, RepeatFlag, ProbesLeft, BootstrapBudget,
       Bootstrapping, Following, Watched, LastElicited
<1>2. ASSUME SamplesExhausted PROVE ElicitInv'
  BY <1>0, <1>2 DEF SamplesExhausted, ElicitInv, PredecessorKnown, RepeatFlag, ProbesLeft,
     BootstrapBudget, Bootstrapping, Following, Watched
<1>3. ASSUME WriteSummary PROVE ElicitInv'
  <2>1. CASE Died(report)
    <3>1. report.bootstrapOK
      BY <1>0, <1>3, <2>1 DEF WriteSummary, ClosedReport, Outcome
    <3>2. /\ underTest = LastElicited /\ greaseLog # <<>> /\ greaseLog \in Seq(Configs)
      BY <1>0, <1>3, <3>1 DEF WriteSummary, PredecessorKnown, TypeOK
    <3>3. underTest \in Configs
      BY <3>2 DEF LastElicited
    <3>4. /\ pc' = "head" /\ prev' = underTest
          /\ UNCHANGED <<greaseLog, greaseFailures, report, cancelled>>
      BY <1>3, <2>1 DEF WriteSummary, JustDied
    <3>5. PredecessorKnown'
      BY <3>2, <3>4 DEF PredecessorKnown, LastElicited, Following, Watched
    <3>6. ProbesLeft' /\ RepeatFlag'
      BY <1>0, <3>4 DEF ProbesLeft, RepeatFlag
    <3>7. BootstrapBudget'
      <4>1. greaseFailures \in Nat /\ MaxFailures >= 1
        BY <1>0 DEF TypeOK
      <4>2. greaseFailures <= MaxFailures
        BY <1>0, <4>1 DEF BootstrapBudget
      <4>. QED  BY <3>3, <3>4, <4>2 DEF BootstrapBudget
    <3>. QED  BY <3>5, <3>6, <3>7 DEF ElicitInv
  <2>2. CASE ~Died(report)
    BY <1>0, <1>3, <2>2 DEF WriteSummary, ElicitInv, PredecessorKnown, RepeatFlag, ProbesLeft,
       BootstrapBudget, Bootstrapping, Following, Watched
  <2>. QED  BY <2>1, <2>2
<1>4. ASSUME GreaseFails PROVE ElicitInv'
  <2>1. ~report.bootstrapOK /\ report' = report /\ UNCHANGED <<prev, greaseLog>>
    BY <1>0, <1>4 DEF GreaseFails, OpenReport, Watched
  <2>2. PredecessorKnown' /\ RepeatFlag'
    BY <1>0, <1>4, <2>1 DEF GreaseFails, PredecessorKnown, RepeatFlag, Bootstrapping, Following,
       Watched, LastElicited
  <2>3. greaseFailures \in Nat /\ greaseFailures' = greaseFailures + 1
    BY <1>0, <1>4 DEF GreaseFails, TypeOK
  <2>4. IF prev = NoConfig THEN greaseFailures = 0 ELSE greaseFailures < MaxFailures
    BY <1>0, <1>4 DEF GreaseFails, ProbesLeft
  <2>5. \/ pc' = "backoff" /\ prev # NoConfig /\ greaseFailures' < MaxFailures
        \/ pc' = "summary" /\ (prev = NoConfig \/ ~(greaseFailures' < MaxFailures))
    BY <1>4, <2>3 DEF GreaseFails, RetriesBootstrap
  <2>6. ProbesLeft' /\ BootstrapBudget'
    BY <2>1, <2>3, <2>4, <2>5 DEF ProbesLeft, BootstrapBudget
  <2>. QED  BY <2>2, <2>6 DEF ElicitInv
<1>5. ASSUME BackoffElapsed \/ BackoffCancelled PROVE ElicitInv'
  BY <1>0, <1>5 DEF BackoffElapsed, BackoffCancelled, OpenReport, ElicitInv, PredecessorKnown,
     RepeatFlag, ProbesLeft, BootstrapBudget, Bootstrapping, Following, Watched, LastElicited
<1>6. ASSUME NEW c \in Configs, GreaseSucceeds(c) PROVE ElicitInv'
  <2>. DEFINE n == Len(greaseLog)
  <2>1. /\ greaseLog \in Seq(Configs) /\ greaseLog' = Append(greaseLog, c) /\ n \in Nat
        /\ underTest' = c /\ prev' = prev /\ greaseFailures' = greaseFailures
        /\ pc = "grease" /\ pc' \in {"watch", "baseline"}
    BY <1>0, <1>6 DEF GreaseSucceeds, TypeOK
  <2>2. /\ Len(greaseLog') = n + 1 /\ greaseLog' # <<>> /\ greaseLog'[n + 1] = c
        /\ \A i \in 1 .. n : greaseLog'[i] = greaseLog[i]
    BY <2>1
  <2>3. LastElicited' = c
    BY <2>1, <2>2 DEF LastElicited
  <2>4. prev = LastElicited /\ ~report.bootstrapOK
    BY <1>0, <2>1 DEF PredecessorKnown, Bootstrapping, OpenReport, Watched
  <2>5. ElicitedBefore' = LastElicited
    <3>1. CASE n = 0
      BY <2>1, <2>2, <3>1 DEF ElicitedBefore, LastElicited
    <3>2. CASE n > 0
      BY <2>1, <2>2, <3>2 DEF ElicitedBefore, LastElicited
    <3>. QED  BY <2>1, <3>1, <3>2
  <2>6. /\ report'.repeatedConfig = (prev # NoConfig /\ prev = c)
        /\ report'.bootstrapOK = report.bootstrapOK
    BY <1>0, <1>6 DEF GreaseSucceeds, TypeOK, Report
  <2>7. PredecessorKnown'
    BY <2>1, <2>2, <2>3, <2>4, <2>5, <2>6 DEF PredecessorKnown, Bootstrapping
  <2>8. RepeatFlag'
    BY <2>4, <2>6 DEF RepeatFlag
  <2>9. ProbesLeft' /\ BootstrapBudget'
    BY <1>0, <2>1 DEF ProbesLeft, BootstrapBudget
  <2>. QED  BY <2>7, <2>8, <2>9 DEF ElicitInv
<1>7. ASSUME BeginWatch PROVE ElicitInv'
  <2>1. /\ pc = "watch" /\ pc' = "select"
        /\ report'.bootstrapOK /\ report'.repeatedConfig = report.repeatedConfig
        /\ UNCHANGED <<prev, underTest, greaseLog, greaseFailures>>
    BY <1>0, <1>7 DEF BeginWatch, TypeOK, Report
  <2>2. PredecessorKnown'
    BY <1>0, <2>1 DEF PredecessorKnown, Following, Watched, Bootstrapping, LastElicited,
       ElicitedBefore
  <2>3. RepeatFlag'
    <3>1. report.repeatedConfig <=>
            LET n == Len(greaseLog) IN n > 1 /\ greaseLog[n] = greaseLog[n - 1]
      BY <1>0, <2>1, PredecessorMakesFlag DEF Following
    <3>. QED  BY <2>1, <3>1 DEF RepeatFlag
  <2>4. ProbesLeft' /\ BootstrapBudget'
    BY <1>0, <2>1 DEF ProbesLeft, BootstrapBudget
  <2>. QED  BY <2>2, <2>3, <2>4 DEF ElicitInv
<1>8. ASSUME \/ TickArrives \/ CompareReturns \/ KeepWatching \/ AttemptAccepted
             \/ AttemptFailed \/ ContextDone \/ DeclareDeath
             \/ \E c \in MaybeConfig : PollBaseline(c) \/ PollTick(c) \/ AttemptRejected(c)
      PROVE  ElicitInv'
  <2>1. /\ pc \in Following /\ pc' \in Following \cup {"summary"}
        /\ pc' = "summary" => report.bootstrapOK
        /\ UNCHANGED <<prev, underTest, greaseLog, greaseFailures>>
    BY <1>0, <1>8 DEF TickArrives, CompareReturns, KeepWatching, AttemptAccepted, AttemptFailed,
       ContextDone, DeclareDeath, PollBaseline, PollTick, AttemptRejected, Following, Watched,
       OpenReport
  <2>2. /\ report'.bootstrapOK = report.bootstrapOK
        /\ report'.repeatedConfig = report.repeatedConfig
    <3>1. CASE \E c \in MaybeConfig : PollBaseline(c) \/ PollTick(c) \/ AttemptRejected(c)
      BY <1>0, <3>1, RotationKeepsEnding, RotationKeepsReport DEF PollBaseline, PollTick,
         AttemptRejected
    <3>2. CASE ContextDone \/ DeclareDeath
      BY <1>0, <3>2 DEF ContextDone, DeclareDeath, TypeOK, Report
    <3>. QED
      BY <1>8, <3>1, <3>2 DEF TickArrives, CompareReturns, KeepWatching, AttemptAccepted,
         AttemptFailed
  <2>3. PredecessorKnown'
    BY <1>0, <2>1, <2>2 DEF PredecessorKnown, Following, Watched, Bootstrapping, LastElicited,
       ElicitedBefore
  <2>4. RepeatFlag'
    BY <1>0, <2>1, <2>2 DEF RepeatFlag
  <2>5. ProbesLeft' /\ BootstrapBudget'
    BY <1>0, <2>1, <2>2 DEF ProbesLeft, BootstrapBudget, Following, Watched
  <2>. QED  BY <2>3, <2>4, <2>5 DEF ElicitInv
<1>9. ASSUME Cancel \/ TimePasses \/ UNCHANGED vars PROVE ElicitInv'
  BY <1>0, <1>9 DEF Cancel, TimePasses, vars, ElicitInv, PredecessorKnown, RepeatFlag, ProbesLeft,
     BootstrapBudget, LastElicited, ElicitedBefore
<1>. QED
  BY <1>1, <1>2, <1>3, <1>4, <1>5, <1>6, <1>7, <1>8, <1>9
     DEF Next, Internal, GreaseAnswers, DNSAnswers, ServerAnswers, Terminated

-----------------------------------------------------------------------------
(* When things happened                                                    *)

\* Chronology speaks of the lines on file, which repeat what the clock read while the
\* sample was under way.
TimeInv ==
    /\ SampleDated
    /\ EndDated
    /\ PastIsOver
    /\ Chronology

LEMMA TimeInvInit == Init => TimeInv
<1> SUFFICES ASSUME Init PROVE TimeInv
  OBVIOUS
<1>1. SampleDated /\ EndDated
  BY DEF Init, SampleDated, EndDated, Bootstrapping, Following, Watched
<1>2. PastIsOver /\ Chronology
  BY DEF Init, PastIsOver, Chronology
<1>. QED  BY <1>1, <1>2 DEF TimeInv

\* The times in the state are natural numbers.
LEMMA TimesAreNat ==
  ASSUME TypeOK
  PROVE  /\ clock \in Nat
         /\ report.firstSeen \in Nat /\ report.dnsChanged \in Nat
         /\ report.retryChanged \in Nat /\ report.death \in Nat
         /\ report.declaredAt \in Nat
         /\ \A i \in DOMAIN streakLog : streakLog[i].at \in Nat
         /\ \A i \in DOMAIN summaries : summaries[i].declaredAt \in Nat
<1>1. streakLog \in Seq(Probe) /\ summaries \in Seq(SummaryLine)
  BY DEF TypeOK
<1>2. /\ \A i \in DOMAIN streakLog : streakLog[i] \in Probe
      /\ \A i \in DOMAIN summaries : summaries[i] \in SummaryLine
  BY <1>1
<1>3. /\ \A i \in DOMAIN streakLog : streakLog[i].at \in Nat
      /\ \A i \in DOMAIN summaries : summaries[i].declaredAt \in Nat
  BY <1>2 DEF Probe, SummaryLine
<1>. QED  BY <1>3 DEF TypeOK, Report

\* A poll or a rejection dates a channel, if at all, with the present.
LEMMA RotationIsDatedNow ==
  ASSUME TypeOK, NEW c \in MaybeConfig, pollDNS(c) \/ recordIfChanged(c)
  PROVE  /\ report'.dnsChanged \in {report.dnsChanged, clock}
         /\ report'.retryChanged \in {report.retryChanged, clock}
  BY DEF TypeOK, Report, pollDNS, recordIfChanged, views

\* What the summary of a sample that has ended says of times.
LEMMA SummaryDated ==
  ASSUME TypeOK, SampleDated, EndDated, pc = "summary",
         Died(report) <=> Outcome(report) = "dead"
  PROVE  LET s == Summary(report) IN
         /\ s.bootstrapOK = report.bootstrapOK /\ s.firstSeen = report.firstSeen
         /\ s.declaredAt \in Nat /\ s.declaredAt <= clock
         /\ IsDead(s) <=> Died(report)
         /\ s.rotationChanged # 0 => s.firstSeen <= s.rotationChanged
         /\ IsDead(s) => s.firstSeen <= s.death /\ s.death <= s.declaredAt
         /\ (IsDead(s) /\ s.rotationChanged # 0) => s.rotationChanged <= s.declaredAt
<1>. DEFINE s == Summary(report)
            at == rotation(report).at
<1>1. /\ s.bootstrapOK = report.bootstrapOK /\ s.firstSeen = report.firstSeen
      /\ s.rotationChanged = at
      /\ Died(report) => s.death = report.death /\ s.declaredAt = report.declaredAt
      /\ ~Died(report) => s.declaredAt = 0
  BY DEF Summary, Outcome
<1>2. /\ clock \in Nat /\ report.firstSeen \in Nat /\ report.dnsChanged \in Nat
      /\ report.retryChanged \in Nat /\ report.death \in Nat /\ report.declaredAt \in Nat
  BY TimesAreNat
<1>3. at # 0 => at = report.dnsChanged \/ at = report.retryChanged
  BY DEF rotation
<1>4. at # 0 => report.firstSeen <= at
  BY <1>3 DEF SampleDated, Dated
<1>5. Died(report) =>
        /\ report.firstSeen <= report.death /\ report.death <= report.declaredAt
        /\ report.declaredAt <= clock
        /\ report.dnsChanged <= report.declaredAt /\ report.retryChanged <= report.declaredAt
  BY DEF EndDated
<1>6. Died(report) /\ at # 0 => at <= report.declaredAt
  BY <1>3, <1>5
<1>7. IsDead(s) <=> Died(report)
  BY <1>1 DEF IsDead, Died
<1>. HIDE DEF s, at
<1>8. s.declaredAt \in Nat /\ s.declaredAt <= clock
  BY <1>1, <1>2, <1>5
<1>9. IsDead(s) => s.firstSeen <= s.death /\ s.death <= s.declaredAt
  BY <1>1, <1>5, <1>7
<1>. QED  BY <1>1, <1>4, <1>6, <1>7, <1>8, <1>9 DEF s

\* A date stays good when the clock goes on, and the present is one.
LEMMA DatesStayGood ==
  ASSUME NEW changed \in Nat, NEW from \in Nat, NEW now \in Nat, NEW later \in Nat,
         Dated(changed, from, now), from <= now, now <= later
  PROVE  Dated(changed, from, later) /\ Dated(now, from, later)
  BY DEF Dated

LEMMA TimeInvStep == RefinementInv /\ TimeInv /\ [Next]_vars => TimeInv'
<1> SUFFICES ASSUME RefinementInv, TimeInv, [Next]_vars PROVE TimeInv'
  OBVIOUS
<1>. USE DEF ctx, boot, views, streaks
<1>0. /\ TypeOK /\ OpenReport /\ ClosedReport /\ StreakIsCounted /\ NotYetDeclared /\ clock # 0
      /\ SampleDated /\ EndDated /\ PastIsOver /\ Chronology
  BY DEF RefinementInv, DeathInv, TimeInv
<1>n. /\ clock \in Nat /\ clock' \in Nat
      /\ report.firstSeen \in Nat /\ report.dnsChanged \in Nat
      /\ report.retryChanged \in Nat /\ report.death \in Nat
      /\ report.declaredAt \in Nat
      /\ \A i \in DOMAIN streakLog : streakLog[i].at \in Nat
      /\ \A i \in DOMAIN summaries : summaries[i].declaredAt \in Nat
  BY <1>0, TypeStep, TimesAreNat DEF TypeOK
<1>1. ASSUME StartSample PROVE TimeInv'
  <2>1. /\ pc' = "grease" /\ report' = NewReport /\ UNCHANGED <<clock, summaries>>
    BY <1>1 DEF StartSample, FreshReport
  <2>. QED
    BY <1>0, <2>1 DEF TimeInv, SampleDated, EndDated, PastIsOver, Chronology, Bootstrapping,
       Following, Watched
<1>2. ASSUME SamplesExhausted \/ BackoffElapsed \/ BackoffCancelled \/ GreaseFails PROVE TimeInv'
  <2>1. /\ \/ pc = "head" /\ pc' = "done"
           \/ pc \in Bootstrapping /\ pc' \in Bootstrapping \cup {"summary"}
        /\ UNCHANGED <<report, clock, summaries>>
    BY <1>2 DEF SamplesExhausted, BackoffElapsed, BackoffCancelled, GreaseFails, Bootstrapping
  <2>2. pc' # "done" =>
          /\ report' = NewReport /\ pc' \in Bootstrapping \cup {"summary"}
          /\ report'.dnsChanged = 0 /\ report'.retryChanged = 0 /\ ~report'.bootstrapOK
          /\ report'.death = 0 /\ report'.deathReason = "" /\ ~Died(report')
    <3> SUFFICES ASSUME pc' # "done"
                 PROVE  /\ report' = NewReport /\ pc' \in Bootstrapping \cup {"summary"}
                        /\ report'.dnsChanged = 0 /\ report'.retryChanged = 0
                        /\ ~report'.bootstrapOK
                        /\ report'.death = 0 /\ report'.deathReason = "" /\ ~Died(report')
      OBVIOUS
    <3>1. report' = NewReport /\ pc' \in Bootstrapping \cup {"summary"}
      BY <1>0, <2>1 DEF SampleDated
    <3>. QED  BY <3>1 DEF NewReport, Died
  <2>3. SampleDated' /\ EndDated'
    BY <2>1, <2>2 DEF SampleDated, EndDated, Bootstrapping, Following, Watched, Dated
  <2>4. PastIsOver' /\ Chronology'
    BY <1>0, <2>1 DEF PastIsOver, Chronology, Following, Watched, Bootstrapping, OpenReport
  <2>. QED  BY <2>3, <2>4 DEF TimeInv
<1>3. ASSUME WriteSummary PROVE TimeInv'
  <2>. DEFINE n == Len(summaries)
              s == Summary(report)
  <2>1. /\ pc = "summary" /\ pc' \in {"head", "done"} /\ UNCHANGED <<report, clock>>
        /\ summaries' = Append(summaries, s) /\ s \in SummaryLine
        /\ summaries \in Seq(SummaryLine)
    BY <1>0, <1>3, SummaryType DEF WriteSummary, TypeOK
  <2>2. /\ s.bootstrapOK = report.bootstrapOK /\ s.firstSeen = report.firstSeen
        /\ s.declaredAt \in Nat /\ s.declaredAt <= clock
        /\ s.rotationChanged # 0 => s.firstSeen <= s.rotationChanged
        /\ IsDead(s) => s.firstSeen <= s.death /\ s.death <= s.declaredAt
        /\ (IsDead(s) /\ s.rotationChanged # 0) => s.rotationChanged <= s.declaredAt
    BY <1>0, <2>1, SummaryDated DEF ClosedReport
  <2>. HIDE DEF s
  <2>3. /\ n \in Nat /\ DOMAIN summaries = 1 .. n /\ DOMAIN summaries' = 1 .. n + 1
        /\ summaries'[n + 1] = s /\ \A i \in 1 .. n : summaries'[i] = summaries[i]
    BY <2>1
  <2>4. SampleDated' /\ EndDated'
    BY <2>1 DEF SampleDated, EndDated, Bootstrapping, Following, Watched
  <2>5. PastIsOver'
    BY <1>0, <2>1, <2>2, <2>3 DEF PastIsOver, Following, Watched
  <2>6. Chronology'
    <3> SUFFICES ASSUME NEW i \in 1 .. n + 1
                 PROVE  LET t == summaries'[i] IN
                   /\ t.rotationChanged # 0 => t.firstSeen <= t.rotationChanged
                   /\ IsDead(t) => t.firstSeen <= t.death /\ t.death <= t.declaredAt
                   /\ (IsDead(t) /\ t.rotationChanged # 0) => t.rotationChanged <= t.declaredAt
                   /\ (i > 1 /\ t.bootstrapOK) => summaries'[i - 1].declaredAt <= t.firstSeen
      BY <2>3 DEF Chronology
    <3>1. CASE i \in 1 .. n
      <4>1. summaries'[i] = summaries[i]
        BY <2>3, <3>1
      <4>2. i > 1 => summaries'[i - 1] = summaries[i - 1]
        BY <2>3, <3>1
      <4>. QED  BY <1>0, <2>3, <3>1, <4>1, <4>2 DEF Chronology
    <3>2. CASE i = n + 1
      <4>1. summaries'[i] = s
        BY <2>3, <3>2
      <4>2. i > 1 => i - 1 \in 1 .. n /\ i - 1 \in DOMAIN summaries
        BY <2>3, <3>2
      <4>3. (i > 1 /\ s.bootstrapOK) => summaries'[i - 1].declaredAt <= s.firstSeen
        BY <1>0, <2>1, <2>2, <2>3, <4>2 DEF PastIsOver
      <4>. QED  BY <2>2, <4>1, <4>3
    <3>3. i \in 1 .. n \/ i = n + 1
      BY <2>3
    <3>. QED  BY <3>1, <3>2, <3>3
  <2>. QED  BY <2>4, <2>5, <2>6 DEF TimeInv
<1>4. ASSUME NEW c \in Configs, GreaseSucceeds(c) PROVE TimeInv'
  <2>1. /\ pc = "grease" /\ pc' \in {"watch", "baseline"} /\ UNCHANGED <<clock, summaries>>
        /\ report = NewReport
    BY <1>0, <1>4 DEF GreaseSucceeds, SampleDated, Bootstrapping
  <2>2. /\ report'.firstSeen = clock /\ report'.dnsChanged = 0 /\ report'.retryChanged = 0
        /\ report'.death = 0 /\ report'.deathReason = ""
    BY <1>0, <1>4, <2>1 DEF GreaseSucceeds, TypeOK, Report, NewReport
  <2>3. SampleDated' /\ EndDated'
    <3>1. clock' \in Nat /\ report'.firstSeen # 0 /\ report'.firstSeen <= clock'
      <4>1. clock' = clock /\ report'.firstSeen = clock
        BY <2>1, <2>2
      <4>2. clock \in Nat /\ clock # 0
        BY <1>0, <1>n
      <4>. QED  BY <4>1, <4>2
    <3>. QED
      BY <2>1, <2>2, <3>1 DEF SampleDated, EndDated, Bootstrapping, Following, Watched, Dated
  <2>4. PastIsOver' /\ Chronology'
    BY <1>0, <2>1, <2>2 DEF PastIsOver, Chronology
  <2>. QED  BY <2>3, <2>4 DEF TimeInv
<1>5. ASSUME \/ TickArrives \/ CompareReturns \/ KeepWatching \/ AttemptAccepted
             \/ AttemptFailed \/ BeginWatch \/ ContextDone
             \/ \E c \in MaybeConfig : PollBaseline(c) \/ PollTick(c) \/ AttemptRejected(c)
      PROVE  TimeInv'
  <2>1. /\ pc \in Following /\ pc' \in Following \cup {"summary"} /\ UNCHANGED <<clock, summaries>>
        /\ pc' \in Watched => pc \in Watched \cup {"watch"}
        /\ pc' = "summary" => ContextDone
        /\ pc = "watch" => BeginWatch
        /\ pc = "baseline" => pc' = "watch"
    BY <1>5 DEF TickArrives, CompareReturns, KeepWatching, AttemptAccepted, AttemptFailed, BeginWatch,
       ContextDone, PollBaseline, PollTick, AttemptRejected, Following, Watched
  <2>2. /\ report'.firstSeen = report.firstSeen
        /\ report'.death = report.death /\ report'.deathReason = report.deathReason
        /\ report'.declaredAt = report.declaredAt
        /\ report'.dnsChanged \in {report.dnsChanged, clock}
        /\ report'.retryChanged \in {report.retryChanged, clock}
    <3>1. CASE \E c \in MaybeConfig : PollBaseline(c) \/ PollTick(c) \/ AttemptRejected(c)
      BY <1>0, <3>1, RotationKeepsEnding, RotationKeepsReport, RotationIsDatedNow
         DEF PollBaseline, PollTick, AttemptRejected
    <3>2. CASE BeginWatch \/ ContextDone
      BY <1>0, <3>2 DEF BeginWatch, ContextDone, TypeOK, Report
    <3>. QED
      BY <1>5, <3>1, <3>2 DEF TickArrives, CompareReturns, KeepWatching, AttemptAccepted,
         AttemptFailed
  <2>3. /\ report.firstSeen # 0 /\ report.firstSeen <= clock
        /\ report.death = 0 /\ report.deathReason = "" /\ report.declaredAt = 0
        /\ Dated(report.dnsChanged, report.firstSeen, clock)
        /\ Dated(report.retryChanged, report.firstSeen, clock)
    BY <1>0, <2>1 DEF SampleDated, Following, NotYetDeclared
  <2>4. /\ Dated(report'.dnsChanged, report'.firstSeen, clock')
        /\ Dated(report'.retryChanged, report'.firstSeen, clock')
    <3>1. report'.firstSeen = report.firstSeen /\ clock' = clock
      BY <2>1, <2>2
    <3>2. clock \in Nat /\ clock <= clock /\ report.dnsChanged \in Nat /\ report.retryChanged \in Nat
      BY <1>n
    <3>3. Dated(clock, report.firstSeen, clock)
      BY <1>n, <2>3, <3>2, DatesStayGood
    <3>4. /\ report'.dnsChanged \in {report.dnsChanged, clock}
          /\ report'.retryChanged \in {report.retryChanged, clock}
      BY <2>2
    <3>. QED  BY <2>3, <3>1, <3>3, <3>4
  <2>5. pc' \in Watched => \A i \in DOMAIN streakLog' : streakLog'[i].at >= report.firstSeen
    <3>1. CASE BeginWatch \/ AttemptAccepted
      BY <3>1 DEF BeginWatch, AttemptAccepted
    <3>2. CASE AttemptFailed \/ \E c \in MaybeConfig : AttemptRejected(c)
      <4>1. PICK b \in BOOLEAN, c \in MaybeConfig :
              streakLog' = Logged([rejected |-> b, retry |-> c, at |-> clock])
        <5>1. CASE AttemptFailed
          BY <5>1 DEF AttemptFailed, MaybeConfig
        <5>2. CASE \E c \in MaybeConfig : AttemptRejected(c)
          BY <5>2 DEF AttemptRejected
        <5>. QED  BY <3>2, <5>1, <5>2
      <4>. DEFINE p == [rejected |-> b, retry |-> c, at |-> clock]
      <4>p. p \in Probe /\ p.at = clock
        BY <1>n DEF Probe
      <4>. HIDE DEF p
      <4>2. \A i \in DOMAIN streakLog : streakLog[i].at >= report.firstSeen
        BY <1>0, <3>2 DEF AttemptFailed, AttemptRejected, SampleDated, Watched
      <4>3. streakLog \in Seq(Probe) /\ Append(streakLog, p) \in Seq(Probe)
        BY <1>0, <4>p DEF TypeOK
      <4>4. \A i \in DOMAIN Append(streakLog, p) : Append(streakLog, p)[i].at >= report.firstSeen
        <5>1. p.at >= report.firstSeen
          BY <2>3, <4>p
        <5>2. \A i \in DOMAIN Append(streakLog, p) :
                \/ i \in DOMAIN streakLog /\ Append(streakLog, p)[i] = streakLog[i]
                \/ Append(streakLog, p)[i] = p
          BY <4>3
        <5>. QED  BY <4>2, <5>1, <5>2
      <4>. QED  BY <4>1, <4>2, <4>4 DEF Logged, p
    <3>3. CASE \/ TickArrives \/ CompareReturns \/ KeepWatching \/ ContextDone
               \/ \E c \in MaybeConfig : PollBaseline(c) \/ PollTick(c)
      <4>1. streakLog' = streakLog /\ (pc' \in Watched => pc \in Watched)
        BY <3>3 DEF TickArrives, CompareReturns, KeepWatching, ContextDone, PollBaseline, PollTick,
           Watched
      <4>. QED  BY <1>0, <4>1 DEF SampleDated
    <3>. QED  BY <1>5, <3>1, <3>2, <3>3
  <2>6. SampleDated'
    <3>1. pc' \notin Bootstrapping
      BY <2>1 DEF Bootstrapping, Following, Watched
    <3>. QED  BY <2>1, <2>2, <2>3, <2>4, <2>5, <3>1 DEF SampleDated
  <2>7. EndDated'
    <3>1. CASE pc' = "summary"
      <4>1. report'.bootstrapOK /\ report'.declaredAt = 0
        BY <1>0, <2>1, <2>2, <2>3, <3>1 DEF ContextDone, OpenReport, Watched, TypeOK, Report
      <4>. QED  BY <2>2, <2>3, <4>1 DEF EndDated, Died
    <3>. QED  BY <3>1 DEF EndDated
  <2>8. PastIsOver' /\ Chronology'
    BY <1>0, <2>1, <2>2 DEF PastIsOver, Chronology
  <2>. QED  BY <2>6, <2>7, <2>8 DEF TimeInv
<1>6. ASSUME DeclareDeath PROVE TimeInv'
  <2>1. /\ pc = "verdict" /\ pc' = "summary" /\ UNCHANGED <<clock, summaries, streakLog>>
        /\ streak.failures >= MaxFailures
    BY <1>6 DEF DeclareDeath
  <2>2. /\ report'.firstSeen = report.firstSeen /\ report'.bootstrapOK = report.bootstrapOK
        /\ report'.death = streak.start /\ report'.declaredAt = clock
        /\ report'.deathReason = deathReason(streak.rejections, streak.failures)
        /\ report'.dnsChanged = report.dnsChanged /\ report'.retryChanged = report.retryChanged
    BY <1>0, <1>6 DEF DeclareDeath, TypeOK, Report
  <2>3. /\ report.firstSeen # 0 /\ report.firstSeen <= clock /\ report.bootstrapOK
        /\ Dated(report.dnsChanged, report.firstSeen, clock)
        /\ Dated(report.retryChanged, report.firstSeen, clock)
        /\ \A i \in DOMAIN streakLog : streakLog[i].at >= report.firstSeen
    BY <1>0, <2>1 DEF SampleDated, Following, Watched, OpenReport
  <2>4. 1 \in DOMAIN streakLog /\ streak.start = streakLog[1].at
    <3>1. streak.failures = Len(streakLog) /\ streakLog \in Seq(Probe)
      BY <1>0, <2>1 DEF StreakIsCounted, Watched, TypeOK
    <3>2. Len(streakLog) >= 1 /\ streakLog # <<>>
      BY <2>1, <3>1, MaxFailuresAssumption
    <3>3. 1 \in DOMAIN streakLog
      BY <3>1, <3>2
    <3>. QED  BY <1>0, <2>1, <3>2, <3>3 DEF StreakIsCounted, Watched
  <2>5. streak.start <= clock
    BY <2>4 DEF RefinementInv, DeathInv, LoggedInThePast
  <2>6. report.firstSeen <= streak.start /\ streak.start \in Nat
    BY <1>n, <2>3, <2>4
  <2>7. report'.deathReason # ""
    BY <2>2 DEF deathReason
  <2>8. SampleDated'
    BY <2>1, <2>2, <2>3 DEF SampleDated, Dated, Bootstrapping, Following, Watched
  <2>9. EndDated'
    <3>1. report.dnsChanged <= clock /\ report.retryChanged <= clock
      BY <1>n, <2>3 DEF Dated
    <3>2. /\ report'.declaredAt = clock /\ report'.declaredAt # 0 /\ clock' = clock
          /\ report'.dnsChanged <= clock /\ report'.retryChanged <= clock
          /\ report'.declaredAt <= clock'
      BY <1>0, <1>n, <2>1, <2>2, <3>1
    <3>3. /\ report'.firstSeen <= report'.death /\ report'.death <= report'.declaredAt
          /\ report'.firstSeen # 0 /\ report'.bootstrapOK
      BY <2>2, <2>3, <2>5, <2>6
    <3>. QED  BY <2>2, <2>7, <3>2, <3>3 DEF EndDated, Died
  <2>10. PastIsOver' /\ Chronology'
    BY <1>0, <2>1, <2>2 DEF PastIsOver, Chronology, Following, Watched
  <2>. QED  BY <2>8, <2>9, <2>10 DEF TimeInv
<1>7. ASSUME TimePasses PROVE TimeInv'
  <2>1. clock <= clock' /\ UNCHANGED <<pc, report, streakLog, summaries>>
    BY <1>n, <1>7 DEF TimePasses
  <2>2. SampleDated'
    <3>1. \A changed \in Nat :
            Dated(changed, report.firstSeen, clock) => Dated(changed, report.firstSeen, clock')
      BY <1>n, <2>1 DEF Dated
    <3>2. report.firstSeen <= clock => report.firstSeen <= clock'
      BY <1>n, <2>1
    <3>. QED  BY <1>0, <1>n, <2>1, <3>1, <3>2 DEF SampleDated
  <2>3. EndDated'
    <3>1. report.declaredAt <= clock => report.declaredAt <= clock'
      BY <1>n, <2>1
    <3>. QED  BY <1>0, <2>1, <3>1 DEF EndDated, Died
  <2>4. PastIsOver' /\ Chronology'
    BY <1>0, <1>n, <2>1 DEF PastIsOver, Chronology
  <2>. QED  BY <2>2, <2>3, <2>4 DEF TimeInv
<1>8. ASSUME Cancel \/ UNCHANGED vars PROVE TimeInv'
  BY <1>0, <1>8 DEF Cancel, vars, TimeInv, SampleDated, EndDated, PastIsOver, Chronology, Dated, Died
<1>. QED
  BY <1>1, <1>2, <1>3, <1>4, <1>5, <1>6, <1>7, <1>8
     DEF Next, Internal, GreaseAnswers, DNSAnswers, ServerAnswers, Terminated

-----------------------------------------------------------------------------
(* What is on file                                                         *)

\* The loop appends and goes on as it does because sampleN counts the summaries
\* (SamplesCounted) and the report tells the three endings apart (EndDated).
LEMMA OnFileInit == Init => OnFile
  BY DEF Init, OnFile, SequenceOfSamples

\* A line written at the end of a sample has one outcome, the one the loop acts on.
LEMMA OutcomeIsWritten ==
  ASSUME RefinementInv, EndDated, pc = "summary"
  PROVE  LET s == Summary(report) IN
         /\ OneOutcome(s) /\ s.sample = sample
         /\ IsDead(s) <=> Died(report)
<1>1. /\ TypeOK
      /\ Died(report) <=> Outcome(report) = "dead"
      /\ ~Died(report) => report.death = 0 /\ report.deathReason = ""
      /\ Died(report) => report.deathReason # "" /\ report.death # 0
  <2>1. /\ TypeOK /\ report.firstSeen \in Nat /\ report.death \in Nat /\ FatalStreak
    BY TimesAreNat DEF RefinementInv, DeathInv
  <2>2. Died(report) => report.bootstrapOK
    BY DEF RefinementInv, ClosedReport, Outcome
  <2>3. Died(report) => report.firstSeen # 0 /\ report.firstSeen <= report.death
    BY <2>2 DEF EndDated
  <2>4. Died(report) => report.death # 0
    BY <2>1, <2>3
  <2>5. /\ ~Died(report) => report.death = 0 /\ report.deathReason = ""
        /\ Died(report) => report.deathReason # ""
    BY DEF EndDated
  <2>6. Died(report) <=> Outcome(report) = "dead"
    BY DEF RefinementInv, ClosedReport
  <2>. QED  BY <2>1, <2>4, <2>5, <2>6
<1>2. report.bootstrapOK \in BOOLEAN /\ report.alive \in BOOLEAN
  BY <1>1 DEF TypeOK, Report
<1>3. ~report.bootstrapOK => ~report.alive
  <2>1. ~report.bootstrapOK => report = NewReport
    BY DEF EndDated
  <2>. QED  BY <2>1, BlankReport
<1>. QED  BY <1>1, <1>2, <1>3 DEF Summary, OneOutcome, IsDead, Outcome, Died

LEMMA OnFileStep == RefinementInv /\ EndDated /\ OnFile /\ [Next]_vars => OnFile'
<1> SUFFICES ASSUME RefinementInv, EndDated, OnFile, [Next]_vars PROVE OnFile'
  OBVIOUS
<1>0. /\ summaries \in Seq(SummaryLine) /\ SamplesCounted /\ sample \in Nat
      /\ Samples \in Nat
  BY SamplesAssumption DEF RefinementInv, DeathInv, TypeOK
<1>1. ASSUME WriteSummary PROVE OnFile'
  <2>. DEFINE n == Len(summaries)
              s == Summary(report)
  <2>1. /\ pc = "summary" /\ summaries' = Append(summaries, s) /\ s \in SummaryLine
        /\ Died(report) => pc' = "head"
        /\ ~Died(report) => pc' = "done"
    BY <1>1, SummaryType DEF WriteSummary, RefinementInv, DeathInv
  <2>2. /\ OneOutcome(s) /\ s.sample = sample
        /\ IsDead(s) <=> Died(report)
    BY <2>1, OutcomeIsWritten
  <2>. HIDE DEF s
  <2>3. /\ n \in Nat /\ DOMAIN summaries = 1 .. n /\ DOMAIN summaries' = 1 .. n + 1
        /\ Len(summaries') = n + 1 /\ summaries' # <<>>
        /\ summaries'[n + 1] = s /\ \A i \in 1 .. n : summaries'[i] = summaries[i]
    BY <1>0, <2>1
  <2>4. sample = n + 1
    BY <1>0, <2>1 DEF SamplesCounted
  <2>5. /\ \A i \in 1 .. n : IsDead(summaries[i])
        /\ \A i \in 1 .. n : summaries[i].sample = i /\ OneOutcome(summaries[i])
    BY <2>1, <2>3 DEF OnFile, SequenceOfSamples
  <2>6. \A i \in 1 .. n + 1 : i \in 1 .. n \/ i = n + 1
    BY <2>3
  <2>7. \A i \in 1 .. n + 1 : summaries'[i].sample = i /\ OneOutcome(summaries'[i])
    BY <2>2, <2>3, <2>4, <2>5, <2>6
  <2>8. \A i \in 1 .. n : IsDead(summaries'[i])
    BY <2>3, <2>5
  <2>9. pc' # "done" => \A i \in 1 .. n + 1 : IsDead(summaries'[i])
    BY <2>1, <2>2, <2>3, <2>6, <2>8
  <2>10. pc' = "done" => ~IsDead(summaries'[Len(summaries')])
    BY <2>1, <2>2, <2>3
  <2>11. \A i \in 1 .. n + 1 : i < n + 1 => IsDead(summaries'[i])
    BY <2>3, <2>6, <2>8
  <2>. QED  BY <2>3, <2>7, <2>9, <2>10, <2>11 DEF OnFile, SequenceOfSamples
<1>2. ASSUME SamplesExhausted PROVE OnFile'
  <2>1. pc = "head" /\ pc' = "done" /\ summaries' = summaries /\ Samples # 0 /\ sample > Samples
    BY <1>0, <1>2 DEF SamplesExhausted, HasBudget
  <2>2. Len(summaries) = Samples
    BY <1>0, <2>1 DEF SamplesCounted
  <2>3. summaries # <<>>
    BY <2>1, <2>2
  <2>. QED  BY <2>1, <2>2, <2>3 DEF OnFile, SequenceOfSamples
<1>3. ASSUME summaries' = summaries, pc' = "done" <=> pc = "done" PROVE OnFile'
  BY <1>3 DEF OnFile, SequenceOfSamples
<1>. QED
  BY <1>1, <1>2, <1>3
     DEF Next, Internal, GreaseAnswers, DNSAnswers, ServerAnswers, Terminated, vars, StartSample,
         BackoffElapsed, BackoffCancelled, BeginWatch, TickArrives, ContextDone, CompareReturns,
         DeclareDeath, KeepWatching, GreaseFails, GreaseSucceeds, PollBaseline, PollTick,
         AttemptAccepted, AttemptFailed, AttemptRejected, Cancel, TimePasses

-----------------------------------------------------------------------------
(* The first sign of a rotation                                            *)

\* The report dates a channel by its first record only if records are appended as time
\* goes on.
LEMMA SignsDatedInit == Init => SignsDated
<1> SUFFICES ASSUME Init PROVE SignsDated
  OBVIOUS
<1>1. observed = <<>> /\ report = NewReport
  BY DEF Init
<1>2. DOMAIN observed = {}
  BY <1>1
<1>3. report.dnsChanged = 0 /\ report.retryChanged = 0
  BY <1>1, BlankReport
<1>. QED  BY <1>2, <1>3 DEF SignsDated, ChannelDated

\* What appending a record of the present does to a channel: one of another source leaves
\* it alone, and one of its own dates it unless it is dated.
LEMMA RecordDates ==
  ASSUME TypeOK, clock # 0, NEW source \in Sources, NEW changed \in Nat,
         ChannelDated(source, changed),
         \A i \in DOMAIN observed : observed[i].at <= clock,
         NEW o \in Observation, o.at = clock,
         observed' = Append(observed, o)
  PROVE  LET first == IF o.source = source /\ changed = 0 THEN clock ELSE changed IN
         /\ first = 0 <=> \A i \in DOMAIN observed' : observed'[i].source # source
         /\ first # 0 => \E i \in DOMAIN observed' : /\ observed'[i].source = source
                                                     /\ observed'[i].at = first
         /\ \A i \in DOMAIN observed' : observed'[i].source = source => observed'[i].at >= first
<1>. DEFINE n == Len(observed)
            first == IF o.source = source /\ changed = 0 THEN clock ELSE changed
<1>1. /\ n \in Nat /\ DOMAIN observed = 1 .. n /\ DOMAIN observed' = 1 .. n + 1
      /\ observed'[n + 1] = o /\ \A i \in 1 .. n : observed'[i] = observed[i]
      /\ \A i \in 1 .. n + 1 : i \in 1 .. n \/ i = n + 1
      /\ n + 1 \in 1 .. n + 1 /\ 1 .. n \subseteq 1 .. n + 1
  BY DEF TypeOK
<1>2. changed # 0 => changed <= clock
  <2>1. changed # 0 => \E i \in DOMAIN observed : observed[i].at = changed
    BY DEF ChannelDated
  <2>. QED  BY <2>1
<1>3. clock \in Nat
  BY DEF TypeOK
<1>4. CASE o.source # source
  <2>1. first = changed
    BY <1>4
  <2>. QED  BY <1>1, <1>4, <2>1 DEF ChannelDated
<1>5. CASE o.source = source /\ changed = 0
  <2>1. first = clock /\ \A i \in 1 .. n : observed[i].source # source
    BY <1>1, <1>5 DEF ChannelDated
  <2>. QED  BY <1>1, <1>3, <1>5, <2>1
<1>6. CASE o.source = source /\ changed # 0
  <2>1. first = changed
    BY <1>6
  <2>2. o.at >= first
    BY <1>2, <1>3, <1>6, <2>1
  <2>. QED  BY <1>1, <1>6, <2>1, <2>2 DEF ChannelDated
<1>. QED  BY <1>4, <1>5, <1>6

\* A poll or a rejection that reports a rotation keeps the channels dated.
LEMMA RotationIsRecorded ==
  ASSUME TypeOK, clock # 0, SignsDated, NEW c \in MaybeConfig,
         pollDNS(c) \/ recordIfChanged(c), clock' = clock
  PROVE  SignsDated'
<1>. USE DEF Sources
<1>1. CASE UNCHANGED views
  BY <1>1 DEF views, SignsDated, ChannelDated
<1>2. ASSUME NEW source \in {"dns", "retry"}, observed' = Append(observed, Seen(source, c)),
             c \in Configs,
             report'.dnsChanged = IF source = "dns" /\ report.dnsChanged = 0 THEN clock
                                  ELSE report.dnsChanged,
             report'.retryChanged = IF source = "retry" /\ report.retryChanged = 0 THEN clock
                                    ELSE report.retryChanged
      PROVE  SignsDated'
  <2>. DEFINE o == Seen(source, c)
  <2>1. clock \in Nat /\ report.dnsChanged \in Nat /\ report.retryChanged \in Nat
    BY TimesAreNat
  <2>2. o \in Observation /\ o.at = clock /\ o.source = source
    BY <1>2, <2>1 DEF Seen, Observation
  <2>. HIDE DEF o
  <2>3. \A i \in DOMAIN observed' : observed'[i].at # 0 /\ observed'[i].at <= clock'
    <3>1. \A i \in DOMAIN observed' :
            \/ i \in DOMAIN observed /\ observed'[i] = observed[i]
            \/ observed'[i] = o
      BY <1>2, <2>2 DEF TypeOK, o
    <3>. QED  BY <2>1, <2>2, <3>1 DEF SignsDated
  <2>4. /\ ChannelDated("dns", report.dnsChanged)
        /\ ChannelDated("retry", report.retryChanged)
        /\ \A i \in DOMAIN observed : observed[i].at <= clock
    BY DEF SignsDated
  <2>5. observed' = Append(observed, o)
    BY <1>2 DEF o
  <2>6. LET first == report'.dnsChanged IN
         /\ first = 0 <=> \A i \in DOMAIN observed' : observed'[i].source # "dns"
         /\ first # 0 => \E i \in DOMAIN observed' : /\ observed'[i].source = "dns"
                                                     /\ observed'[i].at = first
         /\ \A i \in DOMAIN observed' : observed'[i].source = "dns" => observed'[i].at >= first
    BY <1>2, <2>1, <2>2, <2>4, <2>5, RecordDates
  <2>7. LET first == report'.retryChanged IN
         /\ first = 0 <=> \A i \in DOMAIN observed' : observed'[i].source # "retry"
         /\ first # 0 => \E i \in DOMAIN observed' : /\ observed'[i].source = "retry"
                                                     /\ observed'[i].at = first
         /\ \A i \in DOMAIN observed' : observed'[i].source = "retry" => observed'[i].at >= first
    BY <1>2, <2>1, <2>2, <2>4, <2>5, RecordDates
  <2>. QED  BY <2>3, <2>6, <2>7 DEF SignsDated, ChannelDated
<1>3. CASE pollDNS(c) /\ News(c, report.dnsLastSeen)
  <2>1. /\ observed' = Append(observed, Seen("dns", c)) /\ c \in Configs
        /\ report' = [report EXCEPT
             !.dnsLastSeen = c,
             !.dnsRotations = @ + 1,
             !.dnsChanged = IF @ = 0 THEN clock ELSE @]
    BY <1>3 DEF pollDNS, News, MaybeConfig
  <2>2. /\ report'.dnsChanged = IF report.dnsChanged = 0 THEN clock ELSE report.dnsChanged
        /\ report'.retryChanged = report.retryChanged
    BY <2>1 DEF TypeOK, Report
  <2>. QED  BY <1>2, <2>1, <2>2
<1>4. CASE recordIfChanged(c) /\ News(c, report.retryLastSeen)
  <2>1. /\ observed' = Append(observed, Seen("retry", c)) /\ c \in Configs
        /\ report' = [report EXCEPT
             !.retryLastSeen = c,
             !.retryRotations = @ + 1,
             !.retryChanged = IF @ = 0 THEN clock ELSE @]
    BY <1>4 DEF recordIfChanged, News, MaybeConfig
  <2>2. /\ report'.retryChanged = IF report.retryChanged = 0 THEN clock ELSE report.retryChanged
        /\ report'.dnsChanged = report.dnsChanged
    BY <2>1 DEF TypeOK, Report
  <2>. QED  BY <1>2, <2>1, <2>2
<1>. QED  BY <1>1, <1>3, <1>4 DEF pollDNS, recordIfChanged

LEMMA SignsDatedStep == RefinementInv /\ SampleDated /\ SignsDated /\ [Next]_vars => SignsDated'
<1> SUFFICES ASSUME RefinementInv, SampleDated, SignsDated, [Next]_vars PROVE SignsDated'
  OBVIOUS
<1>. USE DEF ctx, boot, views, streaks
<1>0. TypeOK /\ clock # 0
  BY DEF RefinementInv, DeathInv
<1>1. ASSUME NEW c \in MaybeConfig, PollBaseline(c) \/ PollTick(c) \/ AttemptRejected(c)
      PROVE  SignsDated'
  BY <1>0, <1>1, RotationIsRecorded DEF PollBaseline, PollTick, AttemptRejected
<1>2. ASSUME StartSample PROVE SignsDated'
  <2>1. observed' = <<>> /\ report' = NewReport
    BY <1>2 DEF StartSample, FreshReport
  <2>2. DOMAIN observed' = {}
    BY <2>1
  <2>3. report'.dnsChanged = 0 /\ report'.retryChanged = 0
    BY <2>1, BlankReport
  <2>. QED  BY <2>2, <2>3 DEF SignsDated, ChannelDated
<1>3. ASSUME NEW c \in Configs, GreaseSucceeds(c) PROVE SignsDated'
  <2>1. report = NewReport
    BY <1>3 DEF GreaseSucceeds, SampleDated, Bootstrapping
  <2>2. report'.dnsChanged = 0 /\ report'.retryChanged = 0
    BY <1>0, <1>3, <2>1, BlankReport DEF GreaseSucceeds, TypeOK, Report
  <2>3. observed' = <<Seen("grease", c)>> /\ clock' = clock
    BY <1>3 DEF GreaseSucceeds
  <2>4. DOMAIN observed' = {1} /\ observed'[1] = Seen("grease", c)
    BY <2>3
  <2>5. observed'[1].source = "grease" /\ observed'[1].at = clock
    BY <2>4 DEF Seen
  <2>. QED  BY <1>0, <2>2, <2>3, <2>4, <2>5 DEF SignsDated, ChannelDated, TypeOK
<1>4. ASSUME TimePasses PROVE SignsDated'
  <2>1. clock \in Nat /\ clock' \in Nat /\ clock <= clock' /\ UNCHANGED <<report, observed>>
    BY <1>0, <1>4 DEF TimePasses, TypeOK
  <2>2. \A i \in DOMAIN observed : observed[i].at \in Nat
    <3>1. \A i \in DOMAIN observed : observed[i] \in Observation
      BY <1>0 DEF TypeOK
    <3>. QED  BY <3>1 DEF Observation
  <2>. QED  BY <2>1, <2>2 DEF SignsDated, ChannelDated
<1>5. ASSUME UNCHANGED <<observed, clock, report.dnsChanged, report.retryChanged>>
      PROVE  SignsDated'
  BY <1>5 DEF SignsDated, ChannelDated
<1>6. ASSUME BeginWatch \/ ContextDone \/ DeclareDeath PROVE SignsDated'
  <2>1. UNCHANGED <<observed, clock, report.dnsChanged, report.retryChanged>>
    BY <1>0, <1>6 DEF BeginWatch, ContextDone, DeclareDeath, TypeOK, Report
  <2>. QED  BY <1>5, <2>1
<1>. QED
  BY <1>1, <1>2, <1>3, <1>4, <1>5, <1>6
     DEF Next, Internal, GreaseAnswers, DNSAnswers, ServerAnswers, Terminated, vars,
         SamplesExhausted, BackoffElapsed, BackoffCancelled, TickArrives, CompareReturns,
         KeepWatching, WriteSummary, GreaseFails, AttemptAccepted, AttemptFailed, Cancel

\* The first sign of either channel is the first sign there is.
LEMMA SignsDatedIsFirst == TypeOK /\ SignsDated => RotationIsFirstSign
<1> SUFFICES ASSUME TypeOK, SignsDated PROVE RotationIsFirstSign
  OBVIOUS
<1>. DEFINE d == report.dnsChanged
            r == report.retryChanged
            first == rotation(report)
<1>1. /\ d \in Nat /\ r \in Nat
      /\ \A i \in DOMAIN observed : /\ observed[i].source \in {"grease", "retry", "dns"}
                                    /\ observed[i].at \in Nat
  <2>1. \A i \in DOMAIN observed : observed[i] \in Observation
    BY DEF TypeOK
  <2>. QED  BY <2>1, TimesAreNat DEF Observation, Sources
<1>2. ChannelDated("dns", d) /\ ChannelDated("retry", r)
  BY DEF SignsDated
<1>3. \/ d = 0 /\ first.at = r /\ first.source = "retry"
      \/ r # 0 /\ r < d /\ first.at = r /\ first.source = "retry"
      \/ d # 0 /\ (r = 0 \/ d <= r) /\ first.at = d /\ first.source = "dns"
  BY <1>1 DEF rotation
<1>. HIDE DEF first, d, r
<1>4. CASE d = 0 /\ r = 0
  <2>1. first.at = 0 /\ {i \in DOMAIN observed : observed[i].source # "grease"} = {}
    BY <1>1, <1>2, <1>3, <1>4 DEF ChannelDated
  <2>. QED  BY <2>1 DEF RotationIsFirstSign, first
<1>5. CASE d # 0 \/ r # 0
  <2>1. \E i \in DOMAIN observed : /\ observed[i].source # "grease"
                                   /\ observed[i].at = first.at
                                   /\ observed[i].source = first.source
    BY <1>2, <1>3, <1>5 DEF ChannelDated
  <2>2. \A i \in DOMAIN observed : observed[i].source # "grease" => observed[i].at >= first.at
    BY <1>1, <1>2, <1>3, <1>5 DEF ChannelDated
  <2>. QED  BY <2>1, <2>2 DEF RotationIsFirstSign, first
<1>. QED  BY <1>4, <1>5

-----------------------------------------------------------------------------
(* The ticker                                                              *)

\* Ticks that the loop has taken, has waiting, or gets next: in an attempt one more
\* than the failures before it.
Ticks(failures, place, waiting) ==
    failures + (IF place \in {"pollDNS", "attempt"} THEN 2 ELSE 1)
             + (IF waiting = TRUE THEN 1 ELSE 0)

LEMMA TicksAreNat ==
  ASSUME NEW failures \in Nat, NEW place, NEW waiting
  PROVE  Ticks(failures, place, waiting) \in Nat
<1>1. CASE waiting = TRUE
  BY <1>1 DEF Ticks
<1>2. CASE waiting # TRUE
  BY <1>2 DEF Ticks
<1>. QED  BY <1>1, <1>2

\* The next tick comes that many intervals after the config was first seen.
TickerPaced ==
    pc \in Watched =>
        /\ timer \in 1 .. Interval
        /\ clock < MaxTime =>
             /\ clock + timer >= report.firstSeen + Ticks(Len(streakLog), pc, fired) * Interval
             /\ \A i \in DOMAIN streakLog :
                  streakLog[i].at >= report.firstSeen + i * Interval

LEMMA OneIntervalMore ==
  /\ \A k \in Nat : k * Interval \in Nat /\ (k + 1) * Interval = k * Interval + Interval
  /\ 1 * Interval = Interval
  /\ \A j, k \in Nat : j <= k => j * Interval <= k * Interval
<1>1. /\ \A k \in Nat : k * Interval \in Nat /\ (k + 1) * Interval = k * Interval + Interval
      /\ 1 * Interval = Interval
  BY IntervalAssumption
<1>2. ASSUME NEW j \in Nat, NEW k \in Nat, j <= k PROVE j * Interval <= k * Interval
  <2>1. k = j + (k - j) /\ k - j \in Nat
    BY <1>2
  <2>2. k * Interval = j * Interval + (k - j) * Interval
    BY <2>1, IntervalAssumption
  <2>3. (k - j) * Interval \in Nat /\ j * Interval \in Nat
    BY <1>1, <2>1
  <2>. QED  BY <2>2, <2>3
<1>. QED  BY <1>1, <1>2

LEMMA TickerPacedInit == Init => TickerPaced
  BY DEF Init, TickerPaced, Watched

LEMMA TickerPacedStep ==
  RefinementInv /\ TimeInv /\ TickerPaced /\ [Next]_vars => TickerPaced'
<1> SUFFICES ASSUME RefinementInv, TimeInv, TickerPaced, [Next]_vars PROVE TickerPaced'
  OBVIOUS
<1>. DEFINE n == Len(streakLog)
            ticks == Ticks(n, pc, fired)
<1>a. TypeOK /\ TypeOK' /\ StreakIsCounted /\ SampleDated
  BY TypeStep DEF RefinementInv, DeathInv, TimeInv
<1>b. /\ timer \in Nat /\ fired \in BOOLEAN /\ fired' \in BOOLEAN
      /\ streakLog \in Seq(Probe)
  BY <1>a DEF TypeOK
<1>c. n \in Nat /\ DOMAIN streakLog = 1 .. n
  BY <1>b
<1>d. /\ clock \in Nat /\ report.firstSeen \in Nat /\ Interval \in Nat /\ Interval >= 1
      /\ MaxTime \in Nat
  BY <1>a, TimesAreNat, IntervalAssumption, MaxTimeAssumption
<1>0. /\ TypeOK /\ TypeOK' /\ StreakIsCounted /\ SampleDated
      /\ clock \in Nat /\ timer \in Nat /\ fired \in BOOLEAN /\ Interval \in Nat /\ Interval >= 1
      /\ MaxTime \in Nat /\ n \in Nat /\ DOMAIN streakLog = 1 .. n /\ report.firstSeen \in Nat
  BY <1>a, <1>b, <1>c, <1>d
<1>. USE DEF ctx, ticker, boot, views, streaks
\* Steps that do not enter or stay in the loop.
<1>1. ASSUME pc' \notin Watched PROVE TickerPaced'
  BY <1>1 DEF TickerPaced
<1>2. ASSUME BeginWatch PROVE TickerPaced'
  <2>1. /\ streakLog' = <<>> /\ timer' = Interval /\ fired' = FALSE /\ pc' = "select"
        /\ clock' = clock /\ report'.firstSeen = report.firstSeen
        /\ report.firstSeen <= clock
    BY <1>0, <1>2 DEF BeginWatch, ArmTimer, SampleDated, Following, TypeOK, Report
  <2>2. Ticks(Len(streakLog'), pc', fired') = 1
    BY <2>1 DEF Ticks
  <2>. QED  BY <1>0, <2>1, <2>2, OneIntervalMore DEF TickerPaced
<1>3. ASSUME TickArrives \/ CompareReturns \/ KeepWatching \/ (\E c \in MaybeConfig : PollTick(c))
      PROVE  TickerPaced'
  <2>1. /\ pc \in Watched
        /\ clock' = clock /\ timer' = timer /\ streakLog' = streakLog
        /\ \/ /\ pc = "select" /\ pc' \in {"pollDNS", "attempt"}
              /\ fired = TRUE /\ fired' = FALSE
           \/ /\ pc = "pollDNS" /\ pc' = "attempt" /\ fired' = fired
           \/ /\ pc \in {"compare", "verdict"} /\ pc' \in {"verdict", "select"} /\ fired' = fired
    BY <1>b, <1>3 DEF TickArrives, CompareReturns, KeepWatching, PollTick, Watched
  <2>3. Ticks(n, pc', fired') = ticks
    <3>1. CASE pc = "select"
      <4>1. ticks = n + 1 + 1
        BY <1>c, <2>1, <3>1 DEF Ticks
      <4>2. Ticks(n, pc', fired') = n + 2 + 0
        BY <1>c, <2>1, <3>1 DEF Ticks
      <4>. QED  BY <1>c, <4>1, <4>2
    <3>2. CASE pc # "select"
      BY <1>c, <2>1, <3>2 DEF Ticks
    <3>. QED  BY <3>1, <3>2
  <2>. HIDE DEF ticks
  <2>2. report'.firstSeen = report.firstSeen
    <3>1. ASSUME NEW c \in MaybeConfig, PollTick(c) PROVE report'.firstSeen = report.firstSeen
      BY <1>0, <3>1, RotationKeepsReport DEF PollTick
    <3>. QED  BY <1>3, <3>1 DEF TickArrives, CompareReturns, KeepWatching
  <2>. QED  BY <2>1, <2>2, <2>3 DEF TickerPaced, ticks
<1>4. ASSUME AttemptAccepted PROVE TickerPaced'
  <2>1. /\ pc = "attempt" /\ pc' = "select" /\ streakLog' = <<>> /\ fired' = fired
        /\ clock' = clock /\ timer' = timer /\ report' = report
    BY <1>4 DEF AttemptAccepted
  <2>2. /\ timer \in 1 .. Interval
        /\ clock < MaxTime => clock + timer >= report.firstSeen + ticks * Interval
    BY <2>1 DEF TickerPaced, Watched
  <2>. DEFINE later == Ticks(0, pc', fired')
  <2>3. ticks \in Nat /\ later \in Nat /\ later <= ticks
    BY <1>c, <2>1 DEF Ticks
  <2>. HIDE DEF ticks, later
  <2>4. /\ later * Interval <= ticks * Interval
        /\ later * Interval \in Nat /\ ticks * Interval \in Nat
    BY <2>3, OneIntervalMore
  <2>5. clock < MaxTime => clock + timer >= report.firstSeen + later * Interval
    BY <1>d, <1>b, <2>2, <2>4
  <2>. QED  BY <2>1, <2>2, <2>5 DEF TickerPaced, later
<1>5. ASSUME NEW rejected \in BOOLEAN, NEW c \in MaybeConfig,
             IF rejected THEN AttemptRejected(c) ELSE AttemptFailed /\ c = NoConfig
      PROVE  TickerPaced'
  <2>. DEFINE probe == [rejected |-> rejected, retry |-> c, at |-> clock]
  <2>1. /\ pc = "attempt" /\ pc' \in {"compare", "verdict"} /\ fired' = fired
        /\ clock' = clock /\ timer' = timer /\ streakLog' = Logged(probe)
    BY <1>5 DEF AttemptRejected, AttemptFailed
  <2>2. report'.firstSeen = report.firstSeen
    BY <1>0, <1>5, RotationKeepsReport DEF AttemptRejected, AttemptFailed
  <2>3. probe \in Probe /\ probe.at = clock
    BY <1>0 DEF Probe
  <2>. HIDE DEF probe
  <2>4. n < MaxFailures /\ MaxFailures \in Nat
    BY <1>0, <2>1, MaxFailuresAssumption DEF StreakIsCounted, Watched
  <2>5. /\ streakLog' = Append(streakLog, probe) /\ streakLog \in Seq(Probe)
        /\ Len(streakLog') = n + 1 /\ DOMAIN streakLog' = 1 .. n + 1
        /\ streakLog'[n + 1] = probe
        /\ \A i \in 1 .. n : streakLog'[i] = streakLog[i]
    <3>1. streakLog' = Append(streakLog, probe)
      <4>1. ~(Len(streakLog) > MaxFailures)
        BY <1>c, <2>4
      <4>. QED  BY <2>1, <4>1 DEF Logged
    <3>. QED  BY <1>b, <1>c, <2>3, <3>1
  <2>6. Ticks(n + 1, pc', fired') = ticks /\ ticks \in Nat /\ n + 2 <= ticks
    BY <1>c, <2>1 DEF Ticks
  <2>. HIDE DEF ticks
  <2>7. timer \in 1 .. Interval
    BY <2>1 DEF TickerPaced, Watched
  <2>8. ASSUME clock < MaxTime
        PROVE  /\ clock + timer >= report.firstSeen + ticks * Interval
               /\ clock >= report.firstSeen + (n + 1) * Interval
               /\ \A i \in 1 .. n : streakLog[i].at >= report.firstSeen + i * Interval
    <3>1. /\ clock + timer >= report.firstSeen + ticks * Interval
          /\ \A i \in 1 .. n : streakLog[i].at >= report.firstSeen + i * Interval
      BY <1>c, <2>1, <2>8 DEF TickerPaced, Watched, ticks
    <3>2. (n + 2) * Interval <= ticks * Interval
      BY <1>c, <2>6, OneIntervalMore
    <3>3. (n + 2) * Interval = (n + 1) * Interval + Interval
      <4>1. n + 1 \in Nat /\ n + 2 = (n + 1) + 1
        BY <1>c
      <4>. QED  BY <4>1, OneIntervalMore
    <3>4. (n + 1) * Interval \in Nat /\ ticks * Interval \in Nat
      BY <1>c, <2>6, OneIntervalMore
    <3>5. timer <= Interval
      BY <1>b, <1>d, <2>7
    <3>6. clock >= report.firstSeen + (n + 1) * Interval
      BY <1>b, <1>d, <3>1, <3>2, <3>3, <3>4, <3>5
    <3>. QED  BY <3>1, <3>6
  <2>9. ASSUME clock < MaxTime, NEW i \in 1 .. n + 1
        PROVE  streakLog'[i].at >= report.firstSeen + i * Interval
    <3>1. CASE i = n + 1
      BY <2>3, <2>5, <2>8, <2>9, <3>1
    <3>2. CASE i \in 1 .. n
      BY <2>5, <2>8, <2>9, <3>2
    <3>. QED  BY <1>c, <3>1, <3>2
  <2>. QED  BY <2>1, <2>2, <2>5, <2>6, <2>7, <2>8, <2>9 DEF TickerPaced
<1>6. ASSUME TimePasses, pc \in Watched PROVE TickerPaced'
  <2>1. /\ pc' = pc /\ streakLog' = streakLog /\ report' = report /\ timer \in 1 .. Interval
        /\ clock' = IF clock < MaxTime THEN clock + 1 ELSE clock
        /\ timer' = IF timer = 1 THEN Interval ELSE timer - 1
        /\ fired' = (fired \/ timer = 1)
    BY <1>0, <1>6 DEF TimePasses, TickerPaced
  <2>. DEFINE later == Ticks(n, pc, fired')
  <2>2. /\ ticks \in Nat /\ later \in Nat
        /\ later = ticks \/ (later = ticks + 1 /\ timer = 1)
    <3>1. fired' = fired \/ (fired = FALSE /\ fired' = TRUE /\ timer = 1)
      BY <1>b, <2>1, Zenon
    <3>2. CASE fired' = fired
      <4>1. ticks \in Nat
        BY <1>c, TicksAreNat
      <4>2. later = ticks
        BY <3>2
      <4>. QED  BY <4>1, <4>2
    <3>3. CASE fired = FALSE /\ fired' = TRUE /\ timer = 1
      BY <1>c, <3>3 DEF Ticks
    <3>. QED  BY <3>1, <3>2, <3>3
  <2>. HIDE DEF ticks, later
  <2>3. timer' \in 1 .. Interval
    BY <1>b, <1>d, <2>1
  <2>4. ASSUME clock' < MaxTime
        PROVE  /\ clock' + timer' >= report.firstSeen + later * Interval
               /\ \A i \in DOMAIN streakLog : streakLog[i].at >= report.firstSeen + i * Interval
    <3>1. clock < MaxTime /\ clock' = clock + 1
      BY <1>d, <2>1, <2>4
    <3>2. /\ clock + timer >= report.firstSeen + ticks * Interval
          /\ \A i \in DOMAIN streakLog : streakLog[i].at >= report.firstSeen + i * Interval
      BY <1>6, <3>1 DEF TickerPaced, ticks
    <3>3. /\ (ticks + 1) * Interval = ticks * Interval + Interval
          /\ ticks * Interval \in Nat /\ (ticks + 1) * Interval \in Nat
      <4>1. ticks \in Nat /\ ticks + 1 \in Nat
        BY <2>2
      <4>. QED  BY <4>1, OneIntervalMore
    <3>4. CASE timer = 1
      BY <1>d, <2>1, <2>2, <3>1, <3>2, <3>3, <3>4
    <3>5. CASE timer # 1
      BY <1>b, <1>d, <2>1, <2>2, <3>1, <3>2, <3>3, <3>5
    <3>. QED  BY <3>4, <3>5
  <2>. QED  BY <2>1, <2>3, <2>4 DEF TickerPaced, later
<1>7. ASSUME Cancel \/ UNCHANGED vars PROVE TickerPaced'
  <2>1. /\ pc' = pc /\ clock' = clock /\ timer' = timer /\ fired' = fired
        /\ report' = report /\ streakLog' = streakLog
    BY <1>7 DEF Cancel, vars
  <2>. QED  BY <2>1 DEF TickerPaced
<1>8. ASSUME NEW c \in MaybeConfig, AttemptRejected(c) PROVE TickerPaced'
  BY <1>5, <1>8
<1>9. ASSUME AttemptFailed PROVE TickerPaced'
  BY <1>5, <1>9 DEF MaybeConfig
<1>10. ASSUME \/ StartSample \/ SamplesExhausted \/ BackoffElapsed \/ BackoffCancelled
              \/ ContextDone \/ DeclareDeath \/ WriteSummary \/ GreaseAnswers
              \/ \E c \in MaybeConfig : PollBaseline(c)
       PROVE  pc' \notin Watched
  BY <1>10 DEF StartSample, SamplesExhausted, BackoffElapsed, BackoffCancelled, ContextDone,
     DeclareDeath, WriteSummary, GreaseAnswers, GreaseFails, GreaseSucceeds, PollBaseline, Watched
<1>11. ASSUME TimePasses, pc \notin Watched PROVE pc' \notin Watched
  BY <1>11 DEF TimePasses
<1>. QED
  BY <1>1, <1>2, <1>3, <1>4, <1>6, <1>7, <1>8, <1>9, <1>10, <1>11
     DEF Next, Internal, DNSAnswers, ServerAnswers, Terminated

-----------------------------------------------------------------------------
(* Rotations and records                                                   *)

\* ChannelAgrees for records obs and a config under test.
Agrees(obs, under, source, changed, rotations, lastSeen) ==
    LET seen == {i \in DOMAIN obs : obs[i].source = source}
        earlier(i) == {j \in seen : j < i}
    IN  /\ Cardinality(seen) = rotations
        /\ seen = {} => changed = 0 /\ lastSeen = under
        /\ \A i \in seen :
             /\ earlier(i) = {} => changed = obs[i].at /\ obs[i].config # under
             /\ \A j \in earlier(i) :
                  earlier(i) \subseteq 1 .. j => obs[i].config # obs[j].config
             /\ seen \subseteq 1 .. i => lastSeen = obs[i].config

\* Without a record nothing changed.
LEMMA NothingObserved ==
  ASSUME NEW obs, NEW under, NEW source, \A i \in DOMAIN obs : obs[i].source # source
  PROVE  Agrees(obs, under, source, 0, 0, under)
<1>1. {i \in DOMAIN obs : obs[i].source = source} = {}
  OBVIOUS
<1>. QED  BY <1>1, FS_EmptySet DEF Agrees

\* A record of another source leaves a channel as it is, and one of its own with news
\* becomes its last.
LEMMA RecordAgrees ==
  ASSUME NEW obs \in Seq(Observation), NEW under, NEW source, NEW changed,
         NEW rotations, NEW lastSeen, NEW o \in Observation,
         Agrees(obs, under, source, changed, rotations, lastSeen),
         changed = 0 <=> \A i \in DOMAIN obs : obs[i].source # source
  PROVE  /\ o.source # source =>
              Agrees(Append(obs, o), under, source, changed, rotations, lastSeen)
         /\ (o.source = source /\ o.config # lastSeen) =>
              Agrees(Append(obs, o), under, source, IF changed = 0 THEN o.at ELSE changed,
                     rotations + 1, o.config)
<1>. DEFINE n == Len(obs)
            more == Append(obs, o)
            seen == {i \in DOMAIN obs : obs[i].source = source}
            now == {i \in DOMAIN more : more[i].source = source}
<1>1. /\ n \in Nat /\ DOMAIN obs = 1 .. n /\ DOMAIN more = 1 .. n + 1
      /\ more[n + 1] = o /\ \A i \in 1 .. n : more[i] = obs[i]
  OBVIOUS
<1>2. /\ Cardinality(seen) = rotations
      /\ seen = {} => changed = 0 /\ lastSeen = under
      /\ \A i \in seen :
           LET earlier == {j \in seen : j < i} IN
           /\ earlier = {} => changed = obs[i].at /\ obs[i].config # under
           /\ \A j \in earlier :
                earlier \subseteq 1 .. j => obs[i].config # obs[j].config
           /\ seen \subseteq 1 .. i => lastSeen = obs[i].config
  BY DEF Agrees
<1>3. changed = 0 <=> seen = {}
  OBVIOUS
<1>. HIDE DEF n, more
<1>4. seen \subseteq 1 .. n /\ \A i \in 1 .. n : i \in Nat /\ i < n + 1
  BY <1>1
<1>5. ASSUME o.source # source
      PROVE  Agrees(more, under, source, changed, rotations, lastSeen)
  <2>1. now = seen /\ \A i \in seen : more[i] = obs[i]
    BY <1>1, <1>5
  <2>. HIDE DEF seen, now
  <2>2. /\ Cardinality(now) = rotations
        /\ now = {} => changed = 0 /\ lastSeen = under
        /\ \A i \in now :
             LET earlier == {j \in now : j < i} IN
             /\ earlier = {} => changed = more[i].at /\ more[i].config # under
             /\ \A j \in earlier :
                  earlier \subseteq 1 .. j => more[i].config # more[j].config
             /\ now \subseteq 1 .. i => lastSeen = more[i].config
    BY <1>2, <2>1
  <2>. QED  BY <2>2 DEF Agrees, now
<1>6. ASSUME o.source = source, o.config # lastSeen
      PROVE  Agrees(more, under, source, IF changed = 0 THEN o.at ELSE changed,
                    rotations + 1, o.config)
  <2>. DEFINE first == IF changed = 0 THEN o.at ELSE changed
  <2>1. now = seen \cup {n + 1} /\ n + 1 \notin seen /\ \A i \in seen : more[i] = obs[i]
    BY <1>1, <1>4, <1>6
  <2>2. Cardinality(now) = rotations + 1
    <3>1. IsFiniteSet(1 .. n)
      BY <1>1, FS_Interval
    <3>2. IsFiniteSet(seen)
      BY <1>4, <3>1, FS_Subset
    <3>. HIDE DEF seen, now
    <3>. QED  BY <1>2, <2>1, <3>2, FS_AddElement
  <2>. HIDE DEF seen, now
  <2>3. \A i \in seen : {j \in now : j < i} = {j \in seen : j < i}
    BY <1>1, <1>4, <2>1
  <2>4. {j \in now : j < n + 1} = seen
    <3>1. \A j \in seen : j < n + 1
      BY <1>4
    <3>2. ~(n + 1 < n + 1)
      BY <1>1
    <3>. QED  BY <2>1, <3>1, <3>2
  <2>5. \A i \in seen : ~(now \subseteq 1 .. i)
    BY <1>1, <1>4, <2>1
  <2>6. ASSUME NEW i \in seen
        PROVE  LET earlier == {j \in now : j < i} IN
               /\ earlier = {} => first = more[i].at /\ more[i].config # under
               /\ \A j \in earlier :
                    earlier \subseteq 1 .. j => more[i].config # more[j].config
               /\ now \subseteq 1 .. i => o.config = more[i].config
    <3>1. changed # 0
      BY <1>3
    <3>. QED  BY <1>2, <2>1, <2>3, <2>5, <3>1
  <2>7. /\ seen = {} => first = o.at /\ o.config # under
        /\ \A j \in seen : seen \subseteq 1 .. j => o.config # more[j].config
    BY <1>2, <1>3, <1>6, <2>1
  <2>8. ASSUME NEW i \in now
        PROVE  LET earlier == {j \in now : j < i} IN
               /\ earlier = {} => first = more[i].at /\ more[i].config # under
               /\ \A j \in earlier :
                    earlier \subseteq 1 .. j => more[i].config # more[j].config
               /\ now \subseteq 1 .. i => o.config = more[i].config
    <3>1. CASE i \in seen
      BY <2>6, <3>1
    <3>2. CASE i = n + 1
      BY <1>1, <2>4, <2>7, <3>2
    <3>. QED  BY <2>1, <3>1, <3>2
  <2>9. now # {}
    BY <2>1
  <2>. HIDE DEF first
  <2>10. Agrees(more, under, source, first, rotations + 1, o.config)
    BY <2>2, <2>8, <2>9 DEF Agrees, now
  <2>. QED  BY <2>10 DEF first
<1>. QED  BY <1>5, <1>6 DEF more

LEMMA RotationAgrees ==
  ASSUME TypeOK, SignsDated, RotationsAreObservations, observed # <<>>, NEW c \in MaybeConfig,
         pollDNS(c) \/ recordIfChanged(c), underTest' = underTest
  PROVE  RotationsAreObservations'
<1>1. /\ Agrees(observed, underTest, "dns", report.dnsChanged, report.dnsRotations,
                report.dnsLastSeen)
      /\ Agrees(observed, underTest, "retry", report.retryChanged, report.retryRotations,
                report.retryLastSeen)
  BY DEF RotationsAreObservations, ChannelAgrees, Records, Agrees
<1>2. SUFFICES
        /\ Agrees(observed', underTest', "dns", report'.dnsChanged, report'.dnsRotations,
                  report'.dnsLastSeen)
        /\ Agrees(observed', underTest', "retry", report'.retryChanged,
                  report'.retryRotations, report'.retryLastSeen)
  BY DEF RotationsAreObservations, ChannelAgrees, Records, Agrees
<1>3. /\ report.dnsChanged = 0 <=> \A i \in DOMAIN observed : observed[i].source # "dns"
      /\ report.retryChanged = 0 <=> \A i \in DOMAIN observed : observed[i].source # "retry"
  BY DEF SignsDated, ChannelDated
<1>4. observed \in Seq(Observation) /\ clock \in Nat
  BY DEF TypeOK
<1>5. CASE UNCHANGED views
  BY <1>1, <1>5 DEF views
<1>6. CASE pollDNS(c) /\ News(c, report.dnsLastSeen)
  <2>1. /\ observed' = Append(observed, Seen("dns", c)) /\ c \in Configs
        /\ c # report.dnsLastSeen
        /\ report' = [report EXCEPT
             !.dnsLastSeen = c,
             !.dnsRotations = @ + 1,
             !.dnsChanged = IF @ = 0 THEN clock ELSE @]
    BY <1>6 DEF pollDNS, News, MaybeConfig
  <2>2. /\ report'.dnsChanged = IF report.dnsChanged = 0 THEN clock ELSE report.dnsChanged
        /\ report'.dnsRotations = report.dnsRotations + 1 /\ report'.dnsLastSeen = c
        /\ report'.retryChanged = report.retryChanged
        /\ report'.retryRotations = report.retryRotations
        /\ report'.retryLastSeen = report.retryLastSeen
    BY <2>1 DEF TypeOK, Report
  <2>. DEFINE o == Seen("dns", c)
  <2>3. /\ o \in Observation /\ o.source = "dns" /\ o.source # "retry"
        /\ o.at = clock /\ o.config = c
    BY <1>4, <2>1 DEF Seen, Observation, Sources
  <2>. HIDE DEF o
  <2>4. Agrees(Append(observed, o), underTest, "dns",
               IF report.dnsChanged = 0 THEN o.at ELSE report.dnsChanged,
               report.dnsRotations + 1, o.config)
    BY <1>1, <1>3, <1>4, <2>1, <2>3, RecordAgrees
  <2>5. Agrees(Append(observed, o), underTest, "retry", report.retryChanged,
               report.retryRotations, report.retryLastSeen)
    BY <1>1, <1>3, <1>4, <2>3, RecordAgrees
  <2>. QED  BY <2>1, <2>2, <2>3, <2>4, <2>5 DEF o
<1>7. CASE recordIfChanged(c) /\ News(c, report.retryLastSeen)
  <2>1. /\ observed' = Append(observed, Seen("retry", c)) /\ c \in Configs
        /\ c # report.retryLastSeen
        /\ report' = [report EXCEPT
             !.retryLastSeen = c,
             !.retryRotations = @ + 1,
             !.retryChanged = IF @ = 0 THEN clock ELSE @]
    BY <1>7 DEF recordIfChanged, News, MaybeConfig
  <2>2. /\ report'.retryChanged = IF report.retryChanged = 0 THEN clock ELSE report.retryChanged
        /\ report'.retryRotations = report.retryRotations + 1 /\ report'.retryLastSeen = c
        /\ report'.dnsChanged = report.dnsChanged
        /\ report'.dnsRotations = report.dnsRotations
        /\ report'.dnsLastSeen = report.dnsLastSeen
    BY <2>1 DEF TypeOK, Report
  <2>. DEFINE o == Seen("retry", c)
  <2>3. /\ o \in Observation /\ o.source = "retry" /\ o.source # "dns"
        /\ o.at = clock /\ o.config = c
    BY <1>4, <2>1 DEF Seen, Observation, Sources
  <2>. HIDE DEF o
  <2>4. Agrees(Append(observed, o), underTest, "retry",
               IF report.retryChanged = 0 THEN o.at ELSE report.retryChanged,
               report.retryRotations + 1, o.config)
    BY <1>1, <1>3, <1>4, <2>1, <2>3, RecordAgrees
  <2>5. Agrees(Append(observed, o), underTest, "dns", report.dnsChanged,
               report.dnsRotations, report.dnsLastSeen)
    BY <1>1, <1>3, <1>4, <2>3, RecordAgrees
  <2>. QED  BY <2>1, <2>2, <2>3, <2>4, <2>5 DEF o
<1>. QED  BY <1>5, <1>6, <1>7 DEF pollDNS, recordIfChanged

\* Before there is a record there is no poll and no attempt.
SeenBeforehand == pc \in Following => observed # <<>>

ObservationInv == SeenBeforehand /\ RotationsAreObservations

LEMMA ObservationInvInit == Init => ObservationInv
  BY DEF Init, ObservationInv, SeenBeforehand, RotationsAreObservations, Following, Watched

LEMMA ObservationInvStep ==
  RefinementInv /\ SampleDated /\ SignsDated /\ ObservationInv /\ [Next]_vars => ObservationInv'
<1> SUFFICES ASSUME RefinementInv, SampleDated, SignsDated, ObservationInv, [Next]_vars
             PROVE  ObservationInv'
  OBVIOUS
<1>. USE DEF ctx, boot, views, streaks
<1>0. TypeOK /\ TypeOK'
  BY TypeStep DEF RefinementInv, DeathInv
<1>1. ASSUME NEW c \in MaybeConfig, PollBaseline(c) \/ PollTick(c) \/ AttemptRejected(c)
      PROVE  ObservationInv'
  <2>1. observed # <<>> /\ underTest' = underTest /\ (pollDNS(c) \/ recordIfChanged(c))
    BY <1>1 DEF PollBaseline, PollTick, AttemptRejected, ObservationInv, SeenBeforehand,
       Following, Watched
  <2>2. observed' # <<>>
    <3>1. \A o \in Observation : Append(observed, o) # <<>>
      <4>1. observed \in Seq(Observation)
        BY <1>0 DEF TypeOK
      <4>2. ASSUME NEW o \in Observation PROVE Append(observed, o) # <<>>
        <5>1. Len(Append(observed, o)) = Len(observed) + 1 /\ Len(observed) \in Nat
          BY <4>1
        <5>2. Len(Append(observed, o)) # 0
          BY <5>1
        <5>. QED  BY <5>2
      <4>. QED  BY <4>2
    <3>2. CASE observed' = observed
      BY <2>1, <3>2
    <3>3. CASE \E source \in Sources : observed' = Append(observed, Seen(source, c)) /\ c \in Configs
      BY <1>0, <3>1, <3>3 DEF Seen, Observation, TypeOK
    <3>. QED  BY <2>1, <3>2, <3>3 DEF pollDNS, recordIfChanged, News, MaybeConfig, Sources
  <2>. QED
    BY <1>0, <2>1, <2>2, RotationAgrees DEF ObservationInv, SeenBeforehand
<1>2. ASSUME observed' = <<>>, pc' \notin Following PROVE ObservationInv'
  BY <1>2 DEF ObservationInv, SeenBeforehand, RotationsAreObservations
<1>3. ASSUME NEW c \in Configs, GreaseSucceeds(c) PROVE ObservationInv'
  <2>1. report = NewReport
    BY <1>3 DEF GreaseSucceeds, SampleDated, Bootstrapping
  <2>2. /\ report'.dnsChanged = 0 /\ report'.retryChanged = 0
        /\ report'.dnsRotations = 0 /\ report'.retryRotations = 0
        /\ report'.dnsLastSeen = c /\ report'.retryLastSeen = c
    BY <1>3, <2>1 DEF GreaseSucceeds, NewReport
  <2>3. observed' = <<Seen("grease", c)>> /\ underTest' = c
    BY <1>3 DEF GreaseSucceeds
  <2>4. DOMAIN observed' = {1} /\ observed'[1] = Seen("grease", c) /\ observed' # <<>>
    BY <2>3
  <2>5. observed'[1].source = "grease"
    BY <2>4 DEF Seen
  <2>6. /\ Agrees(observed', underTest', "dns", 0, 0, c)
        /\ Agrees(observed', underTest', "retry", 0, 0, c)
    BY <2>3, <2>4, <2>5, NothingObserved
  <2>7. RotationsAreObservations'
    BY <2>2, <2>6 DEF RotationsAreObservations, ChannelAgrees, Records, Agrees
  <2>. QED  BY <2>4, <2>7 DEF ObservationInv, SeenBeforehand
<1>4. ASSUME UNCHANGED <<observed, underTest, report.dnsChanged, report.retryChanged,
                         report.dnsRotations, report.retryRotations, report.dnsLastSeen,
                         report.retryLastSeen>>,
             pc' \in Following => pc \in Following
      PROVE  ObservationInv'
  BY <1>4 DEF ObservationInv, SeenBeforehand, RotationsAreObservations, ChannelAgrees, Records
<1>5. CASE StartSample
  BY <1>2, <1>5 DEF StartSample, Following, Watched
<1>6. ASSUME BeginWatch \/ ContextDone \/ DeclareDeath PROVE ObservationInv'
  <2>1. UNCHANGED <<observed, underTest, report.dnsChanged, report.retryChanged,
                    report.dnsRotations, report.retryRotations, report.dnsLastSeen,
                    report.retryLastSeen>>
    BY <1>0, <1>6 DEF BeginWatch, ContextDone, DeclareDeath, TypeOK, Report
  <2>2. pc' \in Following => pc \in Following
    BY <1>6 DEF BeginWatch, ContextDone, DeclareDeath, Following, Watched
  <2>. QED  BY <1>4, <2>1, <2>2
<1>7. CASE \/ SamplesExhausted \/ BackoffElapsed \/ BackoffCancelled \/ TickArrives
           \/ CompareReturns \/ KeepWatching \/ WriteSummary \/ GreaseFails
           \/ AttemptAccepted \/ AttemptFailed
           \/ Cancel \/ TimePasses \/ UNCHANGED vars
  <2>1. /\ UNCHANGED <<observed, underTest, report>>
        /\ pc' \in Following => pc \in Following
    BY <1>7 DEF SamplesExhausted, BackoffElapsed, BackoffCancelled, TickArrives,
       CompareReturns, KeepWatching, WriteSummary, GreaseFails, AttemptAccepted,
       AttemptFailed, Cancel, TimePasses, vars, Following, Watched
  <2>. QED  BY <1>4, <2>1
<1>. QED
  BY <1>1, <1>3, <1>5, <1>6, <1>7
     DEF Next, Internal, GreaseAnswers, DNSAnswers, ServerAnswers, Terminated

-----------------------------------------------------------------------------
(* The theorems                                                            *)

\* RefinementInv holds the loop together; the other parts each need it, and some need
\* each other.
SampleInv ==
    /\ RefinementInv
    /\ ElicitInv
    /\ TimeInv
    /\ OnFile
    /\ SignsDated
    /\ TickerPaced
    /\ ObservationInv

\* The strengthened invariant of a sample holds throughout.
THEOREM SampleInvHolds == Spec => []SampleInv
<1>1. Init => SampleInv
  BY RefinementInvInit, ElicitInvInit, TimeInvInit, OnFileInit, SignsDatedInit,
     TickerPacedInit, ObservationInvInit DEF SampleInv
<1>2. SampleInv /\ [Next]_vars => SampleInv'
  BY RefinementInvStep, ElicitInvStep, TimeInvStep, OnFileStep, SignsDatedStep,
     TickerPacedStep, ObservationInvStep
     DEF SampleInv, TimeInv
<1>. QED  BY <1>1, <1>2, PTL DEF Spec

\* runSample's counters tell the story of the attempts since the last acceptance, and
\* the loop goes on only below --max-failures.
THEOREM StreaksAreCounted == Spec => []StreakIsCounted
<1>1. SampleInv => StreakIsCounted
  BY DEF SampleInv, RefinementInv, DeathInv
<1>. QED  BY <1>1, SampleInvHolds, PTL

\* The summary file holds samples 1, 2, 3 ... with one outcome each, all but the last one
\* deaths, and the tracker returns only after a sample that was none or with --samples
\* used up.
THEOREM SamplesFollowDeaths == Spec => []SequenceOfSamples
<1>1. SampleInv => SequenceOfSamples
  BY DEF SampleInv, OnFile
<1>. QED  BY <1>1, SampleInvHolds, PTL

\* repeatedConfig is set on exactly those samples whose config is that of the sample
\* before.
THEOREM RepeatsAreFlagged == Spec => []RepeatFlag
<1>1. SampleInv => RepeatFlag
  BY DEF SampleInv, ElicitInv
<1>. QED  BY <1>1, SampleInvHolds, PTL

\* A bootstrap gives up after one failed probe in the first sample and --max-failures in
\* a rerun, neither before nor later unless the context ends.
THEOREM BootstrapKeepsBudget == Spec => []BootstrapBudget
<1>1. SampleInv => BootstrapBudget
  BY DEF SampleInv, ElicitInv
<1>. QED  BY <1>1, SampleInvHolds, PTL

\* In each sample the config is seen, rotates, dies and is declared dead in that order,
\* after the death of the sample before it was declared.
THEOREM TimesAreInOrder == Spec => []Chronology
<1>1. SampleInv => Chronology
  BY DEF SampleInv, TimeInv
<1>. QED  BY <1>1, SampleInvHolds, PTL

\* The rotation counters, dates and last configs of both channels are those of the
\* records written, and no channel records the same config twice in a row.
THEOREM RotationsAreRecorded == Spec => []RotationsAreObservations
<1>1. SampleInv => RotationsAreObservations
  BY DEF SampleInv, ObservationInv
<1>. QED  BY <1>1, SampleInvHolds, PTL

\* The rotation reported is the first sign on either channel, and is dated by a record
\* of the channel it is attributed to.
THEOREM RotationsAreFirstSigns == Spec => []RotationIsFirstSign
<1>1. SampleInv => RotationIsFirstSign
  BY SignsDatedIsFirst DEF SampleInv, RefinementInv, DeathInv
<1>. QED  BY <1>1, SampleInvHolds, PTL

\* The ticker paces the attempts: the i-th failure in a row comes at least i intervals
\* after the config was first seen, however slow the attempts are.
THEOREM AttemptsArePaced == Spec => []PacedByInterval
<1>1. SampleInv => PacedByInterval
  BY DEF SampleInv, TickerPaced, PacedByInterval, Watched
<1>. QED  BY <1>1, SampleInvHolds, PTL

=============================================================================
