------------------------- MODULE GraceServerProofs --------------------------
(***************************************************************************)
(* What the tracker measures happens to the server: theorems about         *)
(* GraceServer, for any configs, limits, intervals and durations of calls. *)
(***************************************************************************)
EXTENDS GraceServer, GraceProofs

-----------------------------------------------------------------------------
(* In front of a server the tracker is the tracker                         *)

\* What the server answers are configs.
ServerTypeOK ==
    /\ current \in Configs
    /\ dns \in Configs
    /\ accepts \in SUBSET Configs
    /\ retired \in [Configs -> Nat]
    /\ decision \in {"none", "accepted", "rejected"}
    /\ offered \in MaybeConfig
    /\ decision = "rejected" => offered \in Configs
    /\ calling \in 0 .. MaxCall

LEMMA ServerStepIsTrackerStep == ServerTypeOK /\ [ServerNext]_serverVars => [Next]_vars
<1> SUFFICES ASSUME ServerTypeOK, [ServerNext]_serverVars PROVE [Next]_vars
  OBVIOUS
<1>1. CASE HandshakeReturns
  <2>1. CASE decision = "rejected" /\ (GreaseSucceeds(offered) \/ AttemptRejected(offered))
    <3>1. offered \in Configs /\ offered \in MaybeConfig
      BY <2>1 DEF ServerTypeOK, MaybeConfig
    <3>. QED  BY <2>1, <3>1 DEF Next, GreaseAnswers, ServerAnswers
  <2>2. CASE GreaseFails \/ AttemptAccepted \/ AttemptFailed
    BY <2>2 DEF Next, GreaseAnswers, ServerAnswers
  <2>. QED  BY <1>1, <2>1, <2>2 DEF HandshakeReturns
<1>2. CASE LookupReturns
  <2>1. dns \in MaybeConfig /\ NoConfig \in MaybeConfig
    BY DEF ServerTypeOK, MaybeConfig
  <2>2. \E c \in MaybeConfig : PollBaseline(c) \/ PollTick(c)
    BY <1>2, <2>1 DEF LookupReturns
  <2>. QED  BY <2>2 DEF Next, DNSAnswers
<1>3. CASE Proceed \/ ContextEnds \/ TimePassesBounded \/ Over
  BY <1>3 DEF Next, Proceed, ContextEnds, TimePassesBounded, Over
<1>4. CASE \/ (\E c \in Configs : Rotate(c) \/ Retire(c)) \/ Publish \/ Decide
           \/ UNCHANGED serverVars
  <2>1. UNCHANGED vars
    BY <1>4 DEF Rotate, Retire, Publish, Decide, serverVars
  <2>. QED  BY <2>1
<1>. QED  BY <1>1, <1>2, <1>3, <1>4 DEF ServerNext

LEMMA ServerTypeInit == ServerInit => ServerTypeOK
  BY MaxCallAssumption DEF ServerInit, ServerTypeOK, MaybeConfig

LEMMA ServerTypeStep == TypeOK /\ ServerTypeOK /\ [ServerNext]_serverVars => ServerTypeOK'
<1> SUFFICES ASSUME TypeOK, ServerTypeOK, [ServerNext]_serverVars PROVE ServerTypeOK'
  OBVIOUS
<1>. USE MaxCallAssumption DEF keys, handshake
<1>0. clock \in Nat
  BY DEF TypeOK
<1>1. ASSUME NEW c \in Configs, Rotate(c) PROVE ServerTypeOK'
  BY <1>1 DEF Rotate, ServerTypeOK
<1>2. ASSUME NEW c \in Configs, Retire(c) PROVE ServerTypeOK'
  BY <1>0, <1>2 DEF Retire, ServerTypeOK
<1>3. CASE Publish
  BY <1>3 DEF Publish, ServerTypeOK
<1>4. CASE Decide
  BY <1>4 DEF Decide, ServerTypeOK, MaybeConfig
<1>5. CASE HandshakeReturns
  BY <1>5 DEF HandshakeReturns, ServerTypeOK, MaybeConfig
<1>6. CASE LookupReturns \/ Proceed \/ ContextEnds
  BY <1>6 DEF LookupReturns, Proceed, ContextEnds, ServerTypeOK
<1>7. CASE TimePassesBounded
  BY <1>7 DEF TimePassesBounded, ServerTypeOK
<1>8. CASE Over \/ UNCHANGED serverVars
  BY <1>8 DEF Over, serverVars, ServerTypeOK
<1>. QED  BY <1>1, <1>2, <1>3, <1>4, <1>5, <1>6, <1>7, <1>8 DEF ServerNext

-----------------------------------------------------------------------------
(* Keys                                                                    *)

\* A key the server holds is not retired, and the one it hands out it holds.
KeysHeld ==
    /\ current \in accepts
    /\ \A c \in accepts : retired[c] = 0
    /\ \A c \in Configs : retired[c] <= clock

\* A config that was handed out is held, or was retired since.
Known(c) == c \in Configs => c \in accepts \/ retired[c] # 0

\* The server has made up its mind about a handshake only while one is under way; what
\* it offers it knew, and an attempt it rejects is made with a retired config.
DecisionFits ==
    /\ decision # "none" => pc \in {"grease", "attempt"}
    /\ Known(offered)
    /\ Known(underTest)
    /\ pc \in Following => underTest \in Configs
    /\ (pc = "attempt" /\ decision = "rejected") => retired[underTest] # 0

\* A rejection in the streak under way means that the config was retired, and when all
\* of them are rejections that it was by the first.
RejectedIsRetired ==
    pc \in Watched =>
        /\ streak.rejections # 0 => retired[underTest] # 0
        /\ (streak.rejections # 0 /\ streak.rejections = streak.failures) =>
             retired[underTest] <= streak.start

KeyInv ==
    /\ KeysHeld
    /\ DecisionFits
    /\ RejectedIsRetired
    /\ report.retryChanged # 0 => underTest \in Configs
    /\ RetryRotationIsReal

\* A key is retired once, and the tracker does not move meanwhile.
LEMMA KeysMove ==
  ASSUME TypeOK, ServerTypeOK, KeysHeld, clock # 0, [ServerNext]_serverVars
  PROVE  /\ \A c \in Configs : retired'[c] = retired[c] \/ (retired[c] = 0 /\ retired'[c] = clock)
         /\ retired' # retired => UNCHANGED <<vars, handshake, calling>>
         /\ \A c \in Configs : Known(c) => Known(c)'
         /\ \A c \in accepts' : retired'[c] = 0
         /\ current' \in accepts'
<1>. USE DEF KeysHeld, ServerTypeOK, Known, keys
<1>1. ASSUME NEW c \in Configs, Rotate(c)
      PROVE  /\ retired' = retired /\ accepts' = accepts \cup {c} /\ current' = c
             /\ retired[c] = 0
  BY <1>1 DEF Rotate
<1>2. ASSUME NEW c \in Configs, Retire(c)
      PROVE  /\ retired' = [retired EXCEPT ![c] = clock] /\ accepts' = accepts \ {c}
             /\ current' = current /\ c \in accepts \ {current}
             /\ UNCHANGED <<vars, handshake, calling>>
  BY <1>2 DEF Retire
<1>3. ASSUME Publish \/ Decide \/ HandshakeReturns \/ LookupReturns \/ Proceed \/ ContextEnds
             \/ TimePassesBounded \/ Over \/ UNCHANGED serverVars
      PROVE  retired' = retired /\ accepts' = accepts /\ current' = current
  BY <1>3 DEF Publish, Decide, HandshakeReturns, LookupReturns, Proceed, ContextEnds,
     TimePassesBounded, Over, serverVars
<1>4. CASE \E c \in Configs : Rotate(c)
  BY <1>1, <1>4
<1>5. CASE \E c \in Configs : Retire(c)
  BY <1>2, <1>5
<1>6. CASE retired' = retired /\ accepts' = accepts /\ current' = current
  BY <1>6
<1>. QED  BY <1>3, <1>4, <1>5, <1>6 DEF ServerNext

\* The tracker's own steps between two calls leave the call alone, the clock and the
\* config under test.
LEMMA InternalSteps ==
  ASSUME Internal
  PROVE  /\ pc \notin {"grease", "attempt"} /\ underTest' = underTest /\ clock' = clock
         /\ pc' \in Following => pc \in Following
         /\ pc' \in Watched => \/ pc \in Watched /\ streak' = streak
                               \/ pc = "watch" /\ streak' = NoStreak
  BY DEF Internal, StartSample, SamplesExhausted, BackoffElapsed, BackoffCancelled, BeginWatch,
     TickArrives, ContextDone, CompareReturns, DeclareDeath, KeepWatching, WriteSummary,
     Following, Watched, ctx, boot, streaks

LEMMA TimeGoesOn ==
  ASSUME clock \in Nat, MaxTime \in Nat, [Next]_vars
  PROVE  clock' = clock \/ (pc \in Blocking /\ clock < MaxTime /\ clock' = clock + 1)
<1>1. CASE Internal
  BY <1>1, InternalSteps
<1>2. CASE GreaseAnswers \/ DNSAnswers \/ ServerAnswers
  BY <1>2 DEF GreaseAnswers, GreaseFails, GreaseSucceeds, DNSAnswers, PollBaseline, PollTick,
     ServerAnswers, AttemptAccepted, AttemptRejected, AttemptFailed, ctx
<1>3. CASE Cancel \/ TimePasses \/ Terminated \/ UNCHANGED vars
  BY <1>3 DEF Cancel, TimePasses, Terminated, vars, ctx
<1>. QED  BY <1>1, <1>2, <1>3 DEF Next

LEMMA KeyInvInit == ServerInit => KeyInv
<1> SUFFICES ASSUME ServerInit PROVE KeyInv
  OBVIOUS
<1>1. /\ pc = "head" /\ report = NewReport /\ underTest = NoConfig /\ offered = NoConfig
      /\ decision = "none" /\ clock = 1 /\ current \in Configs /\ dns \in Configs
      /\ accepts = {current, dns} /\ retired = [c \in Configs |-> 0]
  BY DEF ServerInit, Init
<1>2. KeysHeld
  BY <1>1 DEF KeysHeld
<1>3. DecisionFits
  BY <1>1, ConfigsAssumption DEF DecisionFits, Known, Following, Watched
<1>4. RejectedIsRetired
  BY <1>1 DEF RejectedIsRetired, Watched
<1>5. RetryRotationIsReal
  BY <1>1, BlankReport DEF RetryRotationIsReal
<1>. QED  BY <1>1, <1>2, <1>3, <1>4, <1>5, BlankReport DEF KeyInv

LEMMA KeyInvStep ==
  SampleInv /\ ServerTypeOK /\ KeyInv /\ [ServerNext]_serverVars => KeyInv'
<1> SUFFICES ASSUME SampleInv, ServerTypeOK, KeyInv, [ServerNext]_serverVars PROVE KeyInv'
  OBVIOUS
<1>a. /\ TypeOK /\ clock # 0 /\ StreakIsCounted /\ SampleDated
      /\ KeysHeld /\ DecisionFits /\ RejectedIsRetired /\ RetryRotationIsReal
  BY DEF SampleInv, RefinementInv, DeathInv, TimeInv, KeyInv
<1>k. report.retryChanged # 0 => underTest \in Configs
  BY DEF KeyInv
<1>b. TypeOK' /\ ServerTypeOK'
  BY <1>a, TypeStep, ServerStepIsTrackerStep, ServerTypeStep
<1>c. /\ \A c \in Configs : retired'[c] = retired[c] \/ (retired[c] = 0 /\ retired'[c] = clock)
      /\ retired' # retired => UNCHANGED <<vars, handshake, calling>>
      /\ \A c \in Configs : Known(c) => Known(c)'
      /\ \A c \in accepts' : retired'[c] = 0
      /\ current' \in accepts'
  BY <1>a, KeysMove
<1>d. clock \in Nat /\ clock' \in Nat /\ clock <= clock'
  BY <1>a, <1>b, ServerStepIsTrackerStep, TimeGoesOn, MaxTimeAssumption DEF TypeOK
<1>1. KeysHeld'
  <2>1. \A c \in Configs : retired[c] \in Nat /\ retired[c] <= clock
    BY <1>a DEF KeysHeld, ServerTypeOK
  <2>2. \A c \in Configs : retired'[c] <= clock'
    BY <1>c, <1>d, <2>1
  <2>. QED  BY <1>c, <2>2 DEF KeysHeld
<1>e. ASSUME \/ (\E c \in Configs : Rotate(c) \/ Retire(c)) \/ Publish \/ Decide
             \/ Over \/ UNCHANGED serverVars
      PROVE  /\ UNCHANGED vars
             /\ Decide \/ UNCHANGED handshake
  BY <1>e DEF Rotate, Retire, Publish, Decide, Over, serverVars, Terminated
\* Retirements stay.
<1>f. ASSUME NEW c \in Configs, retired[c] # 0
      PROVE  retired'[c] = retired[c]
  BY <1>c, <1>f
<1>g. /\ decision # "none" => pc \in {"grease", "attempt"}
      /\ Known(offered) /\ Known(underTest)
      /\ pc \in Following => underTest \in Configs
      /\ (pc = "attempt" /\ decision = "rejected") => retired[underTest] # 0
  BY <1>a DEF DecisionFits
<1>h. \A c : Known(c) => Known(c)'
  BY <1>c DEF Known
<1>2. DecisionFits'
  <2>1. CASE UNCHANGED <<pc, underTest, handshake>>
    <3>1. pc' = pc /\ underTest' = underTest /\ decision' = decision /\ offered' = offered
      BY <2>1 DEF handshake
    <3>2. Known(offered)' /\ Known(underTest)'
      BY <1>g, <1>h, <3>1
    <3>3. (pc = "attempt" /\ decision = "rejected") => retired'[underTest] # 0
      BY <1>f, <1>g DEF Following, Watched
    <3>. QED  BY <1>g, <3>1, <3>2, <3>3 DEF DecisionFits
  <2>2. CASE Decide
    <3>1. /\ pc' = pc /\ underTest' = underTest /\ pc \in {"grease", "attempt"}
          /\ offered' \in {NoConfig, current} /\ accepts' = accepts /\ retired' = retired
          /\ (pc = "attempt" /\ decision' = "rejected") => underTest \notin accepts
      BY <2>2 DEF Decide, vars, boot, keys
    <3>2. Known(offered')
      BY <1>a, <3>1, ConfigsAssumption DEF Known, KeysHeld
    <3>3. Known(offered)' /\ Known(underTest)'
      BY <1>g, <3>1, <3>2 DEF Known
    <3>4. (pc = "attempt" /\ decision' = "rejected") => retired'[underTest] # 0
      BY <1>g, <3>1 DEF Known, Following, Watched
    <3>. QED  BY <1>g, <3>1, <3>3, <3>4 DEF DecisionFits
  <2>3. CASE HandshakeReturns
    <3>1. /\ decision' = "none" /\ offered' = NoConfig /\ UNCHANGED keys
      BY <2>3 DEF HandshakeReturns
    <3>2. Known(offered)'
      BY <3>1, ConfigsAssumption DEF Known
    <3>3. CASE decision = "rejected" /\ GreaseSucceeds(offered)
      <4>1. underTest' = offered /\ offered \in Configs
        BY <3>3 DEF GreaseSucceeds, ServerTypeOK
      <4>2. Known(underTest)'
        BY <1>g, <1>h, <4>1 DEF Known
      <4>. QED  BY <3>1, <3>2, <4>1, <4>2 DEF DecisionFits
    <3>4. CASE GreaseFails \/ AttemptAccepted \/ AttemptRejected(offered) \/ AttemptFailed
      <4>1. underTest' = underTest /\ (pc' \in Following => pc \in Following)
        BY <3>4 DEF GreaseFails, AttemptAccepted, AttemptRejected, AttemptFailed, Following,
           Watched, boot
      <4>2. Known(underTest)'
        BY <1>g, <1>h, <4>1 DEF Known
      <4>. QED  BY <1>g, <3>1, <3>2, <4>1, <4>2 DEF DecisionFits
    <3>. QED  BY <2>3, <3>3, <3>4 DEF HandshakeReturns
  <2>4. CASE LookupReturns \/ Proceed
    <3>1. /\ underTest' = underTest /\ pc \notin {"grease", "attempt"} /\ UNCHANGED handshake
          /\ pc' \in Following => pc \in Following
      <4>1. CASE LookupReturns
        BY <4>1 DEF LookupReturns, PollBaseline, PollTick, boot, Following, Watched
      <4>2. CASE Proceed
        BY <4>2, InternalSteps DEF Proceed
      <4>. QED  BY <2>4, <4>1, <4>2
    <3>2. decision' = "none" /\ offered' = offered
      BY <1>g, <3>1 DEF handshake, ServerTypeOK
    <3>3. Known(offered)' /\ Known(underTest)'
      BY <1>g, <1>h, <3>1, <3>2 DEF Known
    <3>. QED  BY <1>g, <3>1, <3>2, <3>3 DEF DecisionFits
  <2>5. CASE ContextEnds \/ TimePassesBounded
    BY <2>1, <2>5 DEF ContextEnds, TimePassesBounded, Cancel, TimePasses, boot
  <2>. QED
    BY <1>e, <2>1, <2>2, <2>3, <2>4, <2>5 DEF ServerNext, vars, boot
<1>3. RejectedIsRetired'
  <2>1. CASE UNCHANGED <<pc, underTest, streak>>
    <3>1. pc \in Watched => underTest \in Configs
      BY <1>g DEF Following
    <3>. QED  BY <1>a, <1>f, <2>1, <3>1 DEF RejectedIsRetired
  <2>2. CASE HandshakeReturns
    <3>1. UNCHANGED keys
      BY <2>2 DEF HandshakeReturns
    <3>2. CASE GreaseFails \/ GreaseSucceeds(offered)
      BY <3>2 DEF GreaseFails, GreaseSucceeds, RejectedIsRetired, Watched
    <3>3. CASE AttemptAccepted
      BY <3>3 DEF AttemptAccepted, ClearedStreak, NoStreak, RejectedIsRetired
    <3>4. CASE decision = "rejected" /\ AttemptRejected(offered)
      <4>1. /\ pc = "attempt" /\ underTest' = underTest /\ retired' = retired
            /\ streak' = Lengthened(TRUE) /\ underTest \in Configs
            /\ retired[underTest] # 0 /\ retired[underTest] <= clock
        BY <1>a, <1>g, <3>1, <3>4 DEF AttemptRejected, boot, keys, Following, Watched, KeysHeld
      <4>2. /\ streak.failures \in Nat /\ streak.rejections \in Nat
            /\ (streak.rejections # 0 /\ streak.rejections = streak.failures) =>
                 retired[underTest] <= streak.start
        BY <1>a, <4>1 DEF TypeOK, Streak, RejectedIsRetired, Watched
      <4>3. /\ streak'.rejections = streak.rejections + 1
            /\ streak'.failures = streak.failures + 1
            /\ streak'.start = IF streak.failures = 0 THEN clock ELSE streak.start
        BY <4>1 DEF Lengthened
      <4>4. ASSUME streak'.rejections = streak'.failures
            PROVE  retired[underTest] <= streak'.start
        <5>1. streak.rejections = streak.failures
          BY <4>2, <4>3, <4>4
        <5>2. CASE streak.failures = 0
          BY <4>1, <4>3, <5>2
        <5>3. CASE streak.failures # 0
          BY <4>2, <4>3, <5>1, <5>3
        <5>. QED  BY <5>2, <5>3
      <4>5. retired'[underTest'] = retired[underTest]
        BY <4>1
      <4>. QED  BY <4>1, <4>4, <4>5 DEF RejectedIsRetired
    <3>5. CASE AttemptFailed
      <4>1. /\ pc = "attempt" /\ underTest' = underTest /\ retired' = retired
            /\ streak' = Lengthened(FALSE)
        BY <3>1, <3>5 DEF AttemptFailed, boot, keys
      <4>2. /\ streak.failures \in Nat /\ streak.rejections \in Nat
            /\ streak.rejections <= streak.failures
            /\ streak.rejections # 0 => retired[underTest] # 0
        BY <1>a, <4>1 DEF TypeOK, Streak, RejectedIsRetired, StreakIsCounted, Watched
      <4>3. /\ streak'.rejections = streak.rejections
            /\ streak'.failures = streak.failures + 1
        BY <4>1, <4>2 DEF Lengthened
      <4>4. streak'.rejections # streak'.failures
        BY <4>2, <4>3
      <4>5. retired'[underTest'] = retired[underTest]
        BY <4>1
      <4>. QED  BY <4>2, <4>3, <4>4, <4>5 DEF RejectedIsRetired
    <3>. QED  BY <2>2, <3>2, <3>3, <3>4, <3>5 DEF HandshakeReturns
  <2>3. CASE LookupReturns
    <3>1. ASSUME NEW c, PollBaseline(c) PROVE RejectedIsRetired'
      BY <3>1 DEF PollBaseline, RejectedIsRetired, Watched
    <3>2. ASSUME NEW c, PollTick(c) PROVE RejectedIsRetired'
      <4>1. /\ pc \in Watched /\ underTest' = underTest /\ streak' = streak /\ retired' = retired
        BY <2>3, <3>2 DEF PollTick, boot, streaks, Watched, LookupReturns, keys
      <4>. QED  BY <1>a, <4>1 DEF RejectedIsRetired
    <3>. QED  BY <2>3, <3>1, <3>2 DEF LookupReturns
  <2>4. CASE Proceed
    <3>1. /\ underTest' = underTest /\ retired' = retired
          /\ pc' \in Watched => \/ pc \in Watched /\ streak' = streak
                                \/ streak'.rejections = 0
      BY <2>4, InternalSteps DEF Proceed, keys, NoStreak
    <3>. QED  BY <1>a, <3>1 DEF RejectedIsRetired
  <2>5. CASE ContextEnds \/ TimePassesBounded
    BY <2>1, <2>5 DEF ContextEnds, TimePassesBounded, Cancel, TimePasses, boot, streaks
  <2>. QED
    BY <1>e, <2>1, <2>2, <2>3, <2>4, <2>5 DEF ServerNext, vars, boot, streaks
<1>4. RetryRotationIsReal' /\ (report.retryChanged # 0 => underTest \in Configs)'
  <2>1. ASSUME underTest' = underTest, report'.retryChanged = report.retryChanged
        PROVE  RetryRotationIsReal' /\ (report.retryChanged # 0 => underTest \in Configs)'
    BY <1>a, <1>k, <1>f, <2>1 DEF RetryRotationIsReal
  <2>2. ASSUME report'.retryChanged = 0
        PROVE  RetryRotationIsReal' /\ (report.retryChanged # 0 => underTest \in Configs)'
    BY <2>2 DEF RetryRotationIsReal
  <2>3. CASE HandshakeReturns
    <3>1. CASE GreaseSucceeds(offered)
      <4>1. pc = "grease" /\ report = NewReport
            /\ report' = [report EXCEPT !.firstSeen = clock,
                                !.repeatedConfig = (prev # NoConfig /\ prev = offered),
                                !.dnsLastSeen = offered,
                                !.retryLastSeen = offered]
        BY <1>a, <3>1 DEF GreaseSucceeds, SampleDated, Bootstrapping
      <4>2. report'.retryChanged = report.retryChanged
        BY <1>a, <4>1 DEF TypeOK, Report
      <4>. QED  BY <2>2, <4>1, <4>2, BlankReport
    <3>2. CASE GreaseFails \/ AttemptAccepted \/ AttemptFailed
      BY <2>1, <3>2 DEF GreaseFails, AttemptAccepted, AttemptFailed, boot, views
    <3>3. CASE decision = "rejected" /\ AttemptRejected(offered)
      <4>1. /\ underTest' = underTest /\ underTest \in Configs /\ retired' = retired
            /\ retired[underTest] # 0 /\ retired[underTest] <= clock /\ recordIfChanged(offered)
        BY <1>a, <1>g, <2>3, <3>3 DEF AttemptRejected, boot, keys, Following, Watched, KeysHeld,
           HandshakeReturns
      <4>2. report'.retryChanged = report.retryChanged \/ report'.retryChanged = clock
        BY <1>a, <4>1 DEF recordIfChanged, views, TypeOK, Report
      <4>3. CASE report'.retryChanged = clock
        BY <4>1, <4>3 DEF RetryRotationIsReal
      <4>. QED  BY <2>1, <4>1, <4>2, <4>3
    <3>. QED  BY <2>3, <3>1, <3>2, <3>3 DEF HandshakeReturns
  <2>4. CASE LookupReturns
    <3>1. ASSUME NEW c, pollDNS(c) PROVE report'.retryChanged = report.retryChanged
      BY <1>a, <3>1 DEF pollDNS, views, TypeOK, Report
    <3>. QED  BY <2>1, <2>4, <3>1 DEF LookupReturns, PollBaseline, PollTick, boot
  <2>5. CASE Proceed
    <3>1. underTest' = underTest
      BY <2>5, InternalSteps DEF Proceed
    <3>2. CASE StartSample
      BY <2>2, <3>2, BlankReport DEF StartSample, FreshReport
    <3>3. CASE BeginWatch \/ ContextDone \/ DeclareDeath
      <4>1. report'.retryChanged = report.retryChanged
        BY <1>a, <3>3 DEF BeginWatch, ContextDone, DeclareDeath, TypeOK, Report
      <4>. QED  BY <2>1, <3>1, <4>1
    <3>4. CASE \/ SamplesExhausted \/ BackoffElapsed \/ BackoffCancelled \/ TickArrives
               \/ CompareReturns \/ KeepWatching \/ WriteSummary
      BY <2>1, <3>1, <3>4 DEF SamplesExhausted, BackoffElapsed, BackoffCancelled, TickArrives,
         CompareReturns, KeepWatching, WriteSummary, views
    <3>. QED  BY <2>5, <3>2, <3>3, <3>4 DEF Proceed, Internal
  <2>6. CASE ContextEnds \/ TimePassesBounded
    BY <2>1, <2>6 DEF ContextEnds, TimePassesBounded, Cancel, TimePasses, boot, views
  <2>7. CASE UNCHANGED vars
    BY <2>1, <2>7 DEF vars, boot, views
  <2>. QED  BY <1>e, <2>3, <2>4, <2>5, <2>6, <2>7 DEF ServerNext
<1>. QED  BY <1>1, <1>2, <1>3, <1>4 DEF KeyInv

-----------------------------------------------------------------------------
(* Repeated configs                                                        *)

LastReason == summaries[Len(summaries)].deathReason

\* When the last sample died of anything but connection failures, its config is
\* retired.
LastDeathFits ==
    pc # "done" =>
        /\ summaries = <<>> => prev = NoConfig
        /\ prev # NoConfig => prev \in Configs
        /\ (prev # NoConfig /\ LastReason # "connect_failed") => retired[prev] # 0

\* A config that is handed out again was not retired when the server decided to.
OfferedAgainFits ==
    (pc = "grease" /\ decision = "rejected" /\ offered = prev) =>
        LastReason = "connect_failed"

\* The sample under way knows both of its predecessor and of itself.
RepeatFits ==
    (pc \in Following \cup {"summary"} /\ report.repeatedConfig) =>
        summaries # <<>> /\ LastReason = "connect_failed"

DeathFits ==
    (pc = "summary" /\ Died(report)) =>
        /\ underTest \in Configs
        /\ report.deathReason # "connect_failed" => retired[underTest] # 0

FirstIsFresh == summaries # <<>> => ~summaries[1].repeatedConfig

RepeatInv ==
    /\ LastDeathFits
    /\ FirstIsFresh
    /\ OfferedAgainFits
    /\ RepeatFits
    /\ DeathFits
    /\ RepeatFollowsConnectFailures

LEMMA RepeatInvInit == ServerInit => RepeatInv
<1> SUFFICES ASSUME ServerInit PROVE RepeatInv
  OBVIOUS
<1>1. /\ pc = "head" /\ report = NewReport /\ prev = NoConfig /\ summaries = <<>>
      /\ decision = "none"
  BY DEF ServerInit, Init
<1>. QED
  BY <1>1 DEF RepeatInv, LastDeathFits, OfferedAgainFits, RepeatFits, DeathFits, Following, Watched,
     FirstIsFresh, RepeatFollowsConnectFailures

LEMMA RepeatInvStep ==
  /\ SampleInv /\ ServerTypeOK /\ KeyInv /\ RepeatInv /\ [ServerNext]_serverVars
  => RepeatInv'
<1> SUFFICES ASSUME SampleInv, ServerTypeOK, KeyInv, RepeatInv, [ServerNext]_serverVars
             PROVE  RepeatInv'
  OBVIOUS
<1>a. /\ TypeOK /\ clock # 0 /\ StreakIsCounted /\ SampleDated /\ NotYetDeclared
      /\ OpenReport /\ ClosedReport
      /\ KeysHeld /\ DecisionFits /\ RejectedIsRetired
      /\ LastDeathFits /\ FirstIsFresh /\ OfferedAgainFits /\ RepeatFits /\ DeathFits
      /\ RepeatFollowsConnectFailures
  BY DEF SampleInv, RefinementInv, DeathInv, TimeInv, KeyInv, RepeatInv
<1>c. /\ \A c \in Configs : retired'[c] = retired[c] \/ (retired[c] = 0 /\ retired'[c] = clock)
      /\ retired' # retired => UNCHANGED <<vars, handshake, calling>>
  BY <1>a, KeysMove
<1>f. ASSUME NEW c \in Configs, retired[c] # 0
      PROVE  retired'[c] # 0
  BY <1>c, <1>f
\* Steps that leave the summary file and the predecessor alone.
<1>1. ASSUME summaries' = summaries, prev' = prev, pc' # "done" => pc # "done"
      PROVE  LastDeathFits' /\ FirstIsFresh' /\ RepeatFollowsConnectFailures'
  <2>1. (pc # "done" /\ prev # NoConfig /\ LastReason # "connect_failed") => retired'[prev] # 0
    BY <1>a, <1>f DEF LastDeathFits
  <2>2. LastDeathFits'
    BY <1>a, <1>1, <2>1 DEF LastDeathFits, LastReason
  <2>. QED  BY <1>a, <1>1, <2>2 DEF RepeatFollowsConnectFailures, FirstIsFresh
<1>2. ASSUME summaries' = summaries, prev' = prev, pc' # "grease"
      PROVE  OfferedAgainFits'
  BY <1>2 DEF OfferedAgainFits
<1>3. ASSUME summaries' = summaries, report'.repeatedConfig = report.repeatedConfig,
             pc' \in Following \cup {"summary"} => pc \in Following \cup {"summary"}
      PROVE  RepeatFits'
  BY <1>a, <1>3 DEF RepeatFits, LastReason
<1>4. CASE UNCHANGED vars
  <2>1. LastDeathFits' /\ FirstIsFresh' /\ RepeatFollowsConnectFailures' /\ RepeatFits'
    BY <1>1, <1>3, <1>4 DEF vars, boot, views
  <2>2. DeathFits'
    <3>1. DeathFits => (pc = "summary" /\ Died(report) => retired'[underTest] # 0
                          \/ report.deathReason = "connect_failed")
      BY <1>f DEF DeathFits
    <3>. QED  BY <1>a, <1>4, <3>1 DEF DeathFits, Died, vars, boot, views
  <2>3. OfferedAgainFits'
    <3>1. CASE UNCHANGED handshake
      BY <1>a, <1>4, <3>1 DEF OfferedAgainFits, LastReason, vars, boot, handshake
    <3>2. CASE Decide
      <4>1. ASSUME pc = "grease", offered' = prev, decision' = "rejected"
            PROVE  LastReason = "connect_failed"
        <5>1. prev = current /\ current \in Configs /\ retired[current] = 0
          BY <1>a, <3>2, <4>1 DEF Decide, KeysHeld, ServerTypeOK
        <5>. QED  BY <1>a, <4>1, <5>1, ConfigsAssumption DEF LastDeathFits
      <4>. QED  BY <1>4, <4>1 DEF OfferedAgainFits, LastReason, vars, boot
    <3>3. CASE HandshakeReturns
      BY <3>3 DEF HandshakeReturns, OfferedAgainFits
    <3>. QED
      BY <1>4, <3>1, <3>2, <3>3 DEF ServerNext, Rotate, Retire, Publish, LookupReturns, Proceed,
         ContextEnds, TimePassesBounded, Over, serverVars
  <2>. QED  BY <2>1, <2>2, <2>3 DEF RepeatInv
\* A call returns.
<1>5. CASE HandshakeReturns
  <2>1. decision' = "none" /\ retired' = retired
    BY <1>5 DEF HandshakeReturns, keys
  <2>2. OfferedAgainFits'
    BY <2>1 DEF OfferedAgainFits
  <2>3. CASE decision = "rejected" /\ GreaseSucceeds(offered)
    <3>1. /\ pc = "grease" /\ pc' \in {"baseline", "watch"} /\ summaries' = summaries /\ prev' = prev
          /\ report' = [report EXCEPT !.firstSeen = clock,
                              !.repeatedConfig = (prev # NoConfig /\ prev = offered),
                              !.dnsLastSeen = offered,
                              !.retryLastSeen = offered]
      BY <2>3 DEF GreaseSucceeds
    <3>2. report'.repeatedConfig <=> (prev # NoConfig /\ prev = offered)
      BY <1>a, <3>1 DEF TypeOK, Report
    <3>3. RepeatFits'
      BY <1>a, <2>3, <3>1, <3>2 DEF RepeatFits, OfferedAgainFits, LastDeathFits, LastReason
    <3>4. DeathFits'
      BY <3>1 DEF DeathFits
    <3>. QED  BY <1>1, <2>2, <3>1, <3>3, <3>4 DEF RepeatInv
  <2>4. CASE GreaseFails
    <3>1. /\ pc = "grease" /\ pc' \in {"backoff", "summary"} /\ summaries' = summaries /\ prev' = prev
          /\ report' = NewReport
      BY <1>a, <2>4 DEF GreaseFails, views, SampleDated, Bootstrapping
    <3>2. ~report'.repeatedConfig /\ ~Died(report')
      BY <3>1 DEF NewReport, Died
    <3>3. RepeatFits' /\ DeathFits'
      BY <3>2 DEF RepeatFits, DeathFits, Died
    <3>. QED  BY <1>1, <2>2, <3>1, <3>3 DEF RepeatInv
  <2>5. CASE AttemptAccepted \/ AttemptFailed \/ (decision = "rejected" /\ AttemptRejected(offered))
    <3>1. /\ pc = "attempt" /\ pc' \in {"select", "verdict", "compare"}
          /\ summaries' = summaries /\ prev' = prev
      BY <2>5 DEF AttemptAccepted, AttemptFailed, AttemptRejected, boot
    <3>2. report'.repeatedConfig = report.repeatedConfig
      <4>1. offered \in MaybeConfig
        BY DEF ServerTypeOK
      <4>. QED
        BY <1>a, <2>5, <4>1, RotationKeepsReport DEF AttemptAccepted, AttemptFailed,
           AttemptRejected, views
    <3>3. RepeatFits' /\ DeathFits'
      BY <1>3, <3>1, <3>2 DEF DeathFits, Following, Watched
    <3>. QED  BY <1>1, <2>2, <3>1, <3>3 DEF RepeatInv
  <2>. QED  BY <1>5, <2>3, <2>4, <2>5 DEF HandshakeReturns
<1>6. CASE LookupReturns
  <2>1. PICK c \in {dns, NoConfig} : PollBaseline(c) \/ PollTick(c)
    BY <1>6 DEF LookupReturns
  <2>2. /\ pc \in Following /\ pc' \in {"watch", "attempt"}
        /\ summaries' = summaries /\ prev' = prev
    BY <2>1 DEF PollBaseline, PollTick, boot, Following, Watched
  <2>3. report'.repeatedConfig = report.repeatedConfig
    <3>1. c \in MaybeConfig
      BY DEF ServerTypeOK, MaybeConfig
    <3>. QED  BY <1>a, <2>1, <3>1, RotationKeepsReport DEF PollBaseline, PollTick
  <2>4. OfferedAgainFits' /\ DeathFits'
    BY <1>2, <2>2 DEF DeathFits
  <2>5. LastDeathFits' /\ FirstIsFresh' /\ RepeatFollowsConnectFailures'
    BY <1>1, <2>2 DEF Following, Watched
  <2>6. RepeatFits'
    BY <1>3, <2>2, <2>3
  <2>. QED  BY <2>4, <2>5, <2>6 DEF RepeatInv
\* The goroutine goes on.
<1>7. CASE Proceed
  <2>1. decision' = "none" /\ retired' = retired
    BY <1>7, <1>a, InternalSteps DEF Proceed, DecisionFits, ServerTypeOK, handshake, keys
  <2>2. OfferedAgainFits'
    BY <2>1 DEF OfferedAgainFits
  <2>3. CASE StartSample \/ SamplesExhausted \/ BackoffElapsed
    <3>1. /\ pc' \in {"grease", "done"} /\ pc # "done"
          /\ summaries' = summaries /\ prev' = prev
      BY <2>3 DEF StartSample, SamplesExhausted, BackoffElapsed, boot
    <3>2. RepeatFits' /\ DeathFits'
      BY <3>1 DEF RepeatFits, DeathFits, Following, Watched
    <3>. QED  BY <1>1, <2>2, <3>1, <3>2 DEF RepeatInv
  <2>4. CASE BackoffCancelled
    <3>1. /\ pc = "backoff" /\ pc' = "summary" /\ summaries' = summaries /\ prev' = prev
          /\ report' = NewReport
      BY <1>a, <2>4 DEF BackoffCancelled, views, boot, SampleDated, Bootstrapping
    <3>2. ~report'.repeatedConfig /\ ~Died(report')
      BY <3>1 DEF NewReport, Died
    <3>3. RepeatFits' /\ DeathFits'
      BY <3>2 DEF RepeatFits, DeathFits, Died
    <3>. QED  BY <1>1, <2>2, <3>1, <3>3 DEF RepeatInv
  <2>5. CASE BeginWatch \/ TickArrives \/ CompareReturns \/ KeepWatching
    <3>1. /\ pc \in Following /\ pc' \notin {"summary", "done"}
          /\ summaries' = summaries /\ prev' = prev
      BY <2>5 DEF BeginWatch, TickArrives, CompareReturns, KeepWatching, boot, Following, Watched
    <3>2. report'.repeatedConfig = report.repeatedConfig
      BY <1>a, <2>5 DEF BeginWatch, TickArrives, CompareReturns, KeepWatching, views, TypeOK, Report
    <3>3. LastDeathFits' /\ FirstIsFresh' /\ RepeatFollowsConnectFailures'
      BY <1>1, <3>1 DEF Following, Watched
    <3>4. RepeatFits'
      BY <1>3, <3>1, <3>2
    <3>5. DeathFits'
      BY <3>1 DEF DeathFits
    <3>. QED  BY <2>2, <3>3, <3>4, <3>5 DEF RepeatInv
  <2>6. CASE ContextDone
    <3>1. /\ pc = "select" /\ pc' = "summary" /\ summaries' = summaries /\ prev' = prev
          /\ report' = [report EXCEPT !.alive = TRUE]
      BY <2>6 DEF ContextDone, boot
    <3>2. report'.repeatedConfig = report.repeatedConfig /\ report'.declaredAt = 0
      BY <1>a, <3>1 DEF TypeOK, Report, NotYetDeclared, Watched
    <3>3. DeathFits'
      BY <3>2 DEF DeathFits, Died
    <3>. QED  BY <1>1, <1>3, <2>2, <3>1, <3>2, <3>3 DEF RepeatInv, Following, Watched
  <2>7. CASE DeclareDeath
    <3>1. /\ pc = "verdict" /\ pc' = "summary" /\ summaries' = summaries /\ prev' = prev
          /\ streak.failures >= MaxFailures /\ underTest' = underTest
          /\ report' = [report EXCEPT
               !.death = streak.start,
               !.declaredAt = clock,
               !.deathReason = deathReason(streak.rejections, streak.failures)]
      BY <2>7 DEF DeclareDeath, boot
    <3>2. /\ report'.repeatedConfig = report.repeatedConfig
          /\ report'.deathReason = deathReason(streak.rejections, streak.failures)
      BY <1>a, <3>1 DEF TypeOK, Report
    <3>3. report'.deathReason # "connect_failed" => streak.rejections # 0
      <4>1. streak.failures \in Nat /\ streak.failures # 0
        BY <1>a, <3>1, MaxFailuresAssumption DEF TypeOK, Streak
      <4>. QED  BY <3>2, <4>1 DEF deathReason
    <3>4. DeathFits'
      <4>1. underTest \in Configs /\ (streak.rejections # 0 => retired[underTest] # 0)
        BY <1>a, <3>1 DEF DecisionFits, RejectedIsRetired, Following, Watched
      <4>. QED  BY <2>1, <3>1, <3>3, <4>1 DEF DeathFits
    <3>. QED  BY <1>1, <1>3, <2>2, <3>1, <3>2, <3>4 DEF RepeatInv, Following, Watched
  <2>8. CASE WriteSummary
    <3>. DEFINE n == Len(summaries)
                line == Summary(report)
    <3>1. /\ pc = "summary" /\ summaries' = Append(summaries, line)
          /\ line \in SummaryLine /\ summaries \in Seq(SummaryLine)
          /\ IF Died(report) THEN pc' = "head" /\ prev' = underTest ELSE pc' = "done"
      BY <1>a, <2>8, SummaryType DEF WriteSummary, JustDied, TypeOK
    <3>2. /\ line.repeatedConfig = report.repeatedConfig
          /\ Died(report) => line.deathReason = report.deathReason
      BY <1>a, <3>1 DEF Summary, ClosedReport, Outcome
    <3>. HIDE DEF line
    <3>3. /\ n \in Nat /\ DOMAIN summaries = 1 .. n /\ DOMAIN summaries' = 1 .. n + 1
          /\ Len(summaries') = n + 1 /\ summaries' # <<>>
          /\ summaries'[n + 1] = line /\ \A i \in 1 .. n : summaries'[i] = summaries[i]
      BY <3>1
    <3>4. LastDeathFits'
      BY <1>a, <2>1, <3>1, <3>2, <3>3 DEF LastDeathFits, LastReason, DeathFits
    <3>5. FirstIsFresh'
      <4>1. CASE n = 0
        <5>1. summaries = <<>>
          BY <3>1, <4>1
        <5>. QED  BY <1>a, <3>1, <3>2, <3>3, <4>1, <5>1 DEF FirstIsFresh, RepeatFits
      <4>2. CASE n # 0
        <5>1. summaries # <<>> /\ 1 \in 1 .. n
          BY <3>1, <3>3, <4>2
        <5>. QED  BY <1>a, <3>3, <5>1 DEF FirstIsFresh
      <4>. QED  BY <4>1, <4>2
    <3>6. RepeatFollowsConnectFailures'
      <4>1. ASSUME NEW i \in 1 .. n, summaries[i].repeatedConfig
            PROVE  summaries'[i - 1].deathReason = "connect_failed"
        <5>1. i # 1
          BY <1>a, <3>3, <4>1 DEF FirstIsFresh
        <5>2. i - 1 \in 1 .. n
          BY <3>3, <5>1
        <5>. QED  BY <1>a, <3>3, <4>1, <5>2 DEF RepeatFollowsConnectFailures
      <4>2. ASSUME line.repeatedConfig
            PROVE  summaries'[n].deathReason = "connect_failed"
        <5>1. summaries # <<>> /\ summaries[n].deathReason = "connect_failed"
          BY <1>a, <3>1, <3>2, <4>2 DEF RepeatFits, LastReason
        <5>2. n \in 1 .. n
          BY <3>1, <3>3, <5>1
        <5>. QED  BY <3>3, <5>1, <5>2
      <4>3. ASSUME NEW i \in 1 .. n + 1, summaries'[i].repeatedConfig
            PROVE  summaries'[i - 1].deathReason = "connect_failed"
        <5>1. CASE i \in 1 .. n
          BY <3>3, <4>1, <4>3, <5>1
        <5>2. CASE i = n + 1
          <6>1. i - 1 = n
            BY <3>3, <5>2
          <6>. QED  BY <3>3, <4>2, <4>3, <5>2, <6>1
        <5>. QED  BY <3>3, <5>1, <5>2
      <4>. QED  BY <3>3, <4>3 DEF RepeatFollowsConnectFailures
    <3>7. RepeatFits' /\ DeathFits'
      BY <3>1 DEF RepeatFits, DeathFits, Following, Watched
    <3>. QED  BY <2>2, <3>4, <3>5, <3>6, <3>7 DEF RepeatInv
  <2>. QED  BY <1>7, <2>3, <2>4, <2>5, <2>6, <2>7, <2>8 DEF Proceed, Internal
<1>8. CASE ContextEnds \/ TimePassesBounded
  <2>1. /\ pc' = pc /\ underTest' = underTest /\ prev' = prev /\ summaries' = summaries
        /\ report' = report /\ retired' = retired /\ decision' = decision /\ offered' = offered
    BY <1>8 DEF ContextEnds, TimePassesBounded, Cancel, TimePasses, keys, handshake, boot, views
  <2>2. OfferedAgainFits' /\ DeathFits'
    BY <1>a, <2>1 DEF OfferedAgainFits, DeathFits, LastReason, Died
  <2>. QED  BY <1>1, <1>3, <2>1, <2>2 DEF RepeatInv
<1>. QED
  BY <1>4, <1>5, <1>6, <1>7, <1>8
     DEF ServerNext, Rotate, Retire, Publish, Decide, Over, serverVars

-----------------------------------------------------------------------------
(* How late a clean death is                                               *)

\* The last moment at which all was well with the config under test, as far as the
\* sample is concerned.
Since == Later(retired[underTest], report.firstSeen)

Gone == retired[underTest] # 0

\* All failures so far are rejections.
Clean == streak.rejections # 0 /\ streak.rejections = streak.failures

\* Where the goroutine is in the round that finds out, and how late it may be: after an
\* accepted attempt or the baseline lookup it waits for a tick, polls, and attempts.
InTime ==
    clock < MaxTime =>
        /\ pc = "baseline" => clock <= report.firstSeen + calling
        /\ pc = "watch" => clock <= report.firstSeen + MaxCall
        /\ (pc = "select" /\ streak.failures = 0 /\ Gone) =>
             /\ clock <= Since + MaxCall + Interval
             /\ ~fired => clock + timer <= Since + MaxCall + Interval
        /\ (pc = "pollDNS" /\ streak.failures = 0 /\ Gone) =>
             clock <= Since + MaxCall + Interval + calling
        /\ (pc = "attempt" /\ streak.failures = 0 /\ Gone) =>
             clock <= Since + 2 * MaxCall + Interval + calling
        /\ (pc = "attempt" /\ decision = "accepted" /\ Gone) => clock <= Since + calling
        /\ (pc \in Watched /\ Clean) => streak.start <= Since + 3 * MaxCall + Interval

DelayInv ==
    /\ pc \in {"compare", "verdict"} => streak.failures # 0
    /\ InTime
    /\ Died(report) => underTest \in Configs
    /\ CleanDeathIsRetirement

LEMMA LaterIsLater ==
  ASSUME NEW a \in Nat, NEW b \in Nat
  PROVE  /\ Later(a, b) \in Nat /\ a <= Later(a, b) /\ b <= Later(a, b)
         /\ b <= a => Later(a, b) = a
  BY DEF Later

LEMMA DelayInvInit == ServerInit => DelayInv
<1> SUFFICES ASSUME ServerInit PROVE DelayInv
  OBVIOUS
<1>1. pc = "head" /\ report = NewReport
  BY DEF ServerInit, Init
<1>. QED
  BY <1>1, BlankReport DEF DelayInv, InTime, CleanDeathIsRetirement, Watched

LEMMA DelayInvStep ==
  /\ SampleInv /\ ServerTypeOK /\ KeyInv /\ DelayInv /\ [ServerNext]_serverVars
  => DelayInv'
<1> SUFFICES ASSUME SampleInv, ServerTypeOK, KeyInv, DelayInv, [ServerNext]_serverVars
             PROVE  DelayInv'
  OBVIOUS
<1>a. /\ TypeOK /\ StreakIsCounted /\ SampleDated /\ NotYetDeclared /\ TickerPaced
      /\ KeysHeld /\ DecisionFits /\ RejectedIsRetired
      /\ InTime /\ CleanDeathIsRetirement
      /\ Died(report) => underTest \in Configs
      /\ pc \in {"compare", "verdict"} => streak.failures # 0
      /\ clock # 0
  BY DEF SampleInv, RefinementInv, DeathInv, TimeInv, KeyInv, DelayInv
<1>b. /\ clock \in Nat /\ MaxTime \in Nat /\ timer \in Nat /\ report.firstSeen \in Nat
      /\ Interval \in Nat /\ MaxCall \in Nat /\ calling \in Nat /\ calling <= MaxCall
  BY <1>a, TimesAreNat, MaxTimeAssumption, IntervalAssumption, MaxCallAssumption
     DEF TypeOK, ServerTypeOK
<1>c. /\ \A c \in Configs : retired'[c] = retired[c] \/ (retired[c] = 0 /\ retired'[c] = clock)
      /\ retired' # retired => UNCHANGED <<vars, handshake, calling>>
  BY <1>a, KeysMove
<1>d. clock' = clock \/ (pc \in Blocking /\ clock < MaxTime /\ clock' = clock + 1)
  BY <1>b, ServerStepIsTrackerStep, TimeGoesOn
<1>e. clock' < MaxTime => clock < MaxTime
  BY <1>b, <1>d
<1>f. /\ streak.failures \in Nat /\ streak.rejections \in Nat
      /\ pc \in Watched => streak.rejections <= streak.failures
  BY <1>a DEF TypeOK, Streak, StreakIsCounted
<1>g. pc \in Following => /\ underTest \in Configs /\ retired[underTest] \in Nat
                          /\ report.firstSeen <= clock /\ retired[underTest] <= clock
  BY <1>a DEF DecisionFits, SampleDated, KeysHeld, ServerTypeOK
<1>h. pc \in Following => /\ Since \in Nat /\ report.firstSeen <= Since
                          /\ retired[underTest] <= Since
  BY <1>b, <1>g, LaterIsLater DEF Since
<1>1. pc' \in {"compare", "verdict"} => streak'.failures # 0
  <2>1. CASE HandshakeReturns
    BY <1>f, <2>1 DEF HandshakeReturns, GreaseSucceeds, GreaseFails, AttemptAccepted,
       AttemptRejected, AttemptFailed, Lengthened
  <2>2. CASE LookupReturns
    BY <2>2 DEF LookupReturns, PollBaseline, PollTick
  <2>3. CASE Proceed
    BY <1>a, <2>3 DEF Proceed, Internal, StartSample, SamplesExhausted, WriteSummary, BackoffElapsed,
       BackoffCancelled, BeginWatch, TickArrives, ContextDone, CompareReturns, DeclareDeath,
       KeepWatching, streaks
  <2>4. CASE ContextEnds \/ TimePassesBounded \/ UNCHANGED vars
    BY <1>a, <2>4 DEF ContextEnds, Cancel, TimePassesBounded, TimePasses, vars, streaks
  <2>. QED
    BY <2>1, <2>2, <2>3, <2>4 DEF ServerNext, Rotate, Retire, Publish, Decide, Over, serverVars
\* The death.
<1>2. (Died(report) => underTest \in Configs)' /\ CleanDeathIsRetirement'
  <2>. DEFINE Goal == (Died(report) => underTest \in Configs)' /\ CleanDeathIsRetirement'
  <2>1. ASSUME underTest' = underTest, report'.declaredAt = report.declaredAt,
               report'.deathReason = report.deathReason, report'.death = report.death,
               report'.firstSeen = report.firstSeen
        PROVE  Goal
    <3>1. Died(report') <=> Died(report)
      BY <2>1 DEF Died
    <3>2. ASSUME Died(report), report.deathReason = "ech_rejected", clock' < MaxTime
          PROVE  /\ retired[underTest] # 0 /\ retired'[underTest] = retired[underTest]
                 /\ retired[underTest] <= report.death
                 /\ report.death <= Later(retired[underTest], report.firstSeen)
                                    + 3 * MaxCall + Interval
      <4>1. retired[underTest] # 0 /\ underTest \in Configs
        BY <1>a, <1>e, <3>2 DEF CleanDeathIsRetirement
      <4>. QED  BY <1>a, <1>c, <1>e, <3>2, <4>1 DEF CleanDeathIsRetirement
    <3>. QED  BY <1>a, <2>1, <3>1, <3>2 DEF CleanDeathIsRetirement
  <2>2. ASSUME report'.declaredAt = 0 PROVE Goal
    BY <2>2 DEF CleanDeathIsRetirement, Died
  <2>3. CASE HandshakeReturns
    <3>1. CASE GreaseSucceeds(offered)
      <4>1. report.declaredAt = 0
        BY <1>a, <3>1 DEF GreaseSucceeds, NotYetDeclared
      <4>2. report'.declaredAt = report.declaredAt
        BY <1>a, <3>1 DEF GreaseSucceeds, TypeOK, Report
      <4>. QED  BY <2>2, <4>1, <4>2
    <3>2. CASE GreaseFails \/ AttemptAccepted \/ AttemptFailed
      BY <2>1, <3>2 DEF GreaseFails, AttemptAccepted, AttemptFailed, boot, views
    <3>3. CASE AttemptRejected(offered)
      <4>1. offered \in MaybeConfig /\ recordIfChanged(offered) /\ underTest' = underTest
        BY <3>3 DEF ServerTypeOK, AttemptRejected, boot
      <4>. QED  BY <1>a, <2>1, <4>1, RotationKeepsReport, RotationKeepsEnding
    <3>. QED  BY <2>3, <3>1, <3>2, <3>3 DEF HandshakeReturns
  <2>4. CASE LookupReturns
    <3>1. PICK c \in {dns, NoConfig} : PollBaseline(c) \/ PollTick(c)
      BY <2>4 DEF LookupReturns
    <3>2. c \in MaybeConfig /\ pollDNS(c) /\ underTest' = underTest
      BY <3>1 DEF ServerTypeOK, MaybeConfig, PollBaseline, PollTick, boot
    <3>. QED  BY <1>a, <2>1, <3>2, RotationKeepsReport, RotationKeepsEnding
  <2>5. CASE Proceed
    <3>1. underTest' = underTest
      BY <2>5, InternalSteps DEF Proceed
    <3>2. CASE StartSample
      BY <2>2, <3>2 DEF StartSample, FreshReport, NewReport
    <3>3. CASE BeginWatch \/ ContextDone
      <4>1. /\ report'.declaredAt = report.declaredAt /\ report'.deathReason = report.deathReason
            /\ report'.death = report.death /\ report'.firstSeen = report.firstSeen
        BY <1>a, <3>3 DEF BeginWatch, ContextDone, TypeOK, Report
      <4>. QED  BY <2>1, <3>1, <4>1
    <3>4. CASE DeclareDeath
      <4>1. /\ pc = "verdict" /\ streak.failures >= MaxFailures /\ retired' = retired
            /\ report' = [report EXCEPT
                 !.death = streak.start,
                 !.declaredAt = clock,
                 !.deathReason = deathReason(streak.rejections, streak.failures)]
        BY <2>5, <3>4 DEF DeclareDeath, Proceed, keys
      <4>2. /\ report'.death = streak.start /\ report'.firstSeen = report.firstSeen
            /\ report'.deathReason = deathReason(streak.rejections, streak.failures)
        BY <1>a, <4>1 DEF TypeOK, Report
      <4>3. underTest \in Configs
        BY <1>g, <4>1 DEF Following, Watched
      <4>4. ASSUME report'.deathReason = "ech_rejected", clock' < MaxTime
            PROVE  /\ retired[underTest] # 0 /\ retired[underTest] <= streak.start
                   /\ streak.start <= Later(retired[underTest], report.firstSeen)
                                      + 3 * MaxCall + Interval
        <5>1. streak.rejections = streak.failures
          BY <4>2, <4>4 DEF deathReason
        <5>2. Clean
          BY <1>a, <4>1, <5>1 DEF Clean
        <5>3. clock < MaxTime
          BY <1>e, <4>4
        <5>. QED
          BY <1>a, <4>1, <5>2, <5>3 DEF InTime, Clean, RejectedIsRetired, Watched, Since
      <4>. QED  BY <3>1, <4>1, <4>2, <4>3, <4>4 DEF CleanDeathIsRetirement, Goal
    <3>5. CASE \/ SamplesExhausted \/ BackoffElapsed \/ BackoffCancelled \/ TickArrives
               \/ CompareReturns \/ KeepWatching \/ WriteSummary
      BY <2>1, <3>1, <3>5 DEF SamplesExhausted, BackoffElapsed, BackoffCancelled, TickArrives,
         CompareReturns, KeepWatching, WriteSummary, views
    <3>. QED  BY <2>5, <3>2, <3>3, <3>4, <3>5 DEF Proceed, Internal
  <2>6. CASE ContextEnds \/ TimePassesBounded \/ UNCHANGED vars
    BY <2>1, <2>6 DEF ContextEnds, Cancel, TimePassesBounded, TimePasses, vars, boot, views
  <2>. QED
    BY <2>3, <2>4, <2>5, <2>6 DEF ServerNext, Rotate, Retire, Publish, Decide, Over, serverVars, Goal
\* The round.
<1>3. ASSUME pc' \notin {"baseline", "watch"} \cup Watched PROVE InTime'
  BY <1>3 DEF InTime, Watched
<1>4. ASSUME retired' = retired, underTest' = underTest, report'.firstSeen = report.firstSeen
      PROVE  Since' = Since /\ (Gone' <=> Gone)
  BY <1>4 DEF Since, Gone
<1>5. ASSUME UNCHANGED vars, calling' = calling PROVE InTime'
  <2>1. /\ pc' = pc /\ underTest' = underTest /\ clock' = clock /\ timer' = timer /\ fired' = fired
        /\ streak' = streak /\ report' = report
    BY <1>5 DEF vars, ctx, ticker, boot, views, streaks
  <2>2. Clean' <=> Clean
    BY <2>1 DEF Clean
  <2>3. CASE pc \notin Following
    BY <1>3, <2>1, <2>3 DEF Following
  <2>4. CASE pc \in Following /\ retired'[underTest] = retired[underTest] /\ calling' = calling
    <3>1. Since' = Since /\ (Gone' <=> Gone)
      BY <2>1, <2>4 DEF Since, Gone
    <3>2. (pc = "attempt" /\ decision' = "accepted") => decision = "accepted" \/ ~Gone
      <4>1. CASE Decide
        BY <1>a, <2>4, <4>1 DEF Decide, KeysHeld, Gone
      <4>2. CASE ~Decide
        BY <4>2 DEF ServerNext, Rotate, Retire, Publish, HandshakeReturns, LookupReturns, Proceed,
           ContextEnds, TimePassesBounded, Over, serverVars, handshake
      <4>. QED  BY <4>1, <4>2
    <3>. QED  BY <1>a, <2>1, <2>2, <2>4, <3>1, <3>2 DEF InTime
  <2>5. CASE pc \in Following /\ retired'[underTest] # retired[underTest]
    <3>1. /\ retired'[underTest] = clock /\ ~Gone /\ calling' = calling
      BY <1>c, <1>g, <2>5 DEF Gone
    <3>2. Since' = clock
      BY <1>b, <1>g, <2>1, <2>5, <3>1, LaterIsLater DEF Since
    <3>3. ~(pc \in Watched /\ Clean)
      BY <1>a, <3>1 DEF RejectedIsRetired, Clean, Gone
    <3>4. pc \in Watched => timer <= Interval
      BY <1>a, <1>b DEF TickerPaced
    <3>5. /\ clock <= clock + MaxCall + Interval /\ clock <= clock + MaxCall + Interval + calling
          /\ clock <= clock + 2 * MaxCall + Interval + calling /\ clock <= clock + calling
          /\ pc \in Watched => clock + timer <= clock + MaxCall + Interval
      BY <1>b, <3>4
    <3>. QED  BY <1>a, <2>1, <2>2, <3>1, <3>2, <3>3, <3>5 DEF InTime, Watched
  <2>. QED  BY <1>5, <2>3, <2>4, <2>5
<1>6. ASSUME HandshakeReturns PROVE InTime'
  <2>1. decision' = "none" /\ calling' = 0 /\ retired' = retired
    BY <1>6 DEF HandshakeReturns, keys
  <2>2. CASE GreaseSucceeds(offered)
    <3>1. pc' \in {"baseline", "watch"} /\ clock' = clock
      BY <2>2 DEF GreaseSucceeds, ctx
    <3>2. report'.firstSeen = clock
      BY <1>a, <2>2 DEF GreaseSucceeds, TypeOK, Report
    <3>. QED  BY <1>b, <2>1, <3>1, <3>2 DEF InTime, Watched
  <2>3. CASE GreaseFails
    BY <1>3, <2>3 DEF GreaseFails, Watched
  <2>4. CASE decision = "accepted" /\ AttemptAccepted
    <3>1. /\ pc = "attempt" /\ pc' = "select" /\ clock' = clock /\ timer' = timer
          /\ streak'.rejections = 0 /\ underTest' = underTest /\ report' = report
      BY <2>4 DEF AttemptAccepted, ClearedStreak, NoStreak, ctx, ticker, boot, views
    <3>2. Since' = Since /\ (Gone' <=> Gone)
      BY <1>4, <2>1, <3>1
    <3>3. (clock < MaxTime /\ Gone) => clock <= Since + calling
      BY <1>a, <2>4, <3>1 DEF InTime
    <3>4. timer <= Interval /\ Since \in Nat
      BY <1>a, <1>b, <1>h, <3>1 DEF TickerPaced, Following, Watched
    <3>5. (clock < MaxTime /\ Gone) => /\ clock <= Since + MaxCall + Interval
                                       /\ clock + timer <= Since + MaxCall + Interval
      BY <1>b, <3>3, <3>4
    <3>. QED  BY <3>1, <3>2, <3>5 DEF InTime, Clean
  <2>5. CASE decision = "rejected" /\ AttemptRejected(offered)
    <3>1. /\ pc = "attempt" /\ pc' \in {"compare", "verdict"} /\ clock' = clock
          /\ streak' = Lengthened(TRUE) /\ underTest' = underTest
          /\ offered \in MaybeConfig /\ recordIfChanged(offered)
      BY <2>5 DEF AttemptRejected, ctx, boot, ServerTypeOK
    <3>2. report'.firstSeen = report.firstSeen
      BY <1>a, <3>1, RotationKeepsReport
    <3>3. Since' = Since
      BY <1>4, <2>1, <3>1, <3>2
    <3>4. Gone /\ Since \in Nat
      BY <1>a, <1>h, <2>5, <3>1 DEF DecisionFits, Gone, Following, Watched
    <3>5. /\ streak'.rejections = streak.rejections + 1
          /\ streak'.failures = streak.failures + 1
          /\ streak'.start = IF streak.failures = 0 THEN clock ELSE streak.start
      BY <3>1 DEF Lengthened
    <3>6. ASSUME clock < MaxTime, Clean'
          PROVE  streak'.start <= Since + 3 * MaxCall + Interval
      <4>1. streak.rejections = streak.failures
        BY <1>f, <3>5, <3>6 DEF Clean
      <4>2. CASE streak.failures = 0
        <5>1. clock <= Since + 2 * MaxCall + Interval + calling
          BY <1>a, <3>1, <3>4, <3>6, <4>2 DEF InTime
        <5>2. clock <= Since + 3 * MaxCall + Interval
          BY <1>b, <3>4, <5>1
        <5>. QED  BY <3>5, <4>2, <5>2
      <4>3. CASE streak.failures # 0
        <5>1. Clean
          BY <4>1, <4>3 DEF Clean
        <5>2. streak.start <= Since + 3 * MaxCall + Interval
          BY <1>a, <3>1, <3>6, <5>1 DEF InTime, Watched
        <5>. QED  BY <3>5, <4>3, <5>2
      <4>. QED  BY <4>2, <4>3
    <3>. QED  BY <3>1, <3>3, <3>6 DEF InTime
  <2>6. CASE AttemptFailed
    <3>1. /\ pc = "attempt" /\ pc' = "verdict" /\ streak' = Lengthened(FALSE)
      BY <2>6 DEF AttemptFailed
    <3>2. streak'.rejections = streak.rejections /\ streak'.failures = streak.failures + 1
      BY <1>f, <3>1 DEF Lengthened
    <3>3. ~Clean'
      <4>1. streak.rejections <= streak.failures
        BY <1>f, <3>1 DEF Watched
      <4>2. streak'.rejections # streak'.failures
        BY <1>f, <3>2, <4>1
      <4>. QED  BY <4>2 DEF Clean
    <3>. QED  BY <3>1, <3>3 DEF InTime
  <2>. QED  BY <1>6, <2>2, <2>3, <2>4, <2>5, <2>6 DEF HandshakeReturns
<1>7. ASSUME LookupReturns PROVE InTime'
  <2>1. PICK c \in {dns, NoConfig} : PollBaseline(c) \/ PollTick(c)
    BY <1>7 DEF LookupReturns
  <2>2. /\ calling' = 0 /\ decision' = decision /\ retired' = retired
        /\ clock' = clock /\ underTest' = underTest /\ streak' = streak
    BY <1>7, <2>1 DEF LookupReturns, PollBaseline, PollTick, handshake, keys, ctx, boot, streaks
  <2>3. c \in MaybeConfig /\ pollDNS(c)
    BY <2>1 DEF ServerTypeOK, MaybeConfig, PollBaseline, PollTick
  <2>4. report'.firstSeen = report.firstSeen
    BY <1>a, <2>3, RotationKeepsReport
  <2>5. Since' = Since /\ (Gone' <=> Gone) /\ (Clean' <=> Clean)
    BY <1>4, <2>2, <2>4 DEF Clean
  <2>6. CASE PollBaseline(c)
    <3>1. pc = "baseline" /\ pc' = "watch"
      BY <2>6 DEF PollBaseline
    <3>2. clock < MaxTime => clock <= report.firstSeen + MaxCall
      BY <1>a, <1>b, <3>1 DEF InTime
    <3>. QED  BY <2>2, <2>4, <3>1, <3>2 DEF InTime, Watched
  <2>7. CASE PollTick(c)
    <3>1. pc = "pollDNS" /\ pc' = "attempt" /\ Since \in Nat
      BY <1>h, <2>7 DEF PollTick, Following, Watched
    <3>2. (clock < MaxTime /\ streak.failures = 0 /\ Gone) =>
            clock <= Since + 2 * MaxCall + Interval + 0
      BY <1>a, <1>b, <3>1 DEF InTime
    <3>3. decision # "accepted"
      BY <1>a, <3>1 DEF DecisionFits
    <3>4. (clock < MaxTime /\ Clean) => streak.start <= Since + 3 * MaxCall + Interval
      BY <1>a, <3>1 DEF InTime, Watched
    <3>. QED  BY <2>2, <2>5, <3>1, <3>2, <3>3, <3>4 DEF InTime
  <2>. QED  BY <2>1, <2>6, <2>7
<1>8. ASSUME Proceed PROVE InTime'
  <2>1. /\ calling' = 0 /\ decision' = decision /\ retired' = retired
        /\ clock' = clock /\ underTest' = underTest /\ decision # "accepted"
    BY <1>8, <1>a, InternalSteps DEF Proceed, handshake, keys, DecisionFits
  <2>2. CASE BeginWatch
    <3>1. pc = "watch" /\ pc' = "select" /\ timer' = Interval /\ streak' = NoStreak
      BY <2>2 DEF BeginWatch, ArmTimer
    <3>2. report'.firstSeen = report.firstSeen
      BY <1>a, <2>2 DEF BeginWatch, TypeOK, Report
    <3>3. Since' = Since /\ (Gone' <=> Gone) /\ ~Clean'
      BY <1>4, <2>1, <3>1, <3>2 DEF Clean, NoStreak
    <3>4. clock < MaxTime => clock <= report.firstSeen + MaxCall
      BY <1>a, <3>1 DEF InTime
    <3>5. report.firstSeen <= Since /\ Since \in Nat
      BY <1>h, <3>1 DEF Following
    <3>6. clock < MaxTime => /\ clock <= Since + MaxCall + Interval
                             /\ clock + Interval <= Since + MaxCall + Interval
      BY <1>b, <3>4, <3>5
    <3>. QED  BY <2>1, <3>1, <3>3, <3>6 DEF InTime
  <2>3. CASE TickArrives
    <3>1. /\ pc = "select" /\ fired /\ pc' \in {"pollDNS", "attempt"} /\ streak' = streak
          /\ report' = report
      BY <2>3 DEF TickArrives, streaks, views
    <3>2. Since' = Since /\ (Gone' <=> Gone) /\ (Clean' <=> Clean) /\ Since \in Nat
      BY <1>4, <1>h, <2>1, <3>1 DEF Clean, Following, Watched
    <3>3. (clock < MaxTime /\ streak.failures = 0 /\ Gone) => clock <= Since + MaxCall + Interval
      BY <1>a, <3>1 DEF InTime
    <3>4. (clock < MaxTime /\ streak.failures = 0 /\ Gone) =>
            /\ clock <= Since + MaxCall + Interval + 0
            /\ clock <= Since + 2 * MaxCall + Interval + 0
      BY <1>b, <3>2, <3>3
    <3>5. (clock < MaxTime /\ Clean) => streak.start <= Since + 3 * MaxCall + Interval
      BY <1>a, <3>1 DEF InTime, Watched
    <3>. QED  BY <2>1, <3>1, <3>2, <3>4, <3>5 DEF InTime
  <2>4. CASE CompareReturns \/ KeepWatching
    <3>1. /\ pc \in {"compare", "verdict"} /\ pc' \in {"verdict", "select"} /\ streak' = streak
          /\ report' = report
      BY <2>4 DEF CompareReturns, KeepWatching, streaks, views
    <3>2. Since' = Since /\ (Gone' <=> Gone) /\ (Clean' <=> Clean)
      BY <1>4, <2>1, <3>1 DEF Clean
    <3>3. streak.failures # 0
      BY <1>a, <3>1
    <3>4. (clock < MaxTime /\ Clean) => streak.start <= Since + 3 * MaxCall + Interval
      BY <1>a, <3>1 DEF InTime, Watched
    <3>. QED  BY <2>1, <3>1, <3>2, <3>3, <3>4 DEF InTime
  <2>5. CASE \/ StartSample \/ SamplesExhausted \/ WriteSummary \/ BackoffElapsed
             \/ BackoffCancelled \/ ContextDone \/ DeclareDeath
    <3>1. pc' \notin {"baseline", "watch"} \cup Watched
      BY <2>5 DEF StartSample, SamplesExhausted, WriteSummary, BackoffElapsed, BackoffCancelled,
         ContextDone, DeclareDeath, Watched
    <3>. QED  BY <1>3, <3>1
  <2>. QED  BY <1>8, <2>2, <2>3, <2>4, <2>5 DEF Proceed, Internal
<1>9. ASSUME ContextEnds PROVE InTime'
  <2>1. /\ pc' = pc /\ underTest' = underTest /\ clock' = clock /\ timer' = timer /\ fired' = fired
        /\ streak' = streak /\ report' = report
        /\ calling' = calling /\ decision' = decision /\ retired' = retired
    BY <1>9 DEF ContextEnds, Cancel, ticker, boot, views, streaks, keys, handshake
  <2>2. Since' = Since /\ (Gone' <=> Gone) /\ (Clean' <=> Clean)
    BY <1>4, <2>1 DEF Clean
  <2>. QED  BY <1>a, <2>1, <2>2 DEF InTime
<1>10. ASSUME TimePassesBounded PROVE InTime'
  <2>1. /\ pc' = pc /\ underTest' = underTest /\ streak' = streak /\ report' = report
        /\ decision' = decision /\ retired' = retired /\ pc \in Blocking
        /\ pc \in {"baseline", "pollDNS", "attempt"} => calling' = calling + 1
        /\ pc = "select" => ~fired
        /\ clock' = IF clock < MaxTime THEN clock + 1 ELSE clock
        /\ timer' = CASE timer = 0 -> 0 [] timer = 1 -> Interval [] OTHER -> timer - 1
        /\ fired' = (fired \/ timer = 1)
    BY <1>10 DEF TimePassesBounded, TimePasses, boot, views, streaks, keys, handshake, Calling,
       Blocking
  <2>2. Since' = Since /\ (Gone' <=> Gone) /\ (Clean' <=> Clean)
    BY <1>4, <2>1 DEF Clean
  <2>3. CASE ~(clock' < MaxTime)
    BY <2>3 DEF InTime
  <2>4. CASE pc \notin Following
    BY <1>3, <2>1, <2>4 DEF Following
  <2>5. CASE clock' < MaxTime /\ pc \in Following
    <3>1. clock < MaxTime /\ clock' = clock + 1 /\ pc # "watch"
      BY <1>b, <2>1, <2>5 DEF Blocking
    <3>2. Since \in Nat
      BY <1>h, <2>5
    <3>3. pc = "baseline" => clock' <= report.firstSeen + calling'
      BY <1>a, <1>b, <2>1, <3>1 DEF InTime
    <3>4. ASSUME pc = "select", streak.failures = 0, Gone
          PROVE  /\ clock' <= Since + MaxCall + Interval
                 /\ ~fired' => clock' + timer' <= Since + MaxCall + Interval
      <4>1. clock + timer <= Since + MaxCall + Interval /\ ~fired
        BY <1>a, <2>1, <3>1, <3>4 DEF InTime
      <4>2. timer \in 1 .. Interval
        BY <1>a, <3>4 DEF TickerPaced, Watched
      <4>3. clock' <= Since + MaxCall + Interval
        BY <1>b, <3>1, <3>2, <4>1, <4>2
      <4>4. ~fired' => timer # 1
        <5>1. fired' = (fired \/ timer = 1)
          BY <2>1
        <5>. QED  BY ONLY <5>1, Zenon
      <4>5. ASSUME timer # 1 PROVE timer' = timer - 1
        <5>1. timer # 0
          BY <1>b, <4>2
        <5>2. timer' = CASE timer = 0 -> 0 [] timer = 1 -> Interval [] OTHER -> timer - 1
          BY <2>1
        <5>. QED  BY ONLY <4>5, <5>1, <5>2
      <4>. QED  BY <1>b, <3>1, <3>2, <4>1, <4>3, <4>4, <4>5
    <3>5. (pc = "pollDNS" /\ streak.failures = 0 /\ Gone) =>
            clock' <= Since + MaxCall + Interval + calling'
      BY <1>a, <1>b, <2>1, <3>1, <3>2 DEF InTime
    <3>6. (pc = "attempt" /\ streak.failures = 0 /\ Gone) =>
            clock' <= Since + 2 * MaxCall + Interval + calling'
      BY <1>a, <1>b, <2>1, <3>1, <3>2 DEF InTime
    <3>7. (pc = "attempt" /\ decision = "accepted" /\ Gone) => clock' <= Since + calling'
      BY <1>a, <1>b, <2>1, <3>1, <3>2 DEF InTime
    <3>8. (pc \in Watched /\ Clean) => streak.start <= Since + 3 * MaxCall + Interval
      BY <1>a, <3>1 DEF InTime
    <3>. QED
      BY <2>1, <2>2, <3>1, <3>3, <3>4, <3>5, <3>6, <3>7, <3>8 DEF InTime
  <2>. QED  BY <2>3, <2>4, <2>5
<1>11. InTime'
  BY <1>5, <1>6, <1>7, <1>8, <1>9, <1>10
     DEF ServerNext, Rotate, Retire, Publish, Decide, Over, serverVars
<1>. QED  BY <1>1, <1>2, <1>11 DEF DelayInv

-----------------------------------------------------------------------------
(* The theorems                                                            *)

ServerInv == SampleInv /\ ServerTypeOK /\ KeyInv /\ RepeatInv /\ DelayInv

\* In front of a server the tracker behaves as GraceTracker says, so that all that is
\* proved of it holds here.
THEOREM ServerRunsTracker == ServerSpec => Spec
<1>1. ServerInit => TypeOK /\ ServerTypeOK
  BY TypeInit, ServerTypeInit DEF ServerInit
<1>2. TypeOK /\ ServerTypeOK /\ [ServerNext]_serverVars => (TypeOK /\ ServerTypeOK)'
  BY ServerTypeStep, ServerStepIsTrackerStep, TypeStep
<1>3. ServerInit => Init
  BY DEF ServerInit
<1>4. ServerTypeOK /\ [ServerNext]_serverVars => [Next]_vars
  BY ServerStepIsTrackerStep
<1>. QED  BY <1>1, <1>2, <1>3, <1>4, PTL DEF ServerSpec, Spec

\* Keys, samples and times keep together in front of any server and resolver.
THEOREM ServerInvHolds == ServerSpec => []ServerInv
<1>1. ServerInit => ServerTypeOK /\ KeyInv /\ RepeatInv /\ DelayInv
  BY ServerTypeInit, KeyInvInit, RepeatInvInit, DelayInvInit
<1>2. /\ SampleInv /\ ServerTypeOK /\ KeyInv /\ RepeatInv /\ DelayInv /\ [ServerNext]_serverVars
      => (ServerTypeOK /\ KeyInv /\ RepeatInv /\ DelayInv)'
  <2>1. SampleInv => TypeOK
    BY DEF SampleInv, RefinementInv, DeathInv
  <2>. QED  BY <2>1, ServerTypeStep, KeyInvStep, RepeatInvStep, DelayInvStep
<1>3. ServerSpec => []SampleInv
  BY ServerRunsTracker, SampleInvHolds, PTL
<1>. QED  BY <1>1, <1>2, <1>3, PTL DEF ServerSpec, ServerInv

\* An ech_rejected death is never dated before the server retired the config, and at
\* most three calls and an interval after that, or after the config was handed out.
THEOREM CleanDeathsAreRetirements == ServerSpec => []CleanDeathIsRetirement
<1>1. ServerInv => CleanDeathIsRetirement
  BY DEF ServerInv, DelayInv
<1>. QED  BY <1>1, ServerInvHolds, PTL

\* The retry channel reports a rotation only once the config under test is retired.
THEOREM RetryRotationsAreReal == ServerSpec => []RetryRotationIsReal
<1>1. ServerInv => RetryRotationIsReal
  BY DEF ServerInv, KeyInv
<1>. QED  BY <1>1, ServerInvHolds, PTL

\* A sample that gets the config of the one before follows a death by connection
\* failures alone.
THEOREM RepeatsFollowConnectFailures == ServerSpec => []RepeatFollowsConnectFailures
<1>1. ServerInv => RepeatFollowsConnectFailures
  BY DEF ServerInv, RepeatInv
<1>. QED  BY <1>1, ServerInvHolds, PTL

=============================================================================
