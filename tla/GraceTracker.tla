---------------------------- MODULE GraceTracker ----------------------------
(***************************************************************************)
(* One domain's goroutine of `echtool test grace-period`: trackDomain and  *)
(* everything it calls in internal/tools/echtest/graceperiod.go.           *)
(*                                                                         *)
(* The tracker runs samples back to back.  A sample elicits a retry config *)
(* with a GREASE probe (bootstrap), re-offers it every Interval, follows   *)
(* rotation on two channels (the DNS HTTPS RR and the server's own         *)
(* RetryConfigs), and declares the config dead after MaxFailures           *)
(* consecutive failed attempts.  The run's context may be cancelled at any *)
(* moment (SIGINT or --max-runtime).                                       *)
(*                                                                         *)
(* pc names the place where the goroutine is.  In a Blocking place it is   *)
(* inside a network call or a select; time passes only there.  The step    *)
(* that leaves a blocking place carries the answer of the outside world,   *)
(* which is arbitrary: every interleaving of server, network and resolver  *)
(* behaviour is an interleaving of these answers.                          *)
(***************************************************************************)
EXTENDS Naturals, Sequences

CONSTANTS
    Configs,      \* ECHConfigLists a server or a resolver may hand out
    NoConfig,     \* the nil list: no previous sample, no answer, no retry configs
    MaxFailures,  \* --max-failures
    Samples,      \* --samples; 0 = unbounded
    Interval,     \* --interval, in clock units
    MaxTime,      \* bound: the wall clock is not followed beyond this value
    MaxRotations  \* bound: rotations followed per channel and sample

ASSUME ConfigsAssumption == NoConfig \notin Configs
ASSUME MaxFailuresAssumption == MaxFailures \in Nat \ {0}
ASSUME SamplesAssumption == Samples \in Nat
ASSUME IntervalAssumption == Interval \in Nat \ {0}
ASSUME MaxTimeAssumption == MaxTime \in Nat \ {0}
ASSUME MaxRotationsAssumption == MaxRotations \in Nat

VARIABLES
    pc,              \* where the goroutine is
    cancelled,       \* ctx is done
    clock,           \* the wall clock; a time of 0 is Go's zero time
    timer,           \* clock units until the armed timer or ticker fires, 0 = stopped
    fired,           \* its channel (capacity 1) holds a tick
    sample,          \* sampleN
    prev,            \* config the previous sample tested to death
    underTest,       \* config under test
    greaseFailures,  \* failed GREASE probes of this bootstrap
    greaseLog,       \* configs of the "grease" records logged so far
    report,          \* the graceReport of this sample
    observed,        \* its `observed` records
    streak,          \* consecutiveFailures, streakRejections, streakStart
    streakLog,       \* "probe" records logged since the last acceptance
    summaries        \* lines of the domain's summary file

ctx == <<cancelled, clock>>
ticker == <<timer, fired>>
boot == <<sample, prev, underTest, greaseFailures, greaseLog>>
views == <<report, observed>>
streaks == <<streak, streakLog>>
vars == <<pc, ctx, ticker, boot, views, streaks, summaries>>

-----------------------------------------------------------------------------
(* Data                                                                    *)

MaybeConfig == Configs \cup {NoConfig}

Sources == {"grease", "retry", "dns"}

DeathReasons == {"ech_rejected", "connect_failed", "mixed"}

Observation == [source : Sources, config : Configs, at : Nat]

Probe == [rejected : BOOLEAN, retry : MaybeConfig, at : Nat]

Streak == [failures : Nat, rejections : Nat, start : Nat]

NoStreak == [failures |-> 0, rejections |-> 0, start |-> 0]

Report == [firstSeen : Nat, dnsChanged : Nat, retryChanged : Nat,
           dnsLastSeen : MaybeConfig, retryLastSeen : MaybeConfig,
           dnsRotations : Nat, retryRotations : Nat,
           death : Nat, declaredAt : Nat, deathReason : DeathReasons \cup {""},
           alive : BOOLEAN, bootstrapOK : BOOLEAN, repeatedConfig : BOOLEAN]

NewReport == [firstSeen |-> 0, dnsChanged |-> 0, retryChanged |-> 0,
              dnsLastSeen |-> NoConfig, retryLastSeen |-> NoConfig,
              dnsRotations |-> 0, retryRotations |-> 0,
              death |-> 0, declaredAt |-> 0, deathReason |-> "",
              alive |-> FALSE, bootstrapOK |-> FALSE, repeatedConfig |-> FALSE]

\* Places where the goroutine waits for the network, a timer or the ctx.
Blocking == {"grease", "backoff", "baseline", "select", "pollDNS", "attempt",
             "compare"}

Places == Blocking \cup {"head", "watch", "verdict", "summary", "done"}

-----------------------------------------------------------------------------
(* Faulty variants of definitions below: slips each property must catch.   *)

ClearedStreakFailuresOnly == [streak EXCEPT !.failures = 0]

LengthenedRestarting(rejected) ==
    [failures |-> streak.failures + 1,
     rejections |-> streak.rejections + (IF rejected THEN 1 ELSE 0),
     start |-> clock]

LengthenedByRejections(rejected) ==
    IF rejected
      THEN [failures |-> streak.failures + 1,
            rejections |-> streak.rejections + 1,
            start |-> IF streak.failures = 0 THEN clock ELSE streak.start]
      ELSE streak

LengthenedAsRejected(rejected) ==
    [failures |-> streak.failures + 1,
     rejections |-> streak.rejections + 1,
     start |-> IF streak.failures = 0 THEN clock ELSE streak.start]

deathReasonOfAny(rejections, total) ==
    IF rejections = 0 THEN "connect_failed" ELSE "ech_rejected"

rotationUnset(r) ==
    IF r.retryChanged < r.dnsChanged
      THEN [at |-> r.retryChanged, source |-> "retry"]
      ELSE [at |-> r.dnsChanged, source |-> "dns"]

NewsUnchecked(c, lastSeen) == c # lastSeen

NewsSinceBootstrap(c, lastSeen) == c # NoConfig /\ c # underTest

DiedWhenWatched(r) == r.bootstrapOK

RetriesBootstrapOnceMore == prev # NoConfig /\ greaseFailures + 1 <= MaxFailures

ClearedStreakByOne == [NoStreak EXCEPT !.failures = IF streak.failures = 0 THEN 0
                                                    ELSE streak.failures - 1]

FirstDead == IF prev = NoConfig THEN underTest ELSE prev

FreshReportReused == report

HasBudgetStrict == Samples = 0 \/ sample < Samples

MayStopIfIdle == cancelled /\ ~fired

ArmTimerFired ==
    /\ timer' = Interval
    /\ fired' = TRUE

-----------------------------------------------------------------------------
(* Operators of the code                                                   *)

Seen(source, config) == [source |-> source, config |-> config, at |-> clock]

\* The earliest of dnsChanged and retryChanged and the channel it came from;
\* a DNS change wins a tie.
rotation(r) ==
    IF r.dnsChanged = 0 \/ (r.retryChanged # 0 /\ r.retryChanged < r.dnsChanged)
      THEN [at |-> r.retryChanged, source |-> "retry"]
      ELSE [at |-> r.dnsChanged, source |-> "dns"]

\* What kind of failures a fatal streak consisted of.
deathReason(rejections, total) ==
    CASE rejections = total -> "ech_rejected"
      [] rejections # total /\ rejections = 0 -> "connect_failed"
      [] OTHER -> "mixed"

\* runSample returned true.
Died(r) == r.declaredAt # 0

FreshReport == NewReport

HasBudget == Samples = 0 \/ sample <= Samples

\* The config handed on to the next sample.
JustDied == underTest

\* A failed GREASE probe is repeated on a rerun only, up to MaxFailures probes.
RetriesBootstrap == prev # NoConfig /\ greaseFailures + 1 < MaxFailures

MayStop == cancelled

\* An accepted attempt forgets the streak; a failed one lengthens it.
ClearedStreak == NoStreak

Lengthened(rejected) ==
    [failures |-> streak.failures + 1,
     rejections |-> streak.rejections + (IF rejected THEN 1 ELSE 0),
     start |-> IF streak.failures = 0 THEN clock ELSE streak.start]

\* The history of the streak, followed just beyond a fatal one.
Logged(p) ==
    IF Len(streakLog) > MaxFailures THEN streakLog ELSE Append(streakLog, p)

\* A channel reports a config other than the one it reported last.
News(c, lastSeen) == c # NoConfig /\ c # lastSeen

ArmTimer ==
    /\ timer' = Interval
    /\ fired' = FALSE

StopTimer ==
    /\ timer' = 0
    /\ fired' = FALSE

\* The line writeSummary persists.  What the Go struct omits is zero or ""
\* here; lifetime and overlap are differences of the times kept.
Summary(r) ==
    LET dead == r.bootstrapOK /\ ~r.alive IN
    [sample |-> sample, bootstrapOK |-> r.bootstrapOK, alive |-> r.alive,
     repeatedConfig |-> r.repeatedConfig, firstSeen |-> r.firstSeen,
     dnsRotations |-> r.dnsRotations, retryRotations |-> r.retryRotations,
     rotationChanged |-> rotation(r).at,
     rotationSource |-> IF rotation(r).at = 0 THEN "" ELSE rotation(r).source,
     death |-> IF dead THEN r.death ELSE 0,
     declaredAt |-> IF dead THEN r.declaredAt ELSE 0,
     deathReason |-> IF dead THEN r.deathReason ELSE ""]

-----------------------------------------------------------------------------
(* trackDomain: the sample loop                                            *)

Init ==
    /\ pc = "head"
    /\ cancelled = FALSE
    /\ clock = 1
    /\ timer = 0
    /\ fired = FALSE
    /\ sample = 1
    /\ prev = NoConfig
    /\ underTest = NoConfig
    /\ greaseFailures = 0
    /\ greaseLog = <<>>
    /\ report = NewReport
    /\ observed = <<>>
    /\ streak = NoStreak
    /\ streakLog = <<>>
    /\ summaries = <<>>

StartSample ==
    /\ pc = "head"
    /\ HasBudget
    /\ pc' = "grease"
    /\ report' = FreshReport
    /\ observed' = <<>>
    /\ greaseFailures' = 0
    /\ UNCHANGED <<ctx, ticker, sample, prev, underTest, greaseLog, streaks,
                   summaries>>

SamplesExhausted ==
    /\ pc = "head"
    /\ ~HasBudget
    /\ pc' = "done"
    /\ UNCHANGED <<ctx, ticker, boot, views, streaks, summaries>>

\* writeSummary, and the loop's decision: only a death starts another sample.
WriteSummary ==
    /\ pc = "summary"
    /\ summaries' = Append(summaries, Summary(report))
    /\ IF Died(report)
         THEN /\ pc' = "head"
              /\ prev' = JustDied
              /\ sample' = sample + 1
         ELSE /\ pc' = "done"
              /\ UNCHANGED <<prev, sample>>
    /\ UNCHANGED <<ctx, ticker, underTest, greaseFailures, greaseLog, views,
                   streaks>>

-----------------------------------------------------------------------------
(* bootstrap                                                               *)

\* The GREASE probe yields no retry config.
GreaseFails ==
    /\ pc = "grease"
    /\ greaseFailures' = greaseFailures + 1
    /\ IF RetriesBootstrap
         THEN pc' = "backoff" /\ ArmTimer
         ELSE pc' = "summary" /\ UNCHANGED ticker
    /\ UNCHANGED <<ctx, sample, prev, underTest, greaseLog, views, streaks,
                   summaries>>

BackoffElapsed ==
    /\ pc = "backoff"
    /\ fired
    /\ pc' = "grease"
    /\ StopTimer
    /\ UNCHANGED <<ctx, boot, views, streaks, summaries>>

BackoffCancelled ==
    /\ pc = "backoff"
    /\ cancelled
    /\ pc' = "summary"
    /\ StopTimer
    /\ UNCHANGED <<ctx, boot, views, streaks, summaries>>

\* The server hands back retry config c, which becomes the config under test.
\* The baseline DNS lookup that follows fails at once under a dead ctx.
GreaseSucceeds(c) ==
    /\ pc = "grease"
    /\ underTest' = c
    /\ greaseLog' = Append(greaseLog, c)
    /\ report' = [report EXCEPT !.firstSeen = clock,
                                !.repeatedConfig = (prev # NoConfig /\ prev = c),
                                !.dnsLastSeen = c,
                                !.retryLastSeen = c]
    /\ observed' = <<Seen("grease", c)>>
    /\ pc' = IF cancelled THEN "watch" ELSE "baseline"
    /\ UNCHANGED <<ctx, ticker, sample, prev, greaseFailures, streaks, summaries>>

-----------------------------------------------------------------------------
(* pollDNS and recordIfChanged: the two rotation channels                  *)

\* LookupECH answers c (NoConfig: an error, or no ech parameter).
pollDNS(c) ==
    IF News(c, report.dnsLastSeen)
      THEN /\ report.dnsRotations < MaxRotations
           /\ report' = [report EXCEPT
                !.dnsLastSeen = c,
                !.dnsRotations = @ + 1,
                !.dnsChanged = IF @ = 0 THEN clock ELSE @]
           /\ observed' = Append(observed, Seen("dns", c))
      ELSE UNCHANGED views

\* A rejection hands back retry configs c.
recordIfChanged(c) ==
    IF News(c, report.retryLastSeen)
      THEN /\ report.retryRotations < MaxRotations
           /\ report' = [report EXCEPT
                !.retryLastSeen = c,
                !.retryRotations = @ + 1,
                !.retryChanged = IF @ = 0 THEN clock ELSE @]
           /\ observed' = Append(observed, Seen("retry", c))
      ELSE UNCHANGED views

PollBaseline(c) ==
    /\ pc = "baseline"
    /\ pollDNS(c)
    /\ pc' = "watch"
    /\ UNCHANGED <<ctx, ticker, boot, streaks, summaries>>

PollTick(c) ==
    /\ pc = "pollDNS"
    /\ pollDNS(c)
    /\ pc' = "attempt"
    /\ UNCHANGED <<ctx, ticker, boot, streaks, summaries>>

-----------------------------------------------------------------------------
(* runSample: the watch loop                                               *)

BeginWatch ==
    /\ pc = "watch"
    /\ pc' = "select"
    /\ report' = [report EXCEPT !.bootstrapOK = TRUE]
    /\ ArmTimer
    /\ streak' = NoStreak
    /\ streakLog' = <<>>
    /\ UNCHANGED <<ctx, boot, observed, summaries>>

\* select takes either ready case; a lookup begun under a dead ctx fails.
TickArrives ==
    /\ pc = "select"
    /\ fired
    /\ fired' = FALSE
    /\ pc' = IF cancelled THEN "attempt" ELSE "pollDNS"
    /\ UNCHANGED <<ctx, timer, boot, views, streaks, summaries>>

ContextDone ==
    /\ pc = "select"
    /\ MayStop
    /\ report' = [report EXCEPT !.alive = TRUE]
    /\ pc' = "summary"
    /\ StopTimer
    /\ UNCHANGED <<ctx, boot, observed, streaks, summaries>>

AttemptAccepted ==
    /\ pc = "attempt"
    /\ streak' = ClearedStreak
    /\ streakLog' = <<>>
    /\ pc' = "select"
    /\ UNCHANGED <<ctx, ticker, boot, views, summaries>>

\* A failed attempt is logged and lengthens the streak.  A rejection with retry
\* configs c is recorded, and then compared with DNS (CompareAndLog), which
\* changes nothing but takes time.  NoConfig: the retry list was empty or
\* undecodable.
AttemptRejected(c) ==
    /\ pc = "attempt"
    /\ streak' = Lengthened(TRUE)
    /\ streakLog' = Logged([rejected |-> TRUE, retry |-> c, at |-> clock])
    /\ recordIfChanged(c)
    /\ pc' = IF c = NoConfig THEN "verdict" ELSE "compare"
    /\ UNCHANGED <<ctx, ticker, boot, summaries>>

\* Dial error, TLS config error, or a handshake that did not accept ECH.
AttemptFailed ==
    /\ pc = "attempt"
    /\ streak' = Lengthened(FALSE)
    /\ streakLog' = Logged([rejected |-> FALSE, retry |-> NoConfig, at |-> clock])
    /\ pc' = "verdict"
    /\ UNCHANGED <<ctx, ticker, boot, views, summaries>>

CompareReturns ==
    /\ pc = "compare"
    /\ pc' = "verdict"
    /\ UNCHANGED <<ctx, ticker, boot, views, streaks, summaries>>

DeclareDeath ==
    /\ pc = "verdict"
    /\ streak.failures >= MaxFailures
    /\ report' = [report EXCEPT
         !.death = streak.start,
         !.declaredAt = clock,
         !.deathReason = deathReason(streak.rejections, streak.failures)]
    /\ pc' = "summary"
    /\ StopTimer
    /\ UNCHANGED <<ctx, boot, observed, streaks, summaries>>

KeepWatching ==
    /\ pc = "verdict"
    /\ streak.failures < MaxFailures
    /\ pc' = "select"
    /\ UNCHANGED <<ctx, ticker, boot, views, streaks, summaries>>

-----------------------------------------------------------------------------
(* The environment                                                         *)

Cancel ==
    /\ ~cancelled
    /\ cancelled' = TRUE
    /\ UNCHANGED <<pc, clock, ticker, boot, views, streaks, summaries>>

\* One clock unit.  The ticker refills its one-slot channel every Interval and
\* drops a tick nobody took.  Beyond MaxTime the clock reads MaxTime, while the
\* timer keeps running.
TimePasses ==
    /\ pc \in Blocking
    /\ clock' = IF clock < MaxTime THEN clock + 1 ELSE clock
    /\ timer' = CASE timer = 0 -> 0
                  [] timer = 1 -> Interval
                  [] OTHER -> timer - 1
    /\ fired' = (fired \/ timer = 1)
    /\ UNCHANGED <<pc, cancelled, boot, views, streaks, summaries>>

Terminated ==
    /\ pc = "done"
    /\ UNCHANGED vars

-----------------------------------------------------------------------------

GreaseAnswers == GreaseFails \/ \E c \in Configs : GreaseSucceeds(c)

DNSAnswers == \E c \in MaybeConfig : PollBaseline(c) \/ PollTick(c)

ServerAnswers ==
    \/ AttemptAccepted
    \/ AttemptFailed
    \/ \E c \in MaybeConfig : AttemptRejected(c)

Internal ==
    \/ StartSample
    \/ SamplesExhausted
    \/ BackoffElapsed
    \/ BackoffCancelled
    \/ BeginWatch
    \/ TickArrives
    \/ ContextDone
    \/ CompareReturns
    \/ DeclareDeath
    \/ KeepWatching
    \/ WriteSummary

Next ==
    \/ Internal
    \/ GreaseAnswers
    \/ DNSAnswers
    \/ ServerAnswers
    \/ Cancel
    \/ TimePasses
    \/ Terminated

Spec == Init /\ [][Next]_vars

\* The goroutine keeps running, every network call returns (dial.Timeout,
\* lookupTimeout), time goes on, and a select that finds the dead ctx ready
\* again and again takes it at some point (Go picks among ready cases at random).
Fairness ==
    /\ WF_vars(Internal)
    /\ WF_vars(GreaseAnswers)
    /\ WF_vars(DNSAnswers)
    /\ WF_vars(ServerAnswers)
    /\ WF_vars(TimePasses)
    /\ SF_vars(ContextDone)

FairSpec == Spec /\ Fairness

=============================================================================
