-------------------------- MODULE GraceProperties ---------------------------
(***************************************************************************)
(* What one domain's tracker (GraceTracker) must get right, and the        *)
(* comment of the code that it does not live up to.                        *)
(***************************************************************************)
EXTENDS GraceTracker, FiniteSets

-----------------------------------------------------------------------------
(* Type invariant                                                          *)

\* A line of the summary file.
SummaryLine ==
    [sample : Nat, bootstrapOK : BOOLEAN, alive : BOOLEAN,
     repeatedConfig : BOOLEAN, firstSeen : Nat,
     dnsRotations : Nat, retryRotations : Nat,
     rotationChanged : Nat, rotationSource : Sources \cup {""},
     death : Nat, declaredAt : Nat, deathReason : DeathReasons \cup {""}]

\* Every variable keeps to the values its Go counterpart can take; above all no
\* nil config list is ever recorded as an observation or tested.
TypeOK ==
    /\ pc \in Places
    /\ cancelled \in BOOLEAN
    /\ clock \in Nat
    /\ timer \in Nat
    /\ fired \in BOOLEAN
    /\ sample \in Nat
    /\ prev \in MaybeConfig
    /\ underTest \in MaybeConfig
    /\ greaseFailures \in Nat
    /\ greaseLog \in Seq(Configs)
    /\ report \in Report
    /\ observed \in Seq(Observation)
    /\ streak \in Streak
    /\ streakLog \in Seq(Probe)
    /\ summaries \in Seq(SummaryLine)

-----------------------------------------------------------------------------
(* A death                                                                 *)

\* The places of runSample's loop.
Watched == {"select", "pollDNS", "attempt", "compare", "verdict"}

\* A config is declared dead after exactly MaxFailures failed attempts with no
\* accepted one among them, and death is when the first of these failed, not
\* when the last one did (runSample's streakStart).
FatalStreak ==
    Died(report) =>
        /\ Len(streakLog) = MaxFailures
        /\ report.death = streakLog[1].at
        /\ report.declaredAt >= streakLog[MaxFailures].at

Rejections == {i \in DOMAIN streakLog : streakLog[i].rejected}

\* deathReason says what the fatal streak consisted of and nothing of what went
\* before it: ech_rejected when every attempt of it was an ECH rejection,
\* connect_failed when none was, mixed otherwise (store.go, Death* constants).
ReasonFitsStreak ==
    Died(report) =>
        /\ report.deathReason = "ech_rejected" <=> Rejections = DOMAIN streakLog
        /\ report.deathReason = "connect_failed" <=> Rejections = {}

\* runSample's counters tell the story of the attempts since the last acceptance:
\* their number, how many were rejections as far as deathReason asks, and when
\* the first one failed; and the loop goes on only below MaxFailures.
StreakIsCounted ==
    pc \in Watched =>
        /\ streak.failures = Len(streakLog)
        /\ streak.failures <= MaxFailures
        /\ pc \in {"select", "pollDNS", "attempt"} => streak.failures < MaxFailures
        /\ streak.rejections <= streak.failures
        /\ streak.rejections = streak.failures <=> Rejections = DOMAIN streakLog
        /\ streak.rejections = 0 <=> Rejections = {}
        /\ streakLog # <<>> => streak.start = streakLog[1].at

\* The ticker paces the attempts: the i-th failure in a row comes at least i
\* intervals after the config was first seen, however slow earlier attempts were
\* and although a tick may be waiting when an attempt returns.
PacedByInterval ==
    (pc \in {"attempt", "compare", "verdict"} /\ clock < MaxTime) =>
        \A i \in DOMAIN streakLog :
            streakLog[i].at >= report.firstSeen + i * Interval

-----------------------------------------------------------------------------
(* Rotation                                                                *)

\* Places of a channel's records among those observed.
Records(source) == {i \in DOMAIN observed : observed[i].source = source}

\* What pollDNS and recordIfChanged keep in the report agrees with the records
\* they append: as many rotations as records, the first one dated, the last one
\* remembered, and never the same config twice in a row (starting from the
\* config under test).
ChannelAgrees(source, changed, rotations, lastSeen) ==
    LET seen == Records(source)
        earlier(i) == {j \in seen : j < i}
    IN  /\ Cardinality(seen) = rotations
        /\ seen = {} => changed = 0 /\ lastSeen = underTest
        /\ \A i \in seen :
             /\ earlier(i) = {} => changed = observed[i].at /\ observed[i].config # underTest
             /\ \A j \in earlier(i) :
                  earlier(i) \subseteq 1 .. j => observed[i].config # observed[j].config
             /\ seen \subseteq 1 .. i => lastSeen = observed[i].config

\* Both channels of a report agree with the observed records, from the
\* bootstrap on (pollDNS, recordIfChanged).
RotationsAreObservations ==
    observed # <<>> =>
        /\ ChannelAgrees("dns", report.dnsChanged, report.dnsRotations,
                         report.dnsLastSeen)
        /\ ChannelAgrees("retry", report.retryChanged, report.retryRotations,
                         report.retryLastSeen)

\* rotation() names the first sign from either channel that the server moved on:
\* no record other than the bootstrap's is older, and the channel it names has a
\* record of that very time.
RotationIsFirstSign ==
    LET signs == {i \in DOMAIN observed : observed[i].source # "grease"}
        first == rotation(report)
    IN  IF signs = {}
          THEN first.at = 0
          ELSE /\ \A i \in signs : observed[i].at >= first.at
               /\ \E i \in signs : /\ observed[i].at = first.at
                                   /\ observed[i].source = first.source

-----------------------------------------------------------------------------
(* The sequence of samples                                                 *)

IsDead(s) == s.declaredAt # 0

\* Every line of the summary file has exactly one outcome: bootstrap failed,
\* still alive, or dead with its time and reason (writeSummary).
OneOutcome(s) ==
    \/ ~s.bootstrapOK /\ ~s.alive /\ s.deathReason = "" /\ s.death = 0 /\ ~IsDead(s)
    \/ s.bootstrapOK /\ s.alive /\ s.deathReason = "" /\ s.death = 0 /\ ~IsDead(s)
    \/ s.bootstrapOK /\ ~s.alive /\ s.deathReason # "" /\ s.death # 0 /\ IsDead(s)

\* The summary file holds sample 1, 2, 3 ... in order, each but the last one a
\* death, and the tracker returns only once its last sample did not end in a
\* death or --samples is used up (trackDomain's loop).
SequenceOfSamples ==
    /\ \A i \in DOMAIN summaries : /\ summaries[i].sample = i
                                   /\ OneOutcome(summaries[i])
                                   /\ i < Len(summaries) => IsDead(summaries[i])
    /\ pc = "done" =>
         /\ summaries # <<>>
         /\ IsDead(summaries[Len(summaries)]) => Len(summaries) = Samples

\* Samples do not overlap and nothing of one leaks into the next: in each the
\* config is seen, rotates, dies and is declared dead in that order, after the
\* death of the sample before it was declared (graceReport, trackDomain).
Chronology ==
    \A i \in DOMAIN summaries :
        LET s == summaries[i] IN
        /\ s.rotationChanged # 0 => s.firstSeen <= s.rotationChanged
        /\ IsDead(s) => s.firstSeen <= s.death /\ s.death <= s.declaredAt
        /\ (IsDead(s) /\ s.rotationChanged # 0) => s.rotationChanged <= s.declaredAt
        /\ (i > 1 /\ s.bootstrapOK) => summaries[i - 1].declaredAt <= s.firstSeen

\* repeatedConfig flags exactly those samples whose config is the one the sample
\* before tested to death, not one of an earlier sample (bootstrap).
RepeatFlag ==
    report.bootstrapOK =>
        LET n == Len(greaseLog)
        IN  report.repeatedConfig <=> (n > 1 /\ greaseLog[n] = greaseLog[n - 1])

\* A bootstrap that fails has sent one GREASE probe in the first sample, and
\* MaxFailures in a rerun unless the context ended first (bootstrap).
BootstrapBudget ==
    LET budget == IF prev = NoConfig THEN 1 ELSE MaxFailures IN
    /\ greaseFailures <= budget
    /\ (pc = "summary" /\ ~report.bootstrapOK) => cancelled \/ greaseFailures = budget

-----------------------------------------------------------------------------
(* Liveness                                                                *)

\* Once the context ends (SIGINT, --max-runtime) the tracker returns, so that
\* runGracePeriod's wg.Wait() does: whatever the server does meanwhile.
StopsAfterCancel == cancelled ~> pc = "done"

\* A failure streak does not stay open: the config is accepted again, or dies,
\* or the run is cancelled (runSample counts every failure, of either kind).
StreakResolves ==
    (pc = "verdict" /\ streakLog # <<>>) ~>
        (cancelled \/ Died(report) \/ streakLog = <<>>)

-----------------------------------------------------------------------------
(* Refinement                                                              *)

Outcome(s) ==
    IF ~s.bootstrapOK THEN "failed" ELSE IF s.alive THEN "alive" ELSE "dead"

Phase ==
    CASE pc = "head" -> "idle"
      [] pc \in {"grease", "backoff"} -> "eliciting"
      [] pc \in {"baseline", "watch"} \cup Watched -> "watching"
      [] pc = "summary" -> Outcome(report)
      [] pc = "done" -> "over"

Strikes == IF pc \in Watched THEN streak.failures ELSE 0

Past == [i \in DOMAIN summaries |-> Outcome(summaries[i])]

Watch == INSTANCE ConfigWatch WITH
    phase <- Phase, strikes <- Strikes, outcomes <- Past

\* The tracker implements ConfigWatch: in particular a config under test ends
\* dead if and only if MaxFailures attempts in a row failed.
ImplementsConfigWatch == Watch!CWSpec

-----------------------------------------------------------------------------
(* What a comment says and the code does not do                            *)

\* store.go:71-74: OverlapSeconds is "how long the config under test kept being
\* accepted after that first rotation signal".  A duration is not negative.
OverlapNonNegative ==
    \A i \in DOMAIN summaries :
        LET s == summaries[i]
        IN  (IsDead(s) /\ s.rotationChanged # 0) => s.rotationChanged <= s.death

=============================================================================
