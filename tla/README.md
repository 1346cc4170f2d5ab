# A verification development for echtool

echtool measures Encrypted Client Hello (ECH) in the wild: it sends GREASE or
real ECH offers over TLS and QUIC, reads `ech` parameters from DNS HTTPS
records, and follows for how long a server keeps accepting the config it handed
out (`echtool test grace-period`).  This directory holds TLA+ models of the
program, TLC configurations that check them on small instances, and theorems
about them that TLAPS proves for every value of the constants.

All paths below are relative to the repository.

## 1. Inventory

| Component | State | Operations | Interacts with |
|---|---|---|---|
| Grace-period tracker, `internal/tools/echtest/graceperiod.go` | per domain: the sample number, the config the last sample tested to death, the config under test, a `graceReport`, the failure streak, a ticker | `trackDomain`, `bootstrap`, `runSample`, `attempt`, `pollDNS`, `recordIfChanged`, `rotation`, `deathReason`, `writeSummary`; `runGracePeriod` forks one goroutine per domain and joins them | dials through `pkg/dial`, resolves through `pkg/dnsrr`, appends to the store, stops with the command's context |
| Observation store, `internal/tools/echtest/store.go` | one mutex; one log and one summary file per host | `append`, `appendRecord`, `writeSummary`, `openStore` | shared by all domains' goroutines |
| Variations, `internal/tools/echtest/variations.go` | one slot of results and one error per target | fork/join over targets, baseline config, one-factor sweep, rendering | `pkg/probe`, `pkg/dnsrr`, `pkg/ech` |
| ECH probe, `pkg/probe` | none across calls; builds one `Result` | `Run`, `runRejected`, `ValidateConfigs` | `pkg/dial`, `pkg/dnsrr`, `pkg/ech` |
| greasy and conn commands, `internal/tools/greasy` | none across calls | choose the offer, probe, render, exit status | `pkg/probe`, `pkg/ech`, `pkg/dnsrr` |
| Dialing, `pkg/dial` | none | `TLS`, `QUIC`, `Classify` | crypto/tls, the vendored QUIC stack |
| DNS lookup, `pkg/dnsrr` | none across calls | `LookupECH` with alias hops, answer selection, `CompareAndLog` | the resolver |
| ECH configs, `pkg/ech`, `internal/cli/echconfigoverrides.go` | none | GREASE configs, overrides, flags to overrides | every command |
| Options and parsing, `internal/cli`, `internal/tools/echtest/{cmd,options}.go` | flags; the command's context (SIGINT, `--max-runtime`) | validation, construction of dialers and probes | every command |
| Rendering, dech, main: `pkg/echfmt`, `internal/tools/dech`, `cmd/echtool` | none | output | |
| Vendored QUIC, `third_party/golang.org/x/net/quic` | crypto stream buffers | one local patch: `handleCrypto` | `pkg/dial` |

What is hard about them, and what makes each correct:

* **Tracker.** A select over a ticker and a context; a ticker whose channel
  holds one tick and drops the rest; a blocking attempt during which ticks pass;
  two independent channels that report rotation; a death that is *dated back* to
  the first failure of a streak and *declared* at the last.  It is correct when
  deaths happen after exactly `--max-failures` consecutive failures, with the
  right date and reason; when rotations are exactly the changes that were seen;
  when samples follow each other without leaking state; when it ends.
* **Store.** Goroutines share files; writes may fail half way; the process may be
  killed and restarted on the same directory.  Correct when no line is broken by
  another, what was acknowledged stays, and no error path keeps the mutex.
* **runGracePeriod and runVariations.** Fork/join with one slot per goroutine,
  and reports in argument order.  Two targets of one host share files.
* **Variations.** One field changes at a time, from a baseline that has to be
  real; a result must say what its own handshake showed.
* **Probe and its commands.** Acceptance, rejection with and without retry
  configs, a cap on validations, one validation that fails among several; a
  verdict and an exit status that sum up several handshakes.
* **DNS lookup.** Alias chains with a limit, answers that must match their query,
  answers that never come.
* **Overrides.** Integers on the command line that are 8 bits on the wire, and
  flags that are given or not.
* **QUIC patch.** Handshake data that arrives out of order, and a handler that
  fails in the middle of it.

`PROJECT.json` lists each hazard at its line, and the properties that watch it.

## 2. Modules

| Module | Kind | Models |
|---|---|---|
| `GraceTracker` | component | one domain's goroutine |
| `GraceProperties` | properties | what `GraceTracker` must satisfy, and comments it does not live up to |
| `ConfigWatch` | abstract specification | what a tracker promises, without clocks, DNS or network |
| `MCGraceTracker` | TLC instance | symmetry of the configs; a run that nobody cancels |
| `GraceServer` | composition and properties | the tracker in front of a server that rotates and retires its keys, and a resolver that lags behind |
| `MCGraceServer` | TLC instance | symmetry of the configs |
| `AppendStore` | component and properties | the store, its writers, failures and crashes |
| `MCAppendStore` | TLC instance | two writers that share a log and a summary file |
| `GraceRun` | composition and properties | `runGracePeriod`: several trackers over one store, and their reports |
| `MCGraceRun` | TLC instance | two targets of one host |
| `DnsLookup` | component and properties | `LookupECH`, its exchanges, and the zones and datagrams it meets |
| `MCDnsLookup` | TLC instance | configs in DNS |
| `EchConfigs` | operators | overrides, GREASE configs, comparison and selection of configs, classes of errors, outcomes of a handshake |
| `Probe` | component and property | `probe.Run` over the steps of a lookup |
| `Greasy` | composition and properties | one invocation of greasy or conn over `Probe` |
| `MCGreasy` | TLC instance | command lines, retry lists and errors |
| `Variations` | component and properties | `runVariations`: a sweep per target, the join, the report |
| `MCVariations` | TLC instance | two targets, two variations |
| `InOrderStream` | abstract specification | what TLS may rely on when its bytes come in CRYPTO frames |
| `CryptoStream` | component and properties | the receiving side of a `cryptoStream`, with this project's patch |
| `GraceProofs` | proofs | the tracker: types, deaths, reasons; it implements `ConfigWatch`; streaks, bootstraps, times, rotations and their records, the sequence of samples |
| `GraceServerProofs` | proofs | tracker and server: it is the tracker still; retirements, rotations, repeats |
| `GraceRunProofs` | proofs | a whole run: it keeps the store's rules; the order of reports, summaries and reports |
| `StoreProofs` | proofs | the store: types, unbroken lines, acknowledged lines |
| `LookupProofs` | proofs | a lookup: it ends, and agrees with DNS; induction over natural numbers |
| `GreasyProofs` | proofs | one invocation of greasy or conn: verdict, report, flags, validations |
| `VariationsProofs` | proofs | sweeps, baselines, results, errors, the order of the report |
| `CryptoProofs` | proofs | the crypto stream: types, window, and that it implements `InOrderStream` |

### GraceTracker

`pc` is the place where the goroutine is; the names are those of the calls in
which it waits.

| Action | Code |
|---|---|
| `StartSample`, `SamplesExhausted`, `WriteSummary` | the loop of `trackDomain` and `writeSummary`: a sample's line is written, and only a death begins another sample |
| `GreaseSucceeds`, `GreaseFails`, `BackoffElapsed`, `BackoffCancelled` | `bootstrap`: the GREASE probe, repeated on a rerun only |
| `PollBaseline`, `PollTick` | `pollDNS`, as the baseline and on each tick |
| `BeginWatch`, `TickArrives`, `ContextDone` | the select loop of `runSample` |
| `AttemptAccepted`, `AttemptRejected`, `AttemptFailed`, `CompareReturns` | `attempt`, `recordIfChanged`, and the comparison with DNS, which takes time and changes nothing |
| `DeclareDeath`, `KeepWatching` | the failure count against `--max-failures` |
| `Cancel`, `TimePasses` | the context ends; time goes on and the ticker ticks |

Answers of the server and the resolver are arbitrary: the network calls appear
as actions that return any outcome the code distinguishes.  A rejection is split
by whether its retry list is empty or undecodable (`NoConfig`) or decodes.
Time passes only where the goroutine blocks, i.e. computing takes no time
compared with a network call.  In the select it may pass although a tick or the end
of the context is ready, as for a goroutine that is scheduled late.  A lookup or a CompareAndLog under a dead context
fails at once in Go; in the model `TickArrives` and `GreaseSucceeds` skip
the lookup for a context that is dead when it begins.  `DialFn` and the GREASE
probe do not take the context, so they go on after cancellation, in the model as
in the code.

History variables record what the code would have to remember to be judged:
`streakLog` (the "probe" records since the last acceptance) and `greaseLog`
(configs of the bootstraps).  `observed`, `summaries` are the records and lines
written to the store.  The summary keeps the points in time from which
`writeSummary` computes lifetime and overlap.

### AppendStore

A line is two fragments, the second with the newline, because a write may take
effect in part before it fails or before the process dies.  `Call`, `Lock`,
`Open`, `WritePart`, `WriteRest`, `ReturnNil`, `ReturnError` are the steps of
`appendRecord` and `writeSummary`; `CrashAndRestart` kills the process and runs
`openStore` on the same directory.  `FilesOf` says which files a goroutine
appends to: for two targets of one host these are the same.

### GraceServer

The answers of `GraceTracker` are arbitrary, so a statement about the *server*
needs one.  `GraceServer` adds the server's and the resolver's state: the config
handed out, the configs accepted, when each was retired, what DNS says.  Each of
its actions that moves the tracker is an action of `GraceTracker` with the answer
the server or the resolver gives: `HandshakeReturns`, `LookupReturns`, `Proceed`.
The server decides a handshake (`Decide`) at some moment of the call and may
rotate before the answer arrives; any answer may be lost.  A call lasts at most
`MaxCall` (`dial.Timeout`, `lookupTimeout`), and a goroutine that can run does so
before time goes on (`TimePassesBounded`): a machine that is overloaded, or
asleep, measures deaths later than `CleanDeathIsRetirement` allows.  Keys that
were retired do not come back.

### GraceRun

`Fork`, `TrackerStep`, `Return` and `PrintReport` are the loop with `go`, the
goroutines, `perDomain[i] = ...` and the printing loops of `runGracePeriod`.  A
tracker is what matters to its neighbours: it appends to the log, ends a sample
by a summary line, begins another one after a death.  Store calls are those of
`AppendStore`, so that an append may fail, or be cut, while another target waits
for the mutex.  A report bears its target, its number among that target's samples
and the line of its summary, so that one in a wrong slot is printed out of place.  A
crash ends the run and leaves only the files; crashes are therefore checked in the
`store` run.

### ConfigWatch

A tracker is a sequence of samples.  Each obtains a config or fails, counts
failures in a row, and ends dead exactly when the count is `MaxFailures`, or
alive before; only a death is followed by another sample, within the budget.
`GraceProperties` maps the tracker to it: `Phase` groups the places of `pc`,
`Strikes` is the failure count inside the loop, `Past` the outcomes of the
summary lines.

### DnsLookup

`step` is where `LookupECH` is.  `CallLookup`, `systemServer` (without
`--dns-server`), `SendQuery`, `ExchangeFails`, and `Receive` with
`parseHTTPSAnswers` are its steps; the loop's counter is `Len(sent) - 1`.  `zone`
is what names publish; the RRset of a name is decided when it is first asked for,
so that every zone is covered and only the part of it that matters is enumerated.
A datagram belongs to this query or an earlier one of the same lookup, and is an
answer (with other records before it, with an alias' target chased, or malformed),
truncated, or a failure code.  The ids of one lookup's queries are taken to
differ; two of four random 16-bit ids may agree in the code.

### EchConfigs

A config is a function of its fields.  `Resolve`, `Apply`, `ApplyList`, `Grease`
and `uint8` are the way from flags to an offer; `diffFields`, `selectConfigs` and
`Classify` serve the reports.  `Outcomes` is what a dial returns as far as
callers tell outcomes apart: accepted, plain TLS, rejected with some retry list
(`Garbled` does not decode), or an error that wraps some kinds of errors.

### Probe and Greasy

| Action | Code |
|---|---|
| `validate`, `resolveConfigList`, `run` | `PreRunE` and `RunE` of `newDialCmd`: options, offer, TLS config |
| `DialReturns` with `runRejected` | the handshake of `probe.Run` |
| `CompareReturns` | `CompareAndLog`, after the lookup of `DnsLookup` ran |
| `ValidateConfig`, `ValidationsDone` | `ValidateConfigs`, one `AttemptECH` per step |
| `ProbeFailed`, `renderRejected`, `renderOutcome` | the switch of `run`: status line, `Render`, exit status |

`Probing` and `Hearing` are steps of `Probe` inside the command; the second are
datagrams, which nobody owes it.  `attempts` is a history of the wire.  `output`
holds what a reader of standard output learns, `status` the exit status.

### Variations

`Fork`, the goroutine's `UserBaseline` or `LookupBaseline`, `greaseProbe`,
`testVariation` (once per value) and `Done`, then `Report`.  A goroutine writes
its own slots only; the properties compare slots, `wire` (a history of its
handshakes) and the report.  LookupECH appears by its result, and a rendering by
whether it is whole.

### CryptoStream and InOrderStream

A byte is its position.  `handleCrypto` has the code's two paths, `FastPath` and
`SlowPath`, and `Drain` for what follows; each may pass on a part only, when the
handler fails.  `pipe.read` of a place that was never written gives `Rubbish`
(the code panics or hands over stale memory).  Frames keep coming after an error,
as they do until the connection drains.  `discardKeys` drops the keys.
`InOrderStream` says that every byte is passed on once, in order, and as soon as
all before it are there.

## 3. Runs

| Run | Asks | Bounds |
|---|---|---|
| `grace_death` | `FatalStreak`, `ReasonFitsStreak`, `StreakIsCounted`, `PacedByInterval`, `RotationsAreObservations`, `RotationIsFirstSign`, `TypeOK` | one sample, 3 failures, interval 2, clock 8, two configs, 2 rotations per channel |
| `grace_liveness` | `ImplementsConfigWatch`, `SequenceOfSamples`, `RepeatFlag`, `BootstrapBudget`, `StopsAfterCancel`, `StreakResolves` | three samples, 3 failures, interval 2, no rotation, under `FairSpec` |
| `store` | `LinesUnbroken`, `AckedOnceInOrder`, `AppendReturns` | two writers of the same two files, two lines each, one crash, under `FairStoreSpec` |
| `grace_server` | `CleanDeathIsRetirement`, `RetryRotationIsReal`, `RepeatFollowsConnectFailures`, `Chronology` | two samples, 2 failures, interval 2, calls of at most 1, clock 8, two configs |
| `grace_run` | `ReportsInOrder`, `SummariesAreReported` | two targets of one host, two samples, three lines each |
| `greasy` | `ExitStatusIsVerdict`, `ReportIsTrue`, `FlagsReachTheWire`, `ValidationsAreHandshakes`, `LookupAgrees`, `QueriesBounded`, `InvocationEnds` | 37 command lines, each a plain one changed in one respect; two names, one alias hop, two lists in DNS, five retry lists of up to three configs, a cap of 2, under `FairSpec` |
| `variations` | `OneFactorAtATime`, `BaselineIsReal`, `ResultsTellTheWire`, `ReportInOrder`, `ErrorsSurface`, `EveryRunReturns` | two targets, one public name and one config id, four values of `--ech-config`, four lookup results, three retry lists, six chains of errors, under `FairSpec` |
| `crypto` | `TypeOK`, `StoredAhead`, `BufferBounded`, `NothingLost`, `ImplementsInOrderStream` | 13 bytes, frames of up to 4, a buffer of 6 |
| `grace_overlap`, `grace_same_host`, `greasy_unset`, `dns_servfail` | one statement of a comment each, violated (section 5) | `dns_servfail`: five names, the code's three hops; `grace_overlap`: a run that nobody cancels (`UninterruptedSpec`) |

Why the bounds are enough.  With three failures the first, a middle and the last
failure of a streak differ, so that a date or a reason taken from the wrong one
shows, as do "mixed" streaks in each order.  An interval of 2 lets an attempt be
shorter or longer than the interval, so that ticks wait and are dropped.  A clock
of 8 fits a streak of three intervals after an attempt that was accepted; beyond
its bound the clock stands still while the ticker goes on, so that behaviours do
not end there, only their times become equal (`PacedByInterval` therefore speaks
of times within the bound only).  Two configs let a channel go away and come back,
two rotations tell the first change from the last.  Three samples tell the
previous config from the first one.  With a server, two configs are enough for one
rotation, a lagging resolver and a retirement, two samples for a repeated config;
clock 8 fits the bound of `CleanDeathIsRetirement` after a retirement in the
middle of a sample, and beyond it the property makes no claim.  Two targets are
enough for an overtaking, and of one host for shared files.  Liveness asks about control, which depends on
no rotation and on time only through the ticker; that run therefore keeps the
clock at 1 and takes no rotation, and uses no symmetry.  One alias hop with two
names has chains of none, just as many and too many aliases, and loops; the
constant of the code is 3, which the `dns_servfail` run uses.  A cap of 2 is
exceeded by a list of three, met by one of two and missed by one of one; a retry
list that repeats or reorders what DNS publishes tells places from configs.
Flags are varied one at a time because `Resolve` and `Grease` treat each apart.
One of the two variations equals a baseline, so that a result without a
difference occurs.  The chains of errors that dials of `variations` end with are of
every class: no sign of any, an operation that failed with and without a deadline, a
lookup that timed out (an operation and a deadline as well, but an error of DNS), an
alert and a certificate; `ResultsTellTheWire` has its own table of classes and their
signs, and asks for the first that the chain shows.  A stream of twice the buffer and a frame more lets the window
reach its limit, and a frame of 4 covers, splits and overlaps ranges in every
way; a change of the buffer's size relative to frames does not matter to
`handleCrypto` otherwise.

Fairness.  `FairSpec` assumes: the goroutine is scheduled (weak fairness of its
internal steps); every network call returns, which the code ensures by
`--timeout` for dials and by `lookupTimeout` for DNS; time goes on; and a select
that finds the dead context ready again and again takes that case at some point
(strong fairness of `ContextDone`: a Go select chooses among ready cases
at random, and nothing weaker makes the loop end, because a tick may be ready
each time).  `FairStoreSpec` assumes that a goroutine holding the mutex is
scheduled and that a waiting one gets it in the end (sync.Mutex hands over to a
starving waiter).  `FairSpec` of `Greasy` is weak fairness of what the process does
by itself, which includes that a handshake or exchange ends by its deadline
(`dial.Timeout`, `lookupTimeout`); datagrams need not arrive.  `FairSpec` of
`Variations` is weak fairness of every goroutine and of the join, with dials and
lookups that return for the same reason.

Every property has a mutant in `PROJECT.json`: a slip in a definition that the
run then finds.  They are written out in the modules under "Faulty variants"
or as such in a comment; no specification uses them.

## 4. Theorems

Each holds for every value of the constants: any configs, names, targets, writers
and files, any limits and bounds.  What is assumed is what the named ASSUMEs say,
and nothing else:

| Assumption | Why the code justifies it |
|---|---|
| `MaxCallAssumption` (`MaxCall` is a natural number) | `dial.Timeout` and `lookupTimeout` bound each call |
| `MaxFailures >= 1`, `Interval >= 1`, `Samples >= 0` | `graceOptions` validates the flags |
| `ConfigsAssumption`, `UnaskedAssumption`, `GarbledAssumption` and the like: `NoConfig`, `Unasked`, `Garbled` are nothing that a server or a zone sends | they stand for nil, for "not yet", for what does not decode |
| `CommandsAssumption` | a command line is what pflag leaves: flags that were not given have their default; `--cipher-suite` is never empty since its `Set` refuses it |
| `ServerListsAssumption` | what decodes is a list of configs |
| `RandomIdAssumption`, `FreshKeyAssumption` | a random id is a byte; a GREASE key is nobody's real one |
| `SweepAssumption` | names and ids to vary are strings and bytes, and there is at least one (`options.go` validates both) |

**Tracker** (`GraceProofs`).

* `TypeCorrect`: `Spec => []TypeOK`.
* `DeathsAreFatalStreaks`, `ReasonsFit`: neither is inductive, because a declared
  death says nothing about the counters it was computed from.  `DeathInv` adds that
  the counters tell the story of `streakLog` while the loop runs (`StreakIsCounted`,
  the theorem `StreaksAreCounted`), that a report is not dead before the verdict
  (`NotYetDeclared`), and that logged times are not in the future
  (`LoggedInThePast`).  Two lemmas say what appending a probe does to the set of
  rejections.
* `TrackerImplementsConfigWatch`: the initial states map, and every step maps to a
  `ConfigWatch` step or to stuttering (`StepMaps`).  This needs `RefinementInv`:
  `DeathInv`, the clock is never zero (or a death would look undeclared), a report
  that is open has not died, one that is closed has one outcome, and sample `n` is
  the `n`-th line.
* `SamplesFollowDeaths`, `RepeatsAreFlagged`, `BootstrapKeepsBudget`,
  `TimesAreInOrder`, `RotationsAreFirstSigns`: from `SampleInv`, which says of the
  sample *under way* what the properties say of the lines written and the log kept:
  `prev` is the config elicited before (`PredecessorKnown`), a probe that is sent has
  budget left (`ProbesLeft`), times are in order and after the last death
  (`SampleDated`, `EndDated`, `PastIsOver`), what is on file died while there may be
  another sample (`OnFile`), and a channel's first change is its first record
  (`SignsDated`).
* `AttemptsArePaced`: `TickerPaced` says that the next tick comes as many intervals
  after the config was first seen as ticks have been taken or are waiting, one for
  each failure in the streak.
* `RotationsAreRecorded`: from `ObservationInv`, which adds that before a config is
  under observation nothing is polled or compared (`SeenBeforehand`); the dates come
  from `SignsDated`.  The property speaks of sets of places in `observed`, so that an
  appended record adds one place to one of two sets (`RecordAgrees`).

**Tracker and server** (`GraceServerProofs`).

* `ServerRunsTracker`: `ServerSpec => Spec`, so that what is proved of the tracker
  holds in front of any server.
* `RetryRotationsAreReal`: from `KeyInv`.  A key is held or retired, and not retired
  later than now; what was handed out is one or the other (`Known`); an attempt that
  the server rejects is made with a retired config, although the answer comes later
  (`DecisionFits`); and a streak of rejections began after the retirement
  (`RejectedIsRetired`).
* `RepeatsFollowConnectFailures`: from `RepeatInv`.  If any attempt of the last streak
  was rejected, its config is retired by the time the summary is written, and a
  retired config is not handed out again, not even by a decision taken before.
* `CleanDeathsAreRetirements`: from `DelayInv`.  `InTime` says for each place of the
  round how late it may be after the retirement: an attempt decided before it, the
  rest of an interval, a lookup and the attempt that finds out.

**Store** (`StoreProofs`).

* `LinesAreUnbroken`: `StoreInv` adds mutual exclusion (`Exclusive`) and that the
  half line of a writer inside a write is the last fragment of its file
  (`HalfLineIsLast`).
* `AckedStaysInOrder`: `AckInv` adds that no fragment is of a line its writer has
  not begun, no end of a line there before its second write (`LinesCounted`), and
  that a writer about to return nil has its line in the file (`WrittenIsThere`).

**Run** (`GraceRunProofs`).

* `RunKeepsStore`: `RunSpec => StoreSpec`, so that what is proved of the store holds
  of the goroutines of a run.
* `ReportsComeInOrder`: from `RunInv`.  A goroutine's slot holds what it reported once
  it has returned and nothing before, each report with its own target and number
  (`SlotsFit`), and what is printed is the beginning of all reports in
  order (`PrintedSoFar`).  The order of `FlattenSeq` is proved from its recursive
  equation by `LeastElement` (see below).
* `SummariesReachTheReport`: from `RunInv` and `SummariesFit`, which says that a line
  on its way to a summary file is of the sample that has just ended.  It has one
  hypothesis, `LogsApart`: no target's log is another target's summary file.  The code
  does not ensure it (section 5); the `grace_run` run satisfies it.

**Lookup** (`LookupProofs`).

* `LookupsEnd`, `LookupsAgree`: `LookupInv` says that the name asked next is reached
  from the target over as many aliases as queries were sent, or up to twice as many
  when answers had their alias chased (`Leads`), and that what is returned is
  justified by the records at the end of such a path (`Justified`).  The property's
  reference, `Chain`, is a recursive function.  No induction theorem can be
  instantiated here, so that `LeastElement` (a non-empty set of natural numbers has a
  smallest one, from the well-foundedness of `<`) does the inductions: `Chain` is
  its defining equation's one solution, and it holds the names of the path one by one
  (`OnePath`, `ChainIsReached`).

**greasy and conn** (`GreasyProofs`).

* `GreasyRunsLookups`: `Spec => LookupSpec`, so that what is proved of lookups holds
  inside a probe.
* `ExitStatusTellsTheVerdict`, `ReportsAreTrue`, `FlagsAreOffered`,
  `ValidationsTellTheWire`: from `GreasyInv`, which ties the offer to the flags, the
  result to the first handshake (`FirstTold`), validation `i` to handshake `i + 1`
  (`Tried`), the comparison to the lookup's answer (`DnsTold`), and output and exit
  status to the result (`Ended`); the properties then follow from its last state.

**Variations** (`VariationsProofs`).

* `SweepsVaryOneFactor`, `BaselinesAreReal`, `ResultsAreTrue`, `NoErrorIsLost`: from
  `VariationsInv`.  Its part about one target (`TargetOk`) relates baseline, results
  and handshakes so far and is a predicate of their values, so that a step of one
  goroutine leaves it true of all others; `SlotOk` and `ReturnedLast` relate them to
  errors and the join.  `ClassIsCause` shows that the first row of `Precedence` that
  hits is of the first class that the chain shows signs of: the rows of a class are
  neighbours, in the order of the classes (`RowsOfClasses`).
* `ReportsAreInOrder`: from `RowsInv`, which adds that a slot holds its goroutine's
  results once that is done (`RowsFit`).  `Concatenated` of such slots is a block of
  rows per target (`Blocks`, `AllBlocks`); its recursive equation has a solution by
  `LeastElement`.

**Crypto stream** (`CryptoProofs`).

* `StreamTypeCorrect`, `ReceivedIsStored`, `BufferStaysBounded`, `NothingIsLost`,
  `StreamIsInOrder`: from `CryptoInv`.  The window has left behind nothing that was
  not received (`WindowReceived`) and, without an error, passed on all of it
  (`Prompt`); bytes passed on are in order and behind the window (`InOrder`); and its
  end is near the smallest position received (`NearStart`), which is what bounds
  it.

The proofs go action by action.  Two of them corrected a property.
`CleanDeathIsRetirement` used to allow three calls and the longer of a call and an
interval; three calls and an interval are enough.  And with
`--pub-name ""` a GREASE offer carries the host, as if the flag were absent
(`FlagsReachTheWire` says so, and the `greasy` run has this command line).

Only model-checked are the liveness properties under fairness
(`StopsAfterCancel`, `StreakResolves`, `AppendReturns`, `InvocationEnds`,
`EveryRunReturns`): TLAPS has no backend for it.  Every invariant and every action
property of a passing run is stated by a theorem.  `SelectSeq` is a recursion that
the provers cannot unfold, which is why properties about the records of a channel,
or the rows of a target, speak of sets of indices.

## 5. Where comments and code differ

| Run | The comment says | The code does |
|---|---|---|
| `grace_overlap` | `OverlapSeconds` is how long the config "kept being accepted after that first rotation signal" (store.go:71-74) | negative when the rotation is noticed in the course of the fatal streak, whose start is the death |
| `grace_same_host` | `Sample` is the "1-indexed position in this domain's sequence of samples" (store.go:53) | two targets of one host with different ports share `Domain` and the summary file, and each counts from 1 |
| `greasy_unset` | `ConfigID`: "-1 = unset (random config_id for GREASE; no override for conn)" (echconfigoverrides.go:14) | an explicit `--config-id -1` passes validation and counts as given: the id of a supplied config becomes 255 |
| `dns_servfail` | a GREASE probe is the fallback "if the target has no ECH record in DNS" (variations.go:161-162); "no ECH config in the DNS HTTPS RR" (dnsrr.go:241) | the response code is not looked at: SERVFAIL and REFUSED are "no record" |

Seen while modelling, and too local for a run of their own: a config in DNS that
comes back counts as a rotation again, while graceperiod.go:64 speaks of "distinct
configs"; `alive` (store.go:78, "still accepted when observation ended") is also
set when the last attempts had failed, fewer than `--max-failures`; after the end of
`--max-runtime` (options.go:120, "regardless of outcome") a tick that is ready at
the same moment may lead to a death and one more bootstrap; the base64 format does
not carry the verdict that greasy/run.go:52-53 says it has in-band; and the text
report of variations does not notice failed writes, the others do.

Not a divergence, but worth knowing: the baseline lookup may still see the
predecessor of the config under test; this counts as rotation 1, as the comment
at graceperiod.go:319-325 says, although the server has not moved on.  A write that
fails half way leaves a torn line that the next record continues (store.go:149), so that an acknowledged line may be
glued to the torn one and not parse.  Neither `LinesUnbroken` nor
`AckedOnceInOrder` rules that out: they say what is guaranteed nevertheless, that no
write is broken by another one and that what was acknowledged stays, once and in
order.  And the log of a host
`x.summary` is the file `x.summary.jsonl`, which is where the summaries of a host `x`
go (`path` and `summaryPath`, store.go:117-124).

## 6. Plan

The modules were written in this order; all points are done.

1. `GraceTracker`, `GraceProperties`: the measurement itself, which every
   published number depends on.
2. `ConfigWatch`: its abstract specification, and the refinement.
3. `AppendStore`: the state shared by all domains.
4. `GraceProofs`, `StoreProofs`.
5. `GraceRun`: fork and join, shared files, reports in argument order.
6. `GraceServer`: does what is measured happen to the server.
7. `DnsLookup`, `EchConfigs`, `Probe`, `Greasy`: one invocation of greasy or conn.
8. `Variations`: fork and join over targets, the one-factor sweep, errors.
9. `CryptoStream`: the local patch of `handleCrypto` against an in-order stream.
10. The rest of `GraceProofs`, `GraceServerProofs`, `GraceRunProofs`, `CryptoProofs`,
    `LookupProofs`, `GreasyProofs`, `VariationsProofs`: the safety invariants of these components for
    every value of their constants.

## 7. Not modelled, and why

* Formatting of configs, reports and JSON (`pkg/echfmt`, `graceReport.write`,
  `variationResult` rendering) beyond which configs and verdicts they show: layout.
* Command wiring (`cmd/echtool`, cobra flags), and the parsing of targets,
  `--resolve`, cipher suites and pasted `ech=` records (`internal/cli/parse.go`,
  `echfmt.ParseECHConfigList`): pure functions of characters, without state.  The
  `dech` command is one decoding and one rendering.
* The sockets of a dial (`pkg/dial`): a dial is one step.
* crypto/tls, the resolver, `dnsmessage`, and the vendored QUIC stack apart from
  the receiving side of `cryptoStream`: other projects' code, seen through the
  answers it gives.
* `measurements`, scripts: analysis of the data after the fact.
* A wall clock that is set back during a run: `Record` times are UTC readings
  without a monotonic part, so lifetimes are then wrong by definition; the
  model's clock does not go back.
