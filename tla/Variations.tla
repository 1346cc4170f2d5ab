----------------------------- MODULE Variations -----------------------------
(***************************************************************************)
(* internal/tools/echtest/variations.go: runVariations.  One goroutine per *)
(* target finds a baseline config, offers it with one field changed at a   *)
(* time, and leaves its results and its error in its slot; after the join  *)
(* the report is written in the order of the arguments.                    *)
(*                                                                         *)
(* A target is its place among the arguments.  LookupECH is its result     *)
(* (module DnsLookup has its steps).  `wire` is a history: what each       *)
(* target's goroutine offered, and what came back.                         *)
(***************************************************************************)
EXTENDS EchConfigs

CONSTANTS
    N,           \* number of targets
    PublicNames, \* --public-name, in order
    ConfigIDs,   \* --config-id, in order
    Supplied,    \* what --ech-config may be
    NoList,      \* no --ech-config
    DNSAnswers,  \* results of LookupECH
    ServerLists, \* retry lists that servers send
    Chains,      \* errors that dialing ends with
    GreaseFlags, \* values of the --grease- flags
    RandomId     \* the random config id of a GREASE config

ASSUME SizeAssumption == N \in Nat \ {0}
ASSUME SweepAssumption ==
    /\ PublicNames \in Seq(STRING)
    /\ ConfigIDs \in Seq(0 .. 255)
    /\ Len(PublicNames) + Len(ConfigIDs) > 0

\* The key of a GREASE config is made on the spot: no list that comes from elsewhere
\* begins with it.
Genuine(lists) == \A list \in lists \ {<<>>} : list[1].public_key # "throwaway"

ASSUME FreshKeyAssumption ==
    /\ Genuine(Supplied \ {NoList, Garbled})
    /\ Genuine({a.list : a \in {a \in DNSAnswers : a.kind = "found"}})
    /\ Genuine(ServerLists \ {Garbled})

Targets == 1 .. N

VARIABLES
    echConfig, \* the value of --ech-config
    pc,        \* where each goroutine is: "unborn", "baseline", "grease",
               \* "sweep" or "done"
    dns,       \* what LookupECH returned to it
    baseline,  \* the config it varies
    results,   \* its results so far
    wire,      \* its handshakes
    perTarget, \* the slots for results ...
    errs,      \* ... and for errors
    main,      \* where runVariations is
    report,    \* what it has written
    returned   \* the errors it returned

vars == <<echConfig, pc, dns, baseline, results, wire, perTarget, errs,
          main, report, returned>>
mainVars == <<main, report, returned>>

None == [kind |-> "none"]

\* The sweeps: public names, then config ids.
Sweep ==
    [i \in 1 .. Len(PublicNames) + Len(ConfigIDs) |->
        IF i <= Len(PublicNames)
        THEN [kind |-> "public_name", value |-> PublicNames[i]]
        ELSE [kind |-> "config_id", value |-> ConfigIDs[i - Len(PublicNames)]]]

-----------------------------------------------------------------------------
(* Faulty variants of definitions below                                    *)

VariedOn(t, ov) ==
    Apply(ov, IF results[t] = <<>> THEN baseline[t]
              ELSE results[t][Len(results[t])].offered)

JoinedLast == {errs[N]} \ {None}

DoneWithoutError(t) == pc[t] = "done" /\ errs[t] = None

SlotOfCompletion(t) == Len(SelectSeq([u \in Targets |-> pc[u]], LAMBDA p : p = "done")) + 1

FallBack(a) == a.kind \in {"absent", "error"}

-----------------------------------------------------------------------------

Init ==
    /\ echConfig \in Supplied
    /\ pc = [t \in Targets |-> "unborn"]
    /\ dns = [t \in Targets |-> None]
    /\ baseline = [t \in Targets |-> None]
    /\ results = [t \in Targets |-> <<>>]
    /\ wire = [t \in Targets |-> <<>>]
    /\ perTarget = [t \in Targets |-> <<>>]
    /\ errs = [t \in Targets |-> None]
    /\ main = "running"
    /\ report = None
    /\ returned = {}

Goto(t, place) == pc' = [pc EXCEPT ![t] = place]

Fork(t) ==
    /\ pc[t] = "unborn"
    /\ \A u \in 1 .. t - 1 : pc[u] # "unborn"
    /\ Goto(t, "baseline")
    /\ UNCHANGED <<echConfig, dns, baseline, results, wire, perTarget, errs, mainVars>>

\* The slot that a goroutine writes.
Slot(t) == t

Fail(t, why) ==
    /\ Goto(t, "done")
    /\ errs' = [errs EXCEPT ![Slot(t)] = [kind |-> why, target |-> t]]
    /\ UNCHANGED <<baseline, results, perTarget>>

\* Only the first config of a list is varied.
Settle(t, list) ==
    \/ list = <<>> /\ Fail(t, "empty")
    \/ /\ list # <<>>
       /\ baseline' = [baseline EXCEPT ![t] = list[1]]
       /\ Goto(t, "sweep")
       /\ UNCHANGED <<results, perTarget, errs>>

UserBaseline(t) ==
    /\ pc[t] = "baseline"
    /\ echConfig # NoList
    /\ IF echConfig = Garbled THEN Fail(t, "parsing") ELSE Settle(t, echConfig)
    /\ UNCHANGED <<echConfig, dns, wire, mainVars>>

NeedsProbe(a) == a.kind = "absent"

LookupBaseline(t) ==
    /\ pc[t] = "baseline"
    /\ echConfig = NoList
    /\ \E a \in DNSAnswers :
         /\ dns' = [dns EXCEPT ![t] = a]
         /\ \/ /\ NeedsProbe(a)
               /\ Goto(t, "grease")
               /\ UNCHANGED <<baseline, results, perTarget, errs>>
            \/ a.kind = "error" /\ ~NeedsProbe(a) /\ Fail(t, "lookup")
            \/ a.kind = "found" /\ Settle(t, a.list)
    /\ UNCHANGED <<echConfig, wire, mainVars>>

Logs(t, offer, got) == wire' = [wire EXCEPT ![t] = Append(@, [offer |-> offer, got |-> got])]

GreaseConfig == Grease(GreaseFlags, pubNameOr(GreaseFlags, "target"), RandomId)

\* Building the GREASE config or the TLS config may fail; only a rejection that brings
\* a list has elicited one.
greaseProbe(t) ==
    /\ pc[t] = "grease"
    /\ \/ Fail(t, "grease") /\ UNCHANGED wire
       \/ \E got \in Outcomes(<<GreaseConfig>>, ServerLists, Chains) :
            /\ Logs(t, GreaseConfig, got)
            /\ IF got.kind = "rejected" /\ got.retry \notin {Garbled, <<>>}
               THEN Settle(t, got.retry)
               ELSE Fail(t, "grease")
    /\ UNCHANGED <<echConfig, dns, mainVars>>

Varied(t, ov) == Apply(ov, baseline[t])

\* The override of the next variation.
Override(s) ==
    [f \in {s.kind} |-> IF s.kind = "config_id" THEN uint8(s.value) ELSE s.value]

\* What testVariation says of a handshake that offered c.
Judged(t, c, got) ==
    CASE got.kind = "rejected" ->
           LET retry == IF got.retry = Garbled THEN <<>> ELSE got.retry
           IN  [status |-> "rejected", error |-> "ech_rejected", retry |-> retry,
                detail |-> IF retry = <<>> THEN {} ELSE diffFields(c, retry[1])]
      [] got.kind = "failed" ->
           [status |-> "failed", error |-> Classify(got.chain), retry |-> <<>>, detail |-> {}]
      [] got.kind = "plain" ->
           [status |-> "not_accepted", error |-> "ech_not_accepted", retry |-> <<>>,
            detail |-> {}]
      [] got.kind = "accepted" ->
           [status |-> "accepted", error |-> "", retry |-> <<>>,
            detail |-> diffFields(baseline[t], c)]
      [] OTHER -> [status |-> "error", error |-> "other", retry |-> <<>>, detail |-> {}]

Current(t) == Sweep[Len(results[t]) + 1]

Offered(t) == Varied(t, Override(Current(t)))

Result(t, c, got) ==
    LET kind == Current(t).kind
        verdict == Judged(t, c, got)
    IN  [target |-> t, kind |-> kind, original |-> baseline[t][kind], replaced |-> c[kind],
         offered |-> c, status |-> verdict.status, error |-> verdict.error,
         retry |-> verdict.retry, detail |-> verdict.detail]

\* Building the TLS config may fail, which is a result as well.
testVariation(t) ==
    /\ pc[t] = "sweep"
    /\ Len(results[t]) < Len(Sweep)
    /\ \E got \in Outcomes(<<Offered(t)>>, ServerLists, Chains) \cup {None} :
         /\ Logs(t, Offered(t), got)
         /\ results' = [results EXCEPT ![t] = Append(@, Result(t, Offered(t), got))]
    /\ UNCHANGED <<echConfig, pc, dns, baseline, perTarget, errs, mainVars>>

Done(t) ==
    /\ pc[t] = "sweep"
    /\ Len(results[t]) = Len(Sweep)
    /\ Goto(t, "done")
    /\ perTarget' = [perTarget EXCEPT ![Slot(t)] = results[t]]
    /\ UNCHANGED <<echConfig, dns, baseline, results, wire, errs, mainVars>>

-----------------------------------------------------------------------------
(* The join and the report                                                 *)

\* wg.Done is deferred.
Finished(t) == pc[t] = "done"

Concatenated[n \in 0 .. N] == IF n = 0 THEN <<>> ELSE Concatenated[n - 1] \o perTarget[n]

Joined == {errs[t] : t \in Targets} \ {None}

\* table and b64 are written, and fail, as json does.
Formats == {"text", "json"}

Written(format, rows) == [format |-> format, whole |-> TRUE, rows |-> rows]
Broken(format) == [format |-> format, whole |-> FALSE, rows |-> <<>>]

\* A failed write or encoding is returned instead of the targets' errors; in text
\* format a failed write is not noticed.
Report ==
    /\ main = "running"
    /\ \A t \in Targets : Finished(t)
    /\ main' = "returned"
    /\ \E format \in Formats :
         \/ report' = Written(format, Concatenated[N]) /\ returned' = Joined
         \/ /\ report' = Broken(format)
            /\ returned' = IF format = "text" THEN Joined ELSE {[kind |-> "rendering"]}
    /\ UNCHANGED <<echConfig, pc, dns, baseline, results, wire, perTarget, errs>>

Goroutine(t) ==
    \/ UserBaseline(t)
    \/ LookupBaseline(t)
    \/ greaseProbe(t)
    \/ testVariation(t)
    \/ Done(t)

Next == Report \/ \E t \in Targets : Fork(t) \/ Goroutine(t)

Spec == Init /\ [][Next]_vars

\* Every goroutine is scheduled, and dials and lookups return by their timeouts.
FairSpec ==
    /\ Spec
    /\ WF_vars(Report)
    /\ \A t \in Targets : WF_vars(Fork(t)) /\ WF_vars(Goroutine(t))

-----------------------------------------------------------------------------
(* Properties                                                              *)

\* Where a target's baseline has to come from.
Source(t) ==
    CASE echConfig # NoList        -> echConfig
      [] dns[t].kind = "found"     -> dns[t].list
      [] dns[t].kind = "absent"    -> wire[t][1].got.retry

\* The handshakes of its variations, without the GREASE probe.
Tests(t) == IF dns[t].kind = "absent" THEN Tail(wire[t]) ELSE wire[t]

\* Each handshake of a sweep differs from the first config of the baseline list in the
\* swept field, which has the value of its turn, and in nothing else: nothing is left
\* over from the variations before it (testVariation, Overrides.Apply).
OneFactorAtATime ==
    \A t \in Targets : \A i \in DOMAIN results[t] :
        LET s == Sweep[i]
            c == Tests(t)[i].offer
        IN  /\ c[s.kind] = s.value
            /\ \A f \in Fields \ {s.kind} : c[f] = Source(t)[1][f]

\* A GREASE probe is made only for a target that has no config in DNS and none by the
\* user, and what is varied is what it elicited, never the GREASE config, which no
\* server can accept (baselineConfig).
BaselineIsReal ==
    \A t \in Targets :
        /\ \A i \in DOMAIN wire[t] :
             wire[t][i].offer.public_key = "throwaway" =>
               echConfig = NoList /\ dns[t].kind = "absent" /\ i = 1
        /\ pc[t] = "sweep" => baseline[t] = Source(t)[1]

\* What a result calls each outcome, and its error unless a dial failed.
StatusOf == [accepted |-> "accepted", rejected |-> "rejected", plain |-> "not_accepted",
             failed |-> "failed", none |-> "error"]
ErrorOf == [accepted |-> "", rejected |-> "ech_rejected", plain |-> "ech_not_accepted",
            none |-> "other"]

\* The classes of errors, those that say more about the cause first, and what shows them.
Classes == <<"tls_alert", "certificate_error", "dns_error", "timeout", "network_error">>
SignsOf ==
    [tls_alert |-> {"alert", "remote error"},
     certificate_error |-> {"certificate", "hostname", "authority", "invalid"},
     dns_error |-> {"dns"}, timeout |-> {"deadline"}, network_error |-> {"op"}]

\* class is the first one that an error with this chain shows signs of.
IsCause(class, chain) ==
    LET shown == {n \in 1 .. 5 : SignsOf[Classes[n]] \cap chain # {}}
    IN  IF shown = {} THEN class = "other"
        ELSE \E n \in shown : class = Classes[n] /\ \A m \in shown : n <= m

\* A result says of its own handshake what happened: which of the outcomes it was, the
\* retry configs that came with it, what caused a failure (a lookup that timed out is an
\* error of DNS, a connection that did a timeout), and in its detail the value that was
\* accepted or values that the server suggests instead (testVariation, Classify,
\* diffFields).
ResultsTellTheWire ==
    \A t \in Targets : \A i \in DOMAIN results[t] :
        LET r == results[t][i]
            got == Tests(t)[i].got
        IN  /\ r.offered = Tests(t)[i].offer
            /\ r.status = StatusOf[got.kind]
            /\ IF got.kind = "failed" THEN IsCause(r.error, got.chain)
               ELSE r.error = ErrorOf[got.kind]
            /\ r.retry = IF got.kind = "rejected" /\ got.retry # Garbled THEN got.retry
                         ELSE <<>>
            /\ r.status = "accepted" =>
                 r.detail = {<<r.kind, v>> : v \in {r.replaced} \ {r.original}}
            /\ r.status # "accepted" =>
                 \A d \in r.detail : d[2] = r.retry[1][d[1]] /\ d[2] # r.offered[d[1]]

\* The report waits for every goroutine; it holds, whichever
\* goroutine was first, the targets' results in the order of the arguments, and for
\* each target its whole sweep in order or nothing (runVariations).
ReportInOrder ==
    main = "returned" =>
        /\ \A t \in Targets : pc[t] = "done"
        /\ \A i, j \in DOMAIN report.rows :
             i < j => report.rows[i].target <= report.rows[j].target
        /\ report.whole =>
             \A t \in Targets :
               /\ Len(results[t]) \in {0, Len(Sweep)}
               /\ \E k \in 0 .. Len(report.rows) - Len(results[t]) :
                    /\ \A i \in DOMAIN report.rows :
                         report.rows[i].target = t <=> i \in k + 1 .. k + Len(results[t])
                    /\ \A i \in DOMAIN results[t] : report.rows[k + i] = results[t][i]

\* A target without results is named by an error, unless the report itself failed; and
\* no error means that every target was reported, text output that broke excepted
\* (errors.Join, renderResults).
ErrorsSurface ==
    main = "returned" =>
        \/ returned = {[kind |-> "rendering"]} /\ ~report.whole
        \/ /\ \A t \in Targets :
                (\E e \in returned : e.target = t) <=> Len(results[t]) < Len(Sweep)
           /\ ~report.whole => report.format = "text"

\* The command ends: a target that fails does not leave the others, or the join,
\* waiting (runVariations).
EveryRunReturns == <>(main = "returned")

=============================================================================
