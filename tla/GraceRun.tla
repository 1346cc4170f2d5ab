------------------------------ MODULE GraceRun ------------------------------
(***************************************************************************)
(* `echtool test grace-period <domain> [domain...]`: runGracePeriod forks  *)
(* one tracker per argument, waits for all of them and prints their        *)
(* reports in argument order, while the trackers append to the store.      *)
(*                                                                         *)
(* A tracker is what ConfigWatch leaves of it: a sequence of samples, each *)
(* of which ends with a line in the summary file.  Targets are numbered as *)
(* on the command line; two of them may name one host (with different      *)
(* ports), and then append to the same files.  A killed process loses all  *)
(* of this; what it leaves on disk is AppendStore's concern.               *)
(***************************************************************************)
EXTENDS AppendStore, SequencesExt

CONSTANTS
    N,           \* number of targets
    LogOf,       \* LogOf[t]: log file of target t's host
    SummaryOf,   \* SummaryOf[t]: its summary file
    Samples      \* --samples; 0 = unbounded

ASSUME TargetsAssumption == N \in Nat \ {0} /\ Writers = 1 .. N
ASSUME SummaryOfAssumption ==
    \A t \in Writers : FilesOf[t] = {LogOf[t], SummaryOf[t]} /\ LogOf[t] # SummaryOf[t]
ASSUME SamplesAssumption == Samples \in Nat

VARIABLES
    forked,      \* targets whose goroutine has been started: 1 .. forked
    tracker,     \* tracker[t]: what target t's goroutine is doing
    reports,     \* reports[t]: the graceReports of its samples so far
    perDomain,   \* perDomain[t]: the slot for the reports that its goroutine returns
    printed      \* reports printed so far

runVars == <<forked, tracker, reports, perDomain, printed>>

Targets == Writers

TrackerStates == {"unborn", "sampling", "died", "ended", "returned"}

-----------------------------------------------------------------------------
(* Faulty variants of definitions below                                    *)

\* Results are appended as goroutines end, not put into their slot.
FirstFree == CHOOSE s \in Targets : perDomain[s] = <<>>
                /\ \A u \in 1 .. (s - 1) : perDomain[u] # <<>>

SlotOfCompletion(t) == FirstFree

\* A sample is kept when it is followed by another one, not when it begins.
ProducedBefore(t) ==
    IF tracker[t] = "ended" THEN SubSeq(reports[t], 1, Len(reports[t]) - 1)
    ELSE reports[t]

-----------------------------------------------------------------------------

RunInit ==
    /\ StoreInit
    /\ forked = 0
    /\ tracker = [t \in Targets |-> "unborn"]
    /\ reports = [t \in Targets |-> <<>>]
    /\ perDomain = [t \in Targets |-> <<>>]
    /\ printed = <<>>

Becomes(t, state) == tracker' = [tracker EXCEPT ![t] = state]

\* wg.Add and go.
Fork ==
    /\ forked < N
    /\ forked' = forked + 1
    /\ Becomes(forked + 1, "sampling")
    /\ UNCHANGED <<storeVars, reports, perDomain, printed>>

\* Bound: of the MaxLines lines of a target, those its samples may still need are
\* not spent on the log.
Room(t) == count[t] + Samples - Len(reports[t]) < MaxLines

\* Something is observed and appended to the log.
Observe(t) ==
    /\ tracker[t] = "sampling"
    /\ Room(t)
    /\ Call(t, LogOf[t])
    /\ UNCHANGED runVars

\* The sample ends, in a death or otherwise (bootstrap failed, or the context
\* ended), and writeSummary is called.  A report bears its target, its sample number
\* and the number of its summary's line.
EndSample(t, state) ==
    /\ tracker[t] = "sampling"
    /\ Call(t, SummaryOf[t])
    /\ Becomes(t, state)
    /\ reports' = [reports EXCEPT ![t] =
         Append(@, [target |-> t, sample |-> Len(@) + 1, line |-> count'[t]])]
    /\ UNCHANGED <<forked, perDomain, printed>>

MoreSamples(t) == Samples = 0 \/ Len(reports[t]) < Samples

\* writeSummary has returned, whether or not the line was written.
NextSample(t) ==
    /\ tracker[t] = "died"
    /\ at[t] = "idle"
    /\ MoreSamples(t)
    /\ Becomes(t, "sampling")
    /\ UNCHANGED <<storeVars, forked, reports, perDomain, printed>>

Slot(t) == t

\* trackDomain returns every sample it produced.
Produced(t) == reports[t]

Return(t) ==
    /\ tracker[t] = "ended" \/ (tracker[t] = "died" /\ ~MoreSamples(t))
    /\ at[t] = "idle"
    /\ Becomes(t, "returned")
    /\ perDomain' = [perDomain EXCEPT ![Slot(t)] = Produced(t)]
    /\ UNCHANGED <<storeVars, forked, reports, printed>>

\* wg.Wait has returned.
Joined == forked = N /\ \A t \in Targets : tracker[t] = "returned"

\* The reports the loops over perDomain print, one after the other.
AllReports == FlattenSeq(perDomain)

PrintReport ==
    /\ Joined
    /\ Len(printed) < Len(AllReports)
    /\ printed' = Append(printed, AllReports[Len(printed) + 1])
    /\ UNCHANGED <<storeVars, forked, tracker, reports, perDomain>>

Finished == Joined /\ printed = AllReports

TrackerStep(t) ==
    \/ Observe(t)
    \/ EndSample(t, "died")
    \/ EndSample(t, "ended")
    \/ NextSample(t)
    \/ Return(t)

RunNext ==
    \/ Fork
    \/ \E t \in Targets : TrackerStep(t)
    \/ \E t \in Targets : (Lock(t) \/ StoreStep(t)) /\ UNCHANGED runVars
    \/ PrintReport
    \/ Finished /\ UNCHANGED <<storeVars, runVars>>

RunSpec == RunInit /\ [][RunNext]_<<storeVars, runVars>>

-----------------------------------------------------------------------------
(* Properties                                                              *)

\* Reports are printed only after every tracker has returned, each is one that its own
\* target produced, and they come in the order of the arguments and for one target in
\* the order of its samples, whichever goroutine ended first (runGracePeriod).
ReportsInOrder ==
    /\ printed # <<>> => \A t \in Targets : tracker[t] = "returned"
    /\ \A i \in DOMAIN printed : \E s \in DOMAIN reports[printed[i].target] :
         printed[i] = reports[printed[i].target][s]
    /\ \A i, j \in DOMAIN printed :
         i < j => \/ printed[i].target < printed[j].target
                  \/ /\ printed[i].target = printed[j].target
                     /\ printed[i].sample < printed[j].sample

IsReported(r) == \E i \in DOMAIN printed : printed[i] = r

\* x is the end of a summary line, and this the sample it summarizes.
Summarizes(x) ==
    x.newline /\ \E s \in DOMAIN reports[x.writer] : reports[x.writer][s].line = x.n

SampleIn(x) == CHOOSE s \in DOMAIN reports[x.writer] : reports[x.writer][s].line = x.n

\* Once all is printed, report and state directory agree: every sample is in the
\* report, whether or not its summary could be written, and no summary file has a
\* line that the report does not know (writeSummary logs its errors only).
SummariesAreReported ==
    Finished =>
        /\ \A t \in Targets : reports[t] # <<>> /\ \A s \in DOMAIN reports[t] : IsReported(reports[t][s])
        /\ \A t \in Targets : \A i \in DOMAIN disk[SummaryOf[t]] :
             LET x == disk[SummaryOf[t]][i]
             IN  x.newline => /\ Summarizes(x)
                             /\ IsReported(reports[x.writer][SampleIn(x)])

\* store.go:53: the sample number of a summary line is its "1-indexed position in
\* this domain's sequence of samples", and the line's domain is the host.
SampleIsPosition ==
    \A f \in Files : \A i, j \in DOMAIN disk[f] :
        LET x == disk[f][i]
            y == disk[f][j]
        IN  (i # j /\ Summarizes(x) /\ Summarizes(y)) => SampleIn(x) # SampleIn(y)

=============================================================================
