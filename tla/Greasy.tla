------------------------------- MODULE Greasy -------------------------------
(***************************************************************************)
(* internal/tools/greasy: one invocation of greasy or conn, from its flags *)
(* to its exit status, over the probe of Probe and the lookup of           *)
(* DnsLookup.                                                              *)
(***************************************************************************)
EXTENDS Probe

CONSTANTS
    Commands,  \* command lines
    NoList,    \* no --ech-config
    RandomId   \* the random config id of a GREASE config

VARIABLES
    cmd,    \* the command line
    pc,     \* how far the command is
    output, \* what it has written to standard output
    status  \* its exit status

greasyVars == <<cmd, pc, output, status>>
vars == <<greasyVars, probeVars, lookupVars>>

\* A command line has the fields require (it is conn, which requires a config), ech
\* (what --ech-config decodes to), values (of all flags), changed (the flags that were
\* given), show, format and all (--validate-all-configs).
IsCommand(c) ==
    /\ c.require \in BOOLEAN /\ c.all \in BOOLEAN /\ c.show \in Int
    /\ c.ech \in {NoList, Garbled} \/ IsConfigList(c.ech)
    /\ c.changed \subseteq Flags /\ c.values.config_id \in Int
    /\ \A f \in Flags \ c.changed : c.values[f] = Defaults[f]
    /\ "cipher_suites" \in c.changed => c.values.cipher_suites # <<>>

ASSUME CommandsAssumption == \A c \in Commands : IsCommand(c)

ASSUME RandomIdAssumption == RandomId \in 0 .. 255

Formats == {"text", "json", "table", "b64"}

Nothing == [verdict |-> "none", shown |-> FALSE, configs |-> <<>>,
            dns |-> NoComparison, validations |-> <<>>]

-----------------------------------------------------------------------------
(* Faulty variants of definitions below                                    *)

ExitWithRejected(failures) == failures \/ (cmd.require /\ result.kind = "plain")

-----------------------------------------------------------------------------

Init ==
    /\ cmd \in Commands
    /\ pc = "prerun"
    /\ output = Nothing
    /\ status = "running"
    /\ input = <<>>
    /\ ProbeIdle
    /\ LookupIdle

Exit(s) == pc' = "exit" /\ status' = s

ValidOptions ==
    /\ cmd.require => cmd.ech # NoList
    /\ cmd.format \in Formats
    /\ ValidConfigId(cmd.values.config_id)
    /\ cmd.show >= -1

validate ==
    /\ pc = "prerun"
    /\ \/ ValidOptions /\ pc' = "resolve" /\ UNCHANGED status
       \/ ~ValidOptions /\ Exit("error")
    /\ UNCHANGED <<cmd, output, probeVars, lookupVars>>

\* The list to offer: a GREASE config, or the user's with overrides.
Offer ==
    IF cmd.ech = NoList
    THEN <<Grease(cmd.values, pubNameOr(cmd.values, domain), RandomId)>>
    ELSE ApplyList(Resolve(cmd.values, cmd.changed), cmd.ech)

\* Key generation may fail; so may decoding.
resolveConfigList ==
    /\ pc = "resolve"
    /\ \/ cmd.ech # Garbled /\ pc' = "tls" /\ UNCHANGED status
       \/ cmd.ech \in {Garbled, NoList} /\ Exit("error")
    /\ UNCHANGED <<cmd, output, probeVars, lookupVars>>

\* Opening the key log or encoding the list may fail.  One retry config is
\* validated without a flag.
run ==
    /\ pc = "tls"
    /\ \/ /\ CallRun(Offer, cmd.all, TRUE, 0)
          /\ pc' = "probing"
          /\ UNCHANGED status
       \/ Exit("error") /\ UNCHANGED probeVars
    /\ UNCHANGED <<cmd, output, lookupVars>>

Probing == pc = "probing" /\ ProbeMoves /\ UNCHANGED greasyVars

Hearing == pc = "probing" /\ ProbeHears /\ UNCHANGED greasyVars

Returned(kinds) == pc = "probing" /\ at = "returned" /\ result.kind \in kinds

ProbeFailed ==
    /\ Returned({"error", "failed"})
    /\ Exit("error")
    /\ UNCHANGED <<cmd, output, probeVars, lookupVars>>

\* The line that human readers get first.
printStatus == IF cmd.format \in {"text", "table"} THEN result.kind ELSE "none"

\* Only JSON has the verdict in band, and the details.
Payload(list) ==
    [Nothing EXCEPT !.verdict = IF cmd.format = "json" THEN result.kind ELSE printStatus,
                    !.shown = TRUE,
                    !.configs = selectConfigs(list, cmd.show),
                    !.dns = IF cmd.format = "json" THEN result.dns ELSE @,
                    !.validations = IF cmd.format = "json" THEN result.validations ELSE @]

\* Encoding or writing may fail after the status line.
Render(list, err) ==
    /\ \/ /\ InRange(list, cmd.show)
          /\ output' = Payload(list)
          /\ Exit(IF err THEN "error" ELSE "ok")
       \/ /\ output' = [Nothing EXCEPT !.verdict = printStatus]
          /\ Exit("error")
    /\ UNCHANGED <<cmd, probeVars, lookupVars>>

\* The commands' verdict once the report is out.
ExitWith(failures) == failures \/ (cmd.require /\ result.kind # "accepted")

renderRejected ==
    /\ Returned({"rejected"})
    /\ Render(result.retry, ExitWith(\E i \in DOMAIN result.validations :
                                        ~result.validations[i].accepted))

renderOutcome ==
    /\ Returned({"accepted", "plain"})
    /\ Render(result.offered, ExitWith(FALSE))

Works ==
    \/ validate
    \/ resolveConfigList
    \/ run
    \/ Probing
    \/ ProbeFailed
    \/ renderRejected
    \/ renderOutcome

Next == Works \/ Hearing

Spec == Init /\ [][Next]_vars

\* The one goroutine runs on, and a handshake or a DNS exchange that gets no answer
\* ends by dial.Timeout or lookupTimeout.  Datagrams need not arrive.
FairSpec == Spec /\ WF_vars(Works)

-----------------------------------------------------------------------------
(* Properties                                                              *)

First == attempts[1].got.kind

\* Scripts rely on the exit status: zero means that the handshake completed, for conn
\* that ECH was accepted by it, or for greasy that the server rejected the offer and
\* each retry config that was tried works, the first at least; and an error always has
\* a cause that standard output or the handshakes show (run, renderRejected,
\* renderOutcome over the whole probe).
ExitStatusIsVerdict ==
    LET tries == {attempts[i].got : i \in 2 .. Len(attempts)}
        works ==
          /\ attempts # <<>>
          /\ \/ First = "accepted"
             \/ First = "plain" /\ ~cmd.require
             \/ /\ First = "rejected" /\ ~cmd.require
                /\ attempts[1].got.retry # Garbled
                /\ attempts[1].got.retry # <<>> => tries # {}
                /\ \A got \in tries : got = Accepted
    IN  /\ status = "ok" => works /\ output.shown
        /\ (status = "error" /\ output.shown) => ~works

\* What is printed is what happened on the wire and in DNS: the verdict is that of the
\* first handshake; the configs are the server's on a rejection, what was offered
\* otherwise, or the one of them that --show-config names; "matches" means that the
\* server's list is published for the target, and "not found" that no list is, unless
\* the lookup was disturbed (printStatus, Render, renderJSON, CompareAndLog).
ReportIsTrue ==
    status # "running" =>
        /\ output.verdict # "none" => output.verdict = First
        /\ output.shown =>
             LET list == IF First = "rejected" THEN attempts[1].got.retry ELSE attempts[1].offer
             IN  output.configs = IF cmd.show = -1 THEN list ELSE <<list[cmd.show + 1]>>
        /\ output.dns.matches => \E n \in OnChain : attempts[1].got.retry \in EchOf(n)
        /\ (output.dns.compared /\ ~output.dns.found) =>
             disturbed \/ servfail \/ answer = LookupFailed \/ ~\E n \in OnChain : Publishes(n)
        /\ \A i \in DOMAIN output.validations :
             output.validations[i].accepted <=> attempts[i + 1].got = Accepted

\* A flag that was given is what every offered config has on the wire, where an id is a
\* byte; a flag that was not given leaves the user's config as it is, and a GREASE config
\* is made for the target's name (Resolve, ApplyList, GreaseOptions), also if the public
\* name that was given is empty.  An explicit --config-id -1 is left to
\* UnsetIdKeepsConfig.
FlagsReachTheWire ==
    attempts # <<>> =>
        LET offer == attempts[1].offer
            given == {f \in cmd.changed :
                        /\ ~(f = "config_id" /\ cmd.values[f] = -1)
                        /\ ~(f = "public_name" /\ cmd.values[f] = "" /\ cmd.ech = NoList)}
        IN  /\ \A i \in DOMAIN offer :
                 /\ offer[i].config_id \in 0 .. 255
                 /\ \A f \in given : offer[i][f] = cmd.values[f]
            /\ IF cmd.ech = NoList
               THEN /\ Len(offer) = 1
                    /\ "public_name" \notin given => offer[1].public_name = domain
                    /\ \A f \in {"version", "max_name_length"} \ given :
                         offer[1][f] = Defaults[f]
               ELSE /\ Len(offer) = Len(cmd.ech)
                    /\ \A i \in DOMAIN offer : \A f \in Fields \ cmd.changed :
                         offer[i][f] = cmd.ech[i][f]

\* echconfigoverrides.go:14: a config id of -1 is "unset (random config_id for GREASE; no
\* override for conn)".
UnsetIdKeepsConfig ==
    (attempts # <<>> /\ cmd.ech # NoList /\ cmd.values.config_id = -1) =>
        \A i \in DOMAIN cmd.ech : attempts[1].offer[i].config_id = cmd.ech[i].config_id

\* Every invocation ends, whatever servers and resolvers do or fail to do.
InvocationEnds == <>(pc = "exit")

=============================================================================
