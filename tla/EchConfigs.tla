----------------------------- MODULE EchConfigs -----------------------------
(***************************************************************************)
(* What the commands do to ECHConfigs without talking to anyone: overrides *)
(* and GREASE configs made from flags (pkg/ech, internal/cli), the         *)
(* comparison and selection of configs for reports, and the class of a     *)
(* dial error (pkg/dial).                                                  *)
(*                                                                         *)
(* An ECHConfig is a record of its fields; "rest" stands for those that no *)
(* flag changes and no comparison looks at (KEM, extensions).              *)
(***************************************************************************)
EXTENDS Integers, Sequences, FiniteSets

CONSTANT Garbled \* bytes that are not an ECHConfigList

ASSUME GarbledAssumption == Garbled # <<>>

Flags == {"public_name", "config_id", "version", "max_name_length", "cipher_suites"}
Compared == Flags \cup {"public_key"}
Fields == Compared \cup {"rest"}

\* The flags' values when they are not given.
Defaults ==
    [public_name |-> "", config_id |-> -1, version |-> "draft",
     max_name_length |-> 0, cipher_suites |-> <<>>]

\* What the decoder returns: a list of configs, whose ids are bytes.
IsConfigList(l) ==
    /\ l \in Seq({l[i] : i \in DOMAIN l})
    /\ \A i \in DOMAIN l : DOMAIN l[i] = Fields /\ l[i].config_id \in 0 .. 255

-----------------------------------------------------------------------------
(* Faulty variants of definitions below                                    *)

ResolveNoId(values, changed) == [f \in changed \ {"config_id"} |-> values[f]]

selectConfigsFirst(list, show) == IF show < 0 THEN list ELSE <<list[1]>>

\* Timeouts are looked for first.
ClassifyTimeoutFirst(chain) ==
    IF "deadline" \in chain THEN "timeout"
    ELSE IF "dns" \in chain THEN "dns_error"
    ELSE IF "op" \in chain THEN "network_error"
    ELSE IF chain = {} THEN "other" ELSE "tls_alert"

-----------------------------------------------------------------------------

uint8(n) == n % 256

\* ov gives the fields to replace their values.
Apply(ov, c) == [f \in Fields |-> IF f \in DOMAIN ov THEN ov[f] ELSE c[f]]

ApplyList(ov, list) == [i \in DOMAIN list |-> Apply(ov, list[i])]

\* The flags that were given override, at their width on the wire.
Resolve(values, changed) ==
    [f \in changed |-> IF f = "config_id" THEN uint8(values[f]) ELSE values[f]]

\* A GREASE config takes every flag, given or not; no server has its key.
Grease(values, pubName, randomId) ==
    [public_name |-> pubName,
     config_id |-> IF values.config_id >= 0 THEN uint8(values.config_id) ELSE randomId,
     version |-> values.version,
     max_name_length |-> values.max_name_length,
     cipher_suites |-> IF values.cipher_suites = <<>> THEN <<"all">> ELSE values.cipher_suites,
     public_key |-> "throwaway",
     rest |-> "default"]

pubNameOr(values, host) == IF values.public_name = "" THEN host ELSE values.public_name

ValidConfigId(id) == id \in -1 .. 255

\* The fields in which b differs from a, with b's values.
diffFields(a, b) == {<<f, b[f]>> : f \in {f \in Compared : a[f] # b[f]}}

\* --show-config counts from zero, -1 is all.
InRange(list, show) == show < Len(list)

selectConfigs(list, show) == IF show < 0 THEN list ELSE <<list[show + 1]>>

-----------------------------------------------------------------------------
(* Handshakes and errors                                                   *)

\* What the first error of a chain that errors.As or errors.Is finds is called,
\* in the order in which Classify asks.
Precedence ==
    <<<<"alert", "tls_alert">>, <<"remote error", "tls_alert">>,
      <<"certificate", "certificate_error">>, <<"hostname", "certificate_error">>,
      <<"authority", "certificate_error">>, <<"invalid", "certificate_error">>,
      <<"dns", "dns_error">>, <<"deadline", "timeout">>, <<"op", "network_error">>>>

\* chain is the set of kinds of errors that err wraps; "remote error" and "op" are what
\* its first net.OpError may be.
Classify(chain) ==
    LET hits == {i \in DOMAIN Precedence : Precedence[i][1] \in chain}
    IN  IF hits = {} THEN "other"
        ELSE Precedence[CHOOSE i \in hits : \A j \in hits : i <= j][2]

Accepted == [kind |-> "accepted"]
Plain == [kind |-> "plain"]
Rejected(retry) == [kind |-> "rejected", retry |-> retry]
Failed(chain) == [kind |-> "failed", chain |-> chain]

\* crypto/tls offers the first config it supports.
Offerable(list) == \E i \in DOMAIN list : list[i].version = "draft"

\* The outcomes of a dial that offers list, for the retry lists and errors given.  Without
\* a config to offer the handshake fails, or connecting, which comes first, does.
Outcomes(list, retries, chains) ==
    IF Offerable(list)
    THEN {Accepted, Plain}
            \cup {Rejected(r) : r \in retries} \cup {Failed(e) : e \in chains}
    ELSE {Failed(e) : e \in chains \cup {{}}}

=============================================================================
