--------------------------- MODULE InOrderStream ----------------------------
(***************************************************************************)
(* What TLS may rely on when its handshake bytes come from CRYPTO frames:  *)
(* every byte is passed on once, in order, and as soon as all before it    *)
(* have arrived.  After an error the rest may come in part, but never out  *)
(* of order, again, or made up.                                            *)
(***************************************************************************)
EXTENDS Integers, Sequences

CONSTANT Limit \* length of the stream

VARIABLES arrived, given, failed

streamVars == <<arrived, given, failed>>

Positions == 0 .. Limit - 1

Increasing(s) == \A i, j \in DOMAIN s : i < j => s[i] < s[j]

\* The bytes before the first gap.
Whole(s) ==
    {p \in Positions : \A q \in 0 .. p : q \in s}

Extends(s, t) == Len(s) <= Len(t) /\ \A i \in DOMAIN s : t[i] = s[i]

StreamInit == arrived = {} /\ given = <<>> /\ failed = FALSE

StreamNext ==
    /\ arrived' \in SUBSET Positions
    /\ arrived \subseteq arrived'
    /\ failed' \in BOOLEAN
    /\ failed => failed'
    /\ Extends(given, given')
    /\ Increasing(given')
    /\ {given'[i] : i \in DOMAIN given'} \subseteq arrived'
    /\ ~failed' => {given'[i] : i \in DOMAIN given'} = Whole(arrived')

StreamSpec == StreamInit /\ [][StreamNext]_streamVars

=============================================================================
