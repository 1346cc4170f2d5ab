---------------------------- MODULE MCVariations ----------------------------
(* A finite instance of Variations for TLC: two targets, two variations, of *)
(* which one may equal the baseline.                                        *)
EXTENDS Variations

Config(id, key) ==
    [public_name |-> "front", config_id |-> id, version |-> "draft",
     max_name_length |-> 0, cipher_suites |-> <<"s1">>, public_key |-> key,
     rest |-> "default"]

A == Config(1, "a")
B == Config(2, "b")

Names == <<"other">>
Ids == <<2>>

Inputs == {NoList, Garbled, <<>>, <<B, A>>}
Answers == {[kind |-> "error"], [kind |-> "absent"],
            [kind |-> "found", list |-> <<>>], [kind |-> "found", list |-> <<A, B>>]}
Retries == {Garbled, <<>>, <<B>>}
Errors == {{}, {"op"}, {"remote error"}, {"certificate", "authority"},
           {"op", "deadline"}, {"op", "dns", "deadline"}}

FlagsOfProbe == [Defaults EXCEPT !.config_id = 7, !.public_name = "front"]

=============================================================================
