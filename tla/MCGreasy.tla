------------------------------ MODULE MCGreasy ------------------------------
(* A finite instance of Greasy for TLC: two names, two configs of a server, *)
(* and command lines that differ from a plain one in one respect.           *)
EXTENDS Greasy

Config(id, key) ==
    [public_name |-> "front", config_id |-> id, version |-> "draft",
     max_name_length |-> 0, cipher_suites |-> <<"s1">>, public_key |-> key,
     rest |-> "default"]

A == Config(1, "a")
B == Config(2, "b")

Published == {<<A>>, <<A, B>>}
Retries == {Garbled, <<>>, <<A>>, <<B, A>>, <<A, B, B>>}
Errors == {{}, {"dns", "deadline"}}

Greasy0 == [require |-> FALSE, ech |-> NoList, values |-> Defaults, changed |-> {},
            show |-> -1, format |-> "text", all |-> FALSE]
Conn == [Greasy0 EXCEPT !.require = TRUE, !.ech = <<A, B>>]

Given(c, f, v) == [c EXCEPT !.values[f] = v, !.changed = {f}]

Inputs ==
    {Greasy0, Conn, [Conn EXCEPT !.require = FALSE]}
        \cup {[Greasy0 EXCEPT !.require = TRUE]}
        \cup {[Conn EXCEPT !.ech = l] : l \in {<<>>, Garbled}}

Plains == {Greasy0, Conn}

Options ==
    UNION {{[c EXCEPT !.show = n] : n \in {-2, 0, 1}} : c \in Plains}
        \cup UNION {{[c EXCEPT !.format = f] : f \in {"json", "b64", "xml"}} : c \in Plains}
        \cup {[c EXCEPT !.all = TRUE] : c \in Plains}
        \cup {[Greasy0 EXCEPT !.all = TRUE, !.format = "json"]}

FlagInputs ==
    UNION {{Given(c, "public_name", "other"), Given(c, "public_name", ""),
            Given(c, "config_id", 255),
            Given(c, "config_id", -1), Given(c, "config_id", 256), Given(c, "version", "final"),
            Given(c, "max_name_length", 64), Given(c, "cipher_suites", <<"s2">>)} : c \in Plains}

CommandLines == Inputs \cup Options \cup FlagInputs

=============================================================================
