---------------------------- MODULE MCDnsLookup -----------------------------
(* A finite instance of DnsLookup for TLC.                                 *)
EXTENDS DnsLookup

Published == {<<"a">>, <<"b">>}

=============================================================================
