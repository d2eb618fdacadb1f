--------------------------- MODULE MCCyberAnalyze ---------------------------
(* A small instance of CyberAnalyze for TLC. *)
EXTENDS CyberAnalyze

\* 1 and 2 are peers and both provide 3; only 2 provides 4.
MCProviders == [a \in Asn |-> IF a = 3 THEN {1, 2} ELSE IF a = 4 THEN {2} ELSE {}]
MCCustomers == [a \in Asn |-> IF a = 1 THEN {3} ELSE IF a = 2 THEN {3, 4} ELSE {}]
MCPeers == [a \in Asn |-> IF a = 1 THEN {2} ELSE IF a = 2 THEN {1} ELSE {}]

MCNet == {<<0>>, <<0, 1>>}

\* Two ROAs of one net, one of which allows longer prefixes, and one of a longer net.
MCRoa == {[net |-> <<0>>, max |-> 1, origin |-> 3], [net |-> <<0>>, max |-> 2, origin |-> 1],
          [net |-> <<0, 1>>, max |-> 2, origin |-> 3]}

Announce(p, path) == [prefix |-> p, peer |-> 9, path |-> path, origin |-> Absent, withdrawn |-> FALSE]

\* Uphill with prepending; a leak by a customer of both; one across an unknown hop; an
\* unknown hop at the end; over a peer; too short; an AS_SET, whose path is empty.
MCElement ==
    {Announce(<<0>>, <<1, 3, 3>>), Announce(<<0, 1>>, <<2, 3, 1>>), Announce(<<0, 1>>, <<2, 4, 3, 1>>),
     Announce(<<0, 1>>, <<4, 3, 1>>), Announce(<<0>>, <<1, 2, 4>>), Announce(<<0>>, <<3>>),
     [Announce(<<0>>, <<>>) EXCEPT !.origin = 1], [Announce(<<0>>, <<>>) EXCEPT !.withdrawn = TRUE]}
=============================================================================
