---------------------------- MODULE MCRibReplay ----------------------------
(* Small instances of RibReplay for TLC. *)
EXTENDS RibReplay

CONSTANTS s1, s2, p1

\* Two sessions of different peers.
MCPeerAsn == [s \in Session |-> IF s = s1 THEN 1 ELSE 2]

\* A short route, two long ones, and one whose path is an AS_SET without an origin.
MCShort == [path |-> <<2, 7>>, origin |-> 7]
MCLong == [path |-> <<3, 2, 8>>, origin |-> 8]
MCOther == [path |-> <<4, 2, 9>>, origin |-> 9]
MCSet == [path |-> <<>>, origin |-> Absent]

MCManyRoutes == {MCShort, MCLong, MCOther, MCSet}
=============================================================================
