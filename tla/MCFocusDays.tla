---------------------------- MODULE MCFocusDays ----------------------------
(* Small instances of FocusDays for TLC. *)
EXTENDS FocusDays, TLC

CONSTANTS p1, p2, p3, orgA, orgB, orgC

\* 1 and 2 are small networks of two orgs, 3 is large when it announces everything,
\* 9 is a transit network outside the map.
MCOrgOf == [a \in Asn |-> IF a = 1 THEN orgA ELSE IF a = 2 THEN orgB ELSE orgC]
\* The crawl finds all three, or misses 1 while an overlay says that 2 has no prefixes.
MCOrgMaps == {1 :> {None} @@ 2 :> {None} @@ 3 :> {None}, 2 :> {0} @@ 3 :> {None}}
MCExtras == {{}, {2, 3}}

\* 1 prepends behind 2, which is behind the transit network, as 3 is.
MCObs == {[path |-> <<9, 2, 1, 1>>, origin |-> 1], [path |-> <<3, 9, 2>>, origin |-> 2],
          [path |-> <<9, 3>>, origin |-> 3]}

MCQuarter == <<1, 4>>

\* Prefixes are only compared with each other.
Symmetry == Permutations(Prefix)
=============================================================================
