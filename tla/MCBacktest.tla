----------------------------- MODULE MCBacktest -----------------------------
(* Small instances of Backtest for TLC. *)
EXTENDS Backtest, TLC

CONSTANTS p1, orgA, orgB

MCOrgOf == [a \in Asn |-> IF a = 1 THEN orgA ELSE orgB]
\* The map's file says that the org of 2 has no prefixes.
MCOrgs == 1 :> {None} @@ 2 :> {0}
MCQuarter == <<1, 4>>

\* The prefix is announced by 1 or by 2, behind a transit network or behind the other.
MCObs == {[path |-> <<9, 1>>, origin |-> 1], [path |-> <<1, 2>>, origin |-> 2]}
MCSnapshot == [Prefix -> MCObs]

\* 1 has the prefix on the first day; the tables differ in the first four days, and stay.
MCTables ==
    {[d \in Calendar |-> f[IF d < 4 THEN d ELSE 4]] :
        f \in {g \in [1..4 -> MCSnapshot] : g[1][p1].origin = 1}}
MCArchives == {S \cup {8} : S \in SUBSET (1..4)}

\* One network alone, and the pair.
MCPrefixCase == [kind |-> "prefix_move", a |-> 1, b |-> None, prefix |-> p1,
                 first |-> 2, last |-> 4, announce |-> 4]
MCPairCase == [kind |-> "upstream_converge", a |-> 2, b |-> 1, prefix |-> None,
               first |-> 3, last |-> 3, announce |-> 5]

\* Overlapping windows with cases of their own, and one sampled by the week.
MCJobs == {[start |-> 1, days |-> 4, step |-> 2, cases |-> {MCPrefixCase, MCPairCase}, asns |-> {}],
           [start |-> 1, days |-> 8, step |-> 7, cases |-> {MCPrefixCase}, asns |-> {}]}
=============================================================================
