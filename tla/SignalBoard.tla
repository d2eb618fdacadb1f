----------------------------- MODULE SignalBoard -----------------------------
(***************************************************************************)
(* What the work database promises its readers, with no tables, upserts or *)
(* soft deletes: each UTC day has one published set of network-contact     *)
(* signals and one verdict, and the org spine is one whole crawl.          *)
(*                                                                         *)
(* The day's set is replaced as a whole, together with a verdict that      *)
(* counts it; a failed or snapshot-only run replaces the verdict alone.    *)
(* WorkDb and DailyJob implement this specification.                       *)
(***************************************************************************)
EXTENDS Integers, FiniteSets

CONSTANTS Pair, Day, Absent

VARIABLES board,      \* day -> its live signals, a partial function on Pair
          spine,      \* the org map a reader loads
          ran         \* day -> the last verdict on the day, or Absent

Nothing == [k \in {} |-> Absent]

boardVars == <<board, spine, ran>>

Init ==
    /\ board = [d \in Day |-> Nothing]
    /\ spine = Nothing
    /\ ran = [d \in Day |-> Absent]

\* A finished diff: the whole set of the day is replaced; every signal of it
\* compares the day with the same prior snapshot, the one the verdict names.
Publish(d, prior, signals) ==
    /\ DOMAIN signals \subseteq Pair
    /\ \A p \in DOMAIN signals : signals[p].prior = prior
    /\ board' = [board EXCEPT ![d] = signals]
    /\ ran' = [ran EXCEPT ![d] = [status |-> "ok", prior |-> prior,
                                  count |-> Cardinality(DOMAIN signals)]]
    /\ UNCHANGED spine

\* A run that published nothing.
Mark(d, status) ==
    /\ ran' = [ran EXCEPT ![d] = [status |-> status, prior |-> Absent, count |-> 0]]
    /\ UNCHANGED <<board, spine>>

\* A crawl: never empty, and never mixed with the previous one.
Refresh(crawl) ==
    /\ DOMAIN crawl # {}
    /\ spine' = crawl
    /\ UNCHANGED <<board, ran>>

Next ==
    \/ \E d, prior \in Day : Publish(d, prior, board'[d])
    \/ \E d \in Day, status \in {"snapshot_only", "error"} : Mark(d, status)
    \/ Refresh(spine')

Spec == Init /\ [][Next]_boardVars
=============================================================================
