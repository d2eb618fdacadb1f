------------------------------ MODULE PairState ------------------------------
(***************************************************************************)
(* The rolling per-pair memory of bgp-ma (crates/bgp-ma/src/signal.rs) and *)
(* the signals a day's features and that memory make.                      *)
(*                                                                         *)
(* One daily diff stamps all its events with the day's as_of, so a feature *)
(* is a pair seen on that one day; in the sparse mode the wrapper runs it  *)
(* has prefix_move_days = 1.  Of an entry's counters the day count stands  *)
(* for all the saturating sums (prefixes_moved, new_adj_days, ...).  An    *)
(* as_of is its UTC day: every daily window ends at 00:30.                 *)
(***************************************************************************)
EXTENDS Integers, FiniteSets

CONSTANTS
    Pair,            \* undirected ASN pairs
    Day,             \* UTC days
    PairStateDays,   \* --pair-state-days
    Absent           \* no entry, row, file, map or run

ASSUME PairStateAssumption ==
    /\ Day \subseteq Nat
    /\ IsFiniteSet(Day)
    /\ IsFiniteSet(Pair)
    /\ PairStateDays \in Nat
    /\ Absent \notin Nat
    /\ Absent \notin [days : Nat, first : Nat, last : Nat]

Entry == [days : Nat, first : Day, last : Day]

NoPairs == [p \in Pair |-> Absent]

\* Mutant: last_seen alone follows the day, as if days came in order.
MergedForward(e, day) ==
    IF e = Absent THEN [days |-> 1, first |-> day, last |-> day]
    ELSE [days |-> e.days + 1, first |-> e.first,
          last |-> IF day > e.last THEN day ELSE e.last]

\* The body of merge_day's loop: one feature of `day` into one entry.
Merged(e, day) ==
    IF e = Absent THEN [days |-> 1, first |-> day, last |-> day]
    ELSE [days |-> e.days + 1,
          first |-> IF day < e.first THEN day ELSE e.first,
          last |-> IF day > e.last THEN day ELSE e.last]

\* merge_day: every feature, then drop the entries not seen for PairStateDays.
MergeDay(state, found, day) ==
    LET new == [p \in Pair |-> IF p \in found THEN Merged(state[p], day) ELSE state[p]]
    IN  [p \in Pair |-> IF new[p] # Absent /\ new[p].last >= day - PairStateDays
                        THEN new[p] ELSE Absent]

\* What a row of network_contact says: the snapshot it was diffed with, the org
\* map its domains come from, prefix_move_days and persistence_days.
Signal == [prior : Day, map : Day, days : Nat, span : Int]

\* build_signals, with the merged state: a feature counts at least itself.
BuildSignals(found, prior, map, state) ==
    [p \in found |->
        LET e == state[p]
        IN  [prior |-> prior, map |-> map,
             days |-> IF e = Absent \/ e.days < 1 THEN 1 ELSE e.days,
             span |-> IF e = Absent THEN 0 ELSE e.last - e.first]]
=============================================================================
