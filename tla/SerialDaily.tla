----------------------------- MODULE SerialDaily -----------------------------
(***************************************************************************)
(* What overlapping, failing and repeated daily jobs amount to: one run    *)
(* after another, each of which either publishes a day in one step, folding *)
(* the pairs it found into the pair state as it stands, or leaves only a   *)
(* verdict.  DailyJob implements this specification when the wrapper's     *)
(* lock serialises the runs.                                               *)
(***************************************************************************)
EXTENDS PairState

VARIABLES contact,      \* day -> live network_contact rows of the day
          signalRuns,   \* day -> the day's row of signal_runs, or Absent
          pairState     \* pair -> rolling entry, or Absent

serialVars == <<contact, signalRuns, pairState>>

Init ==
    /\ contact = [d \in Day |-> [p \in {} |-> Absent]]
    /\ signalRuns = [d \in Day |-> Absent]
    /\ pairState = NoPairs

Publish(day, prior, map, found) ==
    /\ prior < day
    /\ pairState' = MergeDay(pairState, found, day)
    /\ contact' = [contact EXCEPT ![day] = BuildSignals(found, prior, map, pairState')]
    /\ signalRuns' = [signalRuns EXCEPT ![day] =
                         [status |-> "ok", prior |-> prior, count |-> Cardinality(found)]]

Mark(day, status) ==
    /\ signalRuns' = [signalRuns EXCEPT ![day] =
                         [status |-> status, prior |-> Absent, count |-> 0]]
    /\ UNCHANGED <<contact, pairState>>

Next ==
    \/ \E day, prior, map \in Day, found \in SUBSET Pair : Publish(day, prior, map, found)
    \/ \E day \in Day, status \in {"snapshot_only", "error"} : Mark(day, status)

Spec == Init /\ [][Next]_serialVars
=============================================================================
