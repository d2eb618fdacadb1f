--------------------------- MODULE DailyJob_proofs ---------------------------
(***************************************************************************)
(* Proofs about DailyJob, for any number of processes, pairs and days, any *)
(* retention and any bound on runs and failures.                           *)
(*                                                                         *)
(* Type correctness needs to know what a run holds at each of its steps    *)
(* (Holding).  Serializability needs the lock to exclude every other run   *)
(* (Locked), so that what a run merged into the pair state is still what   *)
(* merging now would give when it commits.  What the next day's diff needs *)
(* is kept (Kept), and in calendar order it is new enough (InOrder).       *)
(***************************************************************************)
EXTENDS DailyJob, FiniteSetTheorems, WellFoundedInduction, TLAPS

-----------------------------------------------------------------------------
(* The pair state and the signals. *)

\* merge_day keeps pair states well-formed.
LEMMA MergeDayType ==
    ASSUME NEW state \in PairStates, NEW found \in SUBSET Pair, NEW day \in Day
    PROVE  MergeDay(state, found, day) \in PairStates
<1> DEFINE new == [p \in Pair |-> IF p \in found THEN Merged(state[p], day) ELSE state[p]]
<1>1. ASSUME NEW e \in Entry \cup {Absent}
      PROVE  Merged(e, day) \in Entry
  <2>1. CASE e = Absent
    BY <2>1 DEF Merged, Entry
  <2>2. CASE e \in Entry /\ e # Absent
    BY <2>2 DEF Merged, Entry
  <2> QED  BY <1>1, <2>1, <2>2
<1>2. ASSUME NEW p \in Pair
      PROVE  new[p] \in Entry \cup {Absent}
  <2>1. state[p] \in Entry \cup {Absent}
    BY DEF PairStates
  <2> QED  BY <1>1, <2>1
<1> HIDE DEF new
<1>3. MergeDay(state, found, day) =
        [p \in Pair |-> IF new[p] # Absent /\ new[p].last >= day - PairStateDays
                        THEN new[p] ELSE Absent]
  BY DEF MergeDay, new
<1> QED  BY <1>2, <1>3 DEF PairStates

\* build_signals makes one well-formed signal for each pair found.
LEMMA SignalsType ==
    ASSUME NEW state \in PairStates, NEW found \in SUBSET Pair,
           NEW prior \in Day, NEW map \in Day
    PROVE  /\ DOMAIN BuildSignals(found, prior, map, state) = found
           /\ IsSignals(BuildSignals(found, prior, map, state))
<1> DEFINE row(p) ==
        [prior |-> prior, map |-> map,
         days |-> IF state[p] = Absent \/ state[p].days < 1 THEN 1 ELSE state[p].days,
         span |-> IF state[p] = Absent THEN 0 ELSE state[p].last - state[p].first]
<1>1. ASSUME NEW p \in found
      PROVE  row(p) \in Signal
  <2>1. state[p] \in Entry \cup {Absent}
    BY DEF PairStates
  <2>2. state[p] # Absent => /\ state[p].days \in Nat
                             /\ state[p].last - state[p].first \in Int
    <3>1. CASE state[p] \in Entry
      <4>1. /\ state[p].days \in Nat /\ state[p].last \in Day
            /\ state[p].first \in Day /\ Day \subseteq Nat
        BY <3>1, PairStateAssumption DEF Entry
      <4>2. state[p].last \in Nat /\ state[p].first \in Nat
        BY <4>1
      <4> QED  BY <4>1, <4>2
    <3>2. CASE state[p] = Absent
      BY <3>2
    <3> QED  BY <2>1, <3>1, <3>2
  <2> QED  BY <2>2 DEF Signal
<1>2. BuildSignals(found, prior, map, state) = [p \in found |-> row(p)]
  BY DEF BuildSignals
<1> HIDE DEF row
<1> QED  BY <1>1, <1>2 DEF IsSignals

LEMMA NothingIsSignals == IsSignals(Nothing)
BY DEF IsSignals, Nothing

-----------------------------------------------------------------------------
(* What a run holds. *)

\* A run past the gate has an org map; past the diff, an earlier snapshot; before
\* its transaction, the signals of the pairs it found and the state it merged.
Holding(p) ==
    /\ stage[p] \notin {"idle", "mark"} => run[p].map \in Day
    /\ stage[p] \in {"merge", "commit"} => run[p].prior \in Day /\ run[p].prior < run[p].day
    /\ stage[p] = "commit" =>
          run[p].signals = BuildSignals(run[p].found, run[p].prior, run[p].map, run[p].merged)

\* What one process has is well-formed.
ProcOK(p) ==
    /\ stage[p] \in Stage
    /\ IF Running(p) THEN IsRun(run[p]) ELSE run[p] = Absent
    /\ Holding(p)

\* The other processes keep their place and their data.
Others(p) == /\ \A q \in Proc \ {p} : stage'[q] = stage[q] /\ run'[q] = run[q]
             /\ DOMAIN stage' = Proc /\ DOMAIN run' = Proc

Inv == TypeOK /\ \A p \in Proc : Holding(p)

\* Only p's place moves.
LEMMA GotoLemma ==
    ASSUME TypeOK, NEW p \in Proc, NEW next \in Stage, Goto(p, next), run' = run
    PROVE  /\ stage' \in [Proc -> Stage] /\ stage'[p] = next
           /\ Others(p)
           /\ run'[p] = run[p]
BY DEF TypeOK, Goto, Others

LEMMA ReleaseLemma ==
    ASSUME TypeOK, NEW p \in Proc, Release(p)
    PROVE  /\ stage' \in [Proc -> Stage] /\ stage'[p] = "idle" /\ run'[p] = Absent
           /\ Others(p)
           /\ lock' \in Proc \cup {Absent}
BY DEF TypeOK, Release, Goto, Others, Stage

\* When the others keep still and p is well-formed, every process is.
LEMMA ProcsOK ==
    ASSUME Inv, NEW p \in Proc, Others(p), stage' \in [Proc -> Stage],
           IF stage'[p] # "idle" THEN IsRun(run'[p]) ELSE run'[p] = Absent,
           Holding(p)'
    PROVE  /\ \A q \in Proc : IF Running(q)' THEN IsRun(run'[q]) ELSE run'[q] = Absent
           /\ \A q \in Proc : Holding(q)'
<1>1. ASSUME NEW q \in Proc, q # p
      PROVE  /\ IF Running(q)' THEN IsRun(run'[q]) ELSE run'[q] = Absent
             /\ Holding(q)'
  BY <1>1 DEF Inv, TypeOK, Others, Holding, Running
<1>2. /\ IF Running(p)' THEN IsRun(run'[p]) ELSE run'[p] = Absent
      /\ Holding(p)'
  BY DEF Running
<1> QED  BY <1>1, <1>2

-----------------------------------------------------------------------------
(* Each action keeps Inv. *)

\* The parts of TypeOK that are not about processes.
SharedOK ==
    /\ today \in Day /\ mapDay \in Day \cup {Absent}
    /\ snapshots \subseteq Day
    /\ DOMAIN contact = Day /\ \A d \in Day : IsSignals(contact[d])
    /\ signalRuns \in [Day -> SignalRunRow \cup {Absent}]
    /\ pairState \in PairStates
    /\ DOMAIN files = Day /\ \A d \in Day : files[d] \in {Torn, Absent} \/ IsSignals(files[d])
    /\ inbox \in [Day -> Nat]
    /\ lock \in Proc \cup {Absent}
    /\ starts \in 0..MaxRuns /\ failures \in 0..MaxFailures
    /\ merges \in [Day -> Nat]

LEMMA InvParts ==
    Inv <=> /\ SharedOK
            /\ stage \in [Proc -> Stage] /\ DOMAIN run = Proc
            /\ \A p \in Proc : IF Running(p) THEN IsRun(run[p]) ELSE run[p] = Absent
            /\ \A p \in Proc : Holding(p)
BY DEF Inv, TypeOK, SharedOK

\* What is left to show of an action of process p.
LEMMA ProcStep ==
    ASSUME Inv, NEW p \in Proc, Others(p), stage' \in [Proc -> Stage],
           IF stage'[p] # "idle" THEN IsRun(run'[p]) ELSE run'[p] = Absent,
           Holding(p)', SharedOK'
    PROVE  Inv'
<1>1. /\ \A q \in Proc : IF Running(q)' THEN IsRun(run'[q]) ELSE run'[q] = Absent
      /\ \A q \in Proc : Holding(q)'
  BY ProcsOK
<1>2. DOMAIN run' = Proc
  BY DEF Others
<1> QED  BY <1>1, <1>2, InvParts DEF Inv, TypeOK, SharedOK

LEMMA BesideStep ==
    ASSUME Inv, NextDay \/ RefreshOrgMap \/ UNCHANGED vars
    PROVE  Inv'
<1>1. UNCHANGED <<stage, run>>
  BY DEF NextDay, RefreshOrgMap, vars
<1>2. SharedOK'
  BY DEF Inv, TypeOK, SharedOK, NextDay, RefreshOrgMap, vars, tables, copies
<1>3. \A p \in Proc : Holding(p)'
  BY <1>1 DEF Inv, Holding
<1> QED  BY <1>1, <1>2, <1>3 DEF Inv, TypeOK, SharedOK, Running

LEMMA StartStep ==
    ASSUME Inv, NEW p \in Proc, NEW day \in Day, Start(p, day)
    PROVE  Inv'
<1> DEFINE r == [day |-> day, map |-> mapDay, prior |-> Absent, found |-> {},
                 merged |-> NoPairs, signals |-> Nothing]
           next == IF FreshOrgMap THEN "snapshot" ELSE "mark"
<1>1. /\ run' = [run EXCEPT ![p] = r]
      /\ stage' = [stage EXCEPT ![p] = next]
  BY DEF Start, Goto
<1>2. IsRun(r)
  <2>1. NoPairs \in PairStates
    BY DEF NoPairs, PairStates
  <2> QED  BY <2>1, NothingIsSignals DEF IsRun, Inv, TypeOK
<1>3. FreshOrgMap => mapDay \in Day
  BY DEF FreshOrgMap, Inv, TypeOK
<1>4. r.map = mapDay
  OBVIOUS
<1> HIDE DEF r
<1>5. /\ Others(p) /\ stage' \in [Proc -> Stage]
      /\ stage'[p] = next /\ run'[p] = r
  BY <1>1 DEF Inv, TypeOK, Others, Stage
<1>6. Holding(p)'
  BY <1>3, <1>4, <1>5 DEF Holding
<1>7. SharedOK'
  <2>1. UNCHANGED <<calendar, snapshots, tables, copies, failures>>
    BY DEF Start
  <2>2. SharedOK
    BY InvParts
  <2>3. lock' \in Proc \cup {Absent}
    BY <2>2 DEF Start, Acquire, SharedOK
  <2>4. starts' \in 0..MaxRuns
    BY <2>2, DailyJobAssumption DEF Start, SharedOK
  <2> QED  BY <2>1, <2>2, <2>3, <2>4 DEF SharedOK, calendar, tables, copies
<1> QED  BY <1>2, <1>5, <1>6, <1>7, ProcStep

\* A step after which p is further on, with the same data, and the tables, files
\* and counters are still well-formed.
LEMMA GotoStep ==
    ASSUME Inv, NEW p \in Proc, NEW next \in Stage \ {"idle"}, Running(p),
           Goto(p, next), run' = run, SharedOK',
           next # "mark" => stage[p] # "mark", next \notin {"merge", "commit"}
    PROVE  Inv'
<1>1. /\ stage' \in [Proc -> Stage] /\ stage'[p] = next /\ Others(p) /\ run'[p] = run[p]
  BY GotoLemma DEF Inv
<1>2. Holding(p) /\ IsRun(run[p])
  BY DEF Inv, TypeOK
<1>3. Holding(p)'
  BY <1>1, <1>2 DEF Holding, Running
<1> QED  BY <1>1, <1>2, <1>3, ProcStep

LEMMA ReleaseStep ==
    ASSUME Inv, NEW p \in Proc, Release(p), SharedOK'
    PROVE  Inv'
<1>1. /\ stage' \in [Proc -> Stage] /\ stage'[p] = "idle" /\ run'[p] = Absent /\ Others(p)
  BY ReleaseLemma DEF Inv
<1>2. Holding(p)'
  BY <1>1 DEF Holding
<1> QED  BY <1>1, <1>2, ProcStep

\* A verdict is a well-formed row.
LEMMA SetRunType ==
    ASSUME Inv, NEW day \in Day, NEW status \in {"ok", "snapshot_only", "error"},
           NEW prior \in Day \cup {Absent}, NEW count \in Nat,
           SetRun(day, status, prior, count)
    PROVE  signalRuns' \in [Day -> SignalRunRow \cup {Absent}]
BY DEF Inv, TypeOK, SetRun, SignalRunRow

LEMMA TakeSnapshotStep ==
    ASSUME Inv, NEW p \in Proc, TakeSnapshot(p)
    PROVE  Inv'
<1>1. /\ stage[p] = "snapshot" /\ Goto(p, "diff") /\ run' = run /\ Running(p)
      /\ snapshots' = snapshots \cup {run[p].day}
      /\ UNCHANGED <<calendar, tables, copies, lock, starts, failures>>
  BY DEF TakeSnapshot, Running
<1>2. run[p].day \in Day
  BY <1>1 DEF Inv, TypeOK, IsRun
<1>3. SharedOK'
  BY <1>1, <1>2, InvParts DEF SharedOK, calendar, tables, copies
<1> QED  BY <1>1, <1>3, GotoStep DEF Stage

LEMMA DiffStep ==
    ASSUME Inv, NEW p \in Proc, Diff(p)
    PROVE  Inv'
<1>1. /\ stage[p] = "diff" /\ Running(p) /\ IsRun(run[p]) /\ run[p].map \in Day
      /\ UNCHANGED <<calendar, snapshots, tables, copies, lock, starts, failures>>
  BY DEF Diff, Running, Inv, TypeOK, Holding
<1>2. SharedOK'
  BY <1>1, InvParts DEF SharedOK, calendar, tables, copies
<1>3. CASE Goto(p, "only") /\ run' = run
  BY <1>1, <1>2, <1>3, GotoStep DEF Stage
<1>4. ASSUME NEW prior \in NewestBefore(snapshots, run[p].day), NEW found \in SUBSET Pair,
             run' = [run EXCEPT ![p].prior = prior, ![p].found = found],
             Goto(p, "merge")
      PROVE  Inv'
  <2>1. prior \in Day /\ prior < run[p].day
    BY DEF NewestBefore, Inv, TypeOK
  <2>2. /\ stage' \in [Proc -> Stage] /\ stage'[p] = "merge"
        /\ Others(p)
    BY <1>4 DEF Inv, TypeOK, Goto, Stage, Others
  <2>3. run'[p] = [run[p] EXCEPT !.prior = prior, !.found = found]
    BY <1>4 DEF Inv, TypeOK
  <2>4. IsRun(run'[p]) /\ run'[p].map = run[p].map /\ run'[p].prior = prior
        /\ run'[p].day = run[p].day
    BY <1>1, <2>1, <2>3 DEF IsRun
  <2>5. Holding(p)'
    BY <1>1, <2>1, <2>2, <2>4 DEF Holding
  <2> QED  BY <1>2, <2>2, <2>4, <2>5, ProcStep
<1> QED  BY <1>3, <1>4 DEF Diff

LEMMA MergeStep ==
    ASSUME Inv, NEW p \in Proc, MergePairState(p)
    PROVE  /\ Inv'
           /\ stage'[p] = "commit" /\ Others(p)
           /\ run'[p].merged = MergeDay(pairState, run[p].found, run[p].day)
           /\ run'[p].found = run[p].found /\ run'[p].day = run[p].day
<1> DEFINE merged == MergeDay(pairState, run[p].found, run[p].day)
           signals == BuildSignals(run[p].found, run[p].prior, run[p].map, merged)
<1>1. /\ stage[p] = "merge" /\ Running(p) /\ IsRun(run[p])
      /\ run[p].map \in Day /\ run[p].prior \in Day /\ run[p].prior < run[p].day
      /\ Goto(p, "commit")
      /\ run' = [run EXCEPT ![p].merged = merged, ![p].signals = signals]
      /\ UNCHANGED <<calendar, snapshots, tables, copies, lock, starts, failures>>
  BY DEF MergePairState, Running, Inv, TypeOK, Holding
<1>2. SharedOK'
  BY <1>1, InvParts DEF SharedOK, calendar, tables, copies
<1>3. /\ merged \in PairStates
      /\ IsSignals(signals)
  <2>1. run[p].found \in SUBSET Pair /\ run[p].day \in Day /\ pairState \in PairStates
    BY <1>1 DEF IsRun, Inv, TypeOK
  <2>2. merged \in PairStates
    BY <2>1, MergeDayType
  <2> QED  BY <1>1, <2>1, <2>2, SignalsType
<1> HIDE DEF merged, signals
<1>4. /\ stage' \in [Proc -> Stage] /\ stage'[p] = "commit"
      /\ Others(p)
  BY <1>1 DEF Inv, TypeOK, Goto, Stage, Others
<1>5. run'[p] = [run[p] EXCEPT !.merged = merged, !.signals = signals]
  BY <1>1 DEF Inv, TypeOK
<1>6. /\ IsRun(run'[p])
      /\ run'[p].map = run[p].map /\ run'[p].prior = run[p].prior
      /\ run'[p].day = run[p].day /\ run'[p].found = run[p].found
      /\ run'[p].merged = merged /\ run'[p].signals = signals
  <2>1. DOMAIN run[p] = {"day", "map", "prior", "found", "merged", "signals"}
    BY <1>1 DEF IsRun
  <2>2. /\ run'[p].map = run[p].map /\ run'[p].prior = run[p].prior
        /\ run'[p].day = run[p].day /\ run'[p].found = run[p].found
        /\ run'[p].merged = merged /\ run'[p].signals = signals
        /\ DOMAIN run'[p] = DOMAIN run[p]
    BY <1>5, <2>1
  <2>3. IsRun(run'[p])
    BY <1>1, <1>3, <2>2 DEF IsRun
  <2> QED  BY <2>2, <2>3
<1>7. Holding(p)'
  BY <1>1, <1>4, <1>6 DEF Holding, signals
<1> QED  BY <1>2, <1>4, <1>6, <1>7, ProcStep DEF merged

LEMMA SnapshotOnlyStep ==
    ASSUME Inv, NEW p \in Proc, CommitSnapshotOnly(p)
    PROVE  Inv'
<1>1. /\ stage[p] = "only" /\ Running(p) /\ IsRun(run[p])
      /\ SetRun(run[p].day, "snapshot_only", Absent, 0)
      /\ Goto(p, "prune") /\ run' = run
      /\ UNCHANGED <<calendar, snapshots, contact, pairState, merges, copies, lock, starts,
                     failures>>
  BY DEF CommitSnapshotOnly, Running, Inv, TypeOK
<1>2. signalRuns' \in [Day -> SignalRunRow \cup {Absent}]
  BY <1>1, SetRunType DEF IsRun
<1>3. SharedOK'
  BY <1>1, <1>2, InvParts DEF SharedOK, calendar, copies
<1> QED  BY <1>1, <1>3, GotoStep DEF Stage

LEMMA CommitStep ==
    ASSUME Inv, NEW p \in Proc, CommitDaily(p)
    PROVE  Inv'
<1>1. /\ stage[p] = "commit" /\ Running(p) /\ IsRun(run[p]) /\ run[p].prior \in Day
      /\ contact' = [contact EXCEPT ![run[p].day] = run[p].signals]
      /\ SetRun(run[p].day, "ok", run[p].prior, Cardinality(DOMAIN run[p].signals))
      /\ pairState' = run[p].merged
      /\ merges' = [merges EXCEPT ![run[p].day] = @ + 1]
      /\ Goto(p, "create") /\ run' = run
      /\ UNCHANGED <<calendar, snapshots, copies, lock, starts, failures>>
  BY DEF CommitDaily, Running, Inv, TypeOK, Holding
<1>2. Cardinality(DOMAIN run[p].signals) \in Nat
  BY <1>1, PairStateAssumption, FS_Subset, FS_CardinalityType DEF IsRun, IsSignals
<1>3. signalRuns' \in [Day -> SignalRunRow \cup {Absent}]
  BY <1>1, <1>2, SetRunType DEF IsRun
<1>4. DOMAIN contact' = Day /\ \A d \in Day : IsSignals(contact'[d])
  BY <1>1 DEF IsRun, Inv, TypeOK
<1>5. pairState' \in PairStates /\ merges' \in [Day -> Nat]
  BY <1>1 DEF IsRun, Inv, TypeOK
<1>6. SharedOK'
  BY <1>1, <1>3, <1>4, <1>5, InvParts DEF SharedOK, calendar, copies
<1> QED  BY <1>1, <1>6, GotoStep DEF Stage

LEMMA CreateStep ==
    ASSUME Inv, NEW p \in Proc, CreateSignalsFile(p)
    PROVE  Inv'
<1>1. /\ stage[p] = "create" /\ Running(p)
      /\ files' = [files EXCEPT ![run[p].day] = Torn]
      /\ Goto(p, "write") /\ run' = run
      /\ UNCHANGED <<calendar, snapshots, tables, inbox, lock, starts, failures>>
  BY DEF CreateSignalsFile, Running
<1>2. /\ DOMAIN files' = Day
      /\ \A d \in Day : files'[d] \in {Torn, Absent} \/ IsSignals(files'[d])
  BY <1>1 DEF Inv, TypeOK
<1>3. SharedOK'
  BY <1>1, <1>2, InvParts DEF SharedOK, calendar, tables
<1> QED  BY <1>1, <1>3, GotoStep DEF Stage

LEMMA WriteStep ==
    ASSUME Inv, NEW p \in Proc, WriteSignalsFile(p)
    PROVE  Inv'
<1>1. PICK next \in {"append", "prune"} : Goto(p, next)
  BY DEF WriteSignalsFile
<1>2. /\ stage[p] = "write" /\ Running(p) /\ IsRun(run[p])
      /\ files' = [files EXCEPT ![run[p].day] = run[p].signals]
      /\ run' = run
      /\ UNCHANGED <<calendar, snapshots, tables, inbox, lock, starts, failures>>
  BY DEF WriteSignalsFile, Running, Inv, TypeOK
<1>3. /\ DOMAIN files' = Day
      /\ \A d \in Day : files'[d] \in {Torn, Absent} \/ IsSignals(files'[d])
  BY <1>2 DEF Inv, TypeOK, IsRun
<1>4. SharedOK'
  BY <1>2, <1>3, InvParts DEF SharedOK, calendar, tables
<1> QED  BY <1>1, <1>2, <1>4, GotoStep DEF Stage

LEMMA AppendStep ==
    ASSUME Inv, NEW p \in Proc, AppendInbox(p)
    PROVE  Inv'
<1>1. /\ stage[p] = "append" /\ Running(p)
      /\ inbox' = [inbox EXCEPT ![run[p].day] = @ + 1]
      /\ Goto(p, "prune") /\ run' = run
      /\ UNCHANGED <<calendar, snapshots, tables, files, lock, starts, failures>>
  BY DEF AppendInbox, Running
<1>2. inbox' \in [Day -> Nat]
  <2>1. run[p].day \in Day /\ inbox \in [Day -> Nat]
    BY <1>1 DEF Inv, TypeOK, IsRun
  <2> QED  BY <1>1, <2>1
<1>3. SharedOK'
  BY <1>1, <1>2, InvParts DEF SharedOK, calendar, tables
<1> QED  BY <1>1, <1>3, GotoStep DEF Stage

LEMMA PruneStep ==
    ASSUME Inv, NEW p \in Proc, Prune(p)
    PROVE  Inv'
<1>1. /\ Release(p) /\ snapshots' \subseteq snapshots
      /\ UNCHANGED <<calendar, tables, copies, starts, failures>>
  BY DEF Prune, Pruned
<1>2. lock' \in Proc \cup {Absent}
  BY <1>1, ReleaseLemma DEF Inv
<1>3. SharedOK'
  BY <1>1, <1>2, InvParts DEF SharedOK, calendar, tables, copies
<1> QED  BY <1>1, <1>3, ReleaseStep

LEMMA InterruptedPrune ==
    ASSUME NEW p \in Proc, Interrupted(p)
    PROVE  snapshots' \subseteq snapshots
BY DEF Interrupted, Pruned

LEMMA FailStep ==
    ASSUME Inv, NEW p \in Proc, Fail(p)
    PROVE  Inv'
<1>1. /\ Running(p) /\ Goto(p, "mark") /\ run' = run
      /\ stage[p] # "mark"
      /\ failures < MaxFailures /\ failures' = failures + 1
      /\ UNCHANGED <<calendar, tables, copies, lock, starts>>
      /\ Interrupted(p)
  BY DEF Fail
<1>2. snapshots' \subseteq snapshots
  BY <1>1, InterruptedPrune
<1>3. failures' \in 0..MaxFailures
  BY <1>1, DailyJobAssumption DEF Inv, TypeOK
<1>4. SharedOK'
  BY <1>1, <1>2, <1>3, InvParts DEF SharedOK, calendar, tables, copies
<1> QED  BY <1>1, <1>4, GotoStep DEF Stage

LEMMA DieStep ==
    ASSUME Inv, NEW p \in Proc, Die(p)
    PROVE  Inv'
<1>1. /\ Release(p)
      /\ failures < MaxFailures /\ failures' = failures + 1
      /\ UNCHANGED <<calendar, tables, copies, starts>>
      /\ Interrupted(p)
  BY DEF Die
<1>2. snapshots' \subseteq snapshots
  BY <1>1, InterruptedPrune
<1>3. failures' \in 0..MaxFailures
  BY <1>1, DailyJobAssumption DEF Inv, TypeOK
<1>4. lock' \in Proc \cup {Absent}
  BY <1>1, ReleaseLemma DEF Inv
<1>5. SharedOK'
  BY <1>1, <1>2, <1>3, <1>4, InvParts DEF SharedOK, calendar, tables, copies
<1> QED  BY <1>1, <1>5, ReleaseStep

LEMMA MarkStep ==
    ASSUME Inv, NEW p \in Proc, MarkError(p)
    PROVE  Inv'
<1>1. /\ Release(p) /\ Running(p) /\ IsRun(run[p])
      /\ SetRun(run[p].day, "error", Absent, 0) \/ UNCHANGED signalRuns
      /\ UNCHANGED <<calendar, snapshots, contact, pairState, merges, copies, starts, failures>>
  BY DEF MarkError, Running, Inv, TypeOK
<1>2. signalRuns' \in [Day -> SignalRunRow \cup {Absent}]
  BY <1>1, SetRunType DEF IsRun, Inv, TypeOK
<1>3. lock' \in Proc \cup {Absent}
  BY <1>1, ReleaseLemma DEF Inv
<1>4. SharedOK'
  BY <1>1, <1>2, <1>3, InvParts DEF SharedOK, calendar, copies
<1> QED  BY <1>1, <1>4, ReleaseStep

LEMMA Invariant == Spec => []Inv
<1>1. Init => Inv
  <2> SUFFICES ASSUME Init PROVE Inv
    OBVIOUS
  <2>1. SharedOK
    BY NothingIsSignals, DailyJobAssumption
       DEF Init, SharedOK, NoPairs, PairStates
  <2>2. \A p \in Proc : ~Running(p) /\ Holding(p)
    BY DEF Init, Running, Holding
  <2> QED  BY <2>1, <2>2, InvParts DEF Init, Stage
<1>2. Inv /\ [Next]_vars => Inv'
  <2> SUFFICES ASSUME Inv, [Next]_vars PROVE Inv'
    OBVIOUS
  <2>1. ASSUME NEW p \in Proc, NEW day \in Day, Start(p, day) PROVE Inv'
    BY <2>1, StartStep
  <2>2. ASSUME NEW p \in Proc, Step(p) PROVE Inv'
    BY <2>2, TakeSnapshotStep, DiffStep, SnapshotOnlyStep, MergeStep, CommitStep,
       CreateStep, WriteStep, AppendStep, PruneStep, MarkStep DEF Step
  <2>3. ASSUME NEW p \in Proc, Fail(p) \/ Die(p) PROVE Inv'
    BY <2>3, FailStep, DieStep
  <2> QED  BY <2>1, <2>2, <2>3, BesideStep DEF Next
<1> QED  BY <1>1, <1>2, PTL DEF Spec

\* Type correctness of the daily job.
THEOREM TypeCorrect == Spec => []TypeOK
<1>1. Inv => TypeOK
  BY DEF Inv
<1> QED  BY <1>1, Invariant, PTL

-----------------------------------------------------------------------------
(* Under the lock. *)

\* The org map in the tables is the newest: no row names a later crawl.
MapsUpTo(day) == \A d \in Day : \A q \in DOMAIN contact[d] : contact[d][q].map <= day

\* What the lock lets a run rely on: it is the only one, the state it merged is
\* still current, the rows it published are still the day's, its batch is still
\* missing from the inbox, and no row was made with a newer org map than its own.
Ours(p) ==
    /\ Running(p) => lock = p
    /\ stage[p] = "commit" =>
          run[p].merged = MergeDay(pairState, run[p].found, run[p].day)
    /\ stage[p] \in {"create", "write"} => contact[run[p].day] = run[p].signals
    /\ stage[p] \in {"create", "write", "append"} => inbox[run[p].day] < merges[run[p].day]
    /\ stage[p] \notin {"idle", "mark"} =>
          /\ MapsUpTo(run[p].map)
          /\ mapDay \in Day /\ run[p].map <= mapDay

Everyones ==
    /\ \A d \in Day : inbox[d] <= merges[d]
    /\ mapDay \in Day => mapDay <= today
    /\ \A d \in Day : DOMAIN contact[d] # {} => mapDay \in Day
    /\ mapDay \in Day => MapsUpTo(mapDay)

Locked == Everyones /\ \A p \in Proc : Ours(p)

\* While p runs nobody else does.
LEMMA Alone ==
    ASSUME Inv, Locked, NEW p \in Proc, Running(p)
    PROVE  \A q \in Proc \ {p} : stage[q] = "idle"
BY DEF Locked, Ours, Running

\* So the others have nothing to rely on after p's step.
LEMMA OthersIdle ==
    ASSUME NEW p \in Proc, Others(p), \A q \in Proc \ {p} : stage[q] = "idle"
    PROVE  \A q \in Proc \ {p} : Ours(q)'
BY DEF Others, Ours, Running

\* Steps that write neither the pair state, the rows nor the org map: where p goes
\* decides what it must still rely on.
LEMMA QuietStep ==
    ASSUME Inv, Locked, NEW p \in Proc, Running(p), NEW next \in Stage,
           Goto(p, next), run' = run, lock' = lock,
           UNCHANGED <<calendar, contact, pairState, merges, inbox>>,
           next # "commit",
           next \notin {"idle", "mark"} => stage[p] # "mark",
           next \in {"create", "write"} => stage[p] \in {"create", "write"},
           next = "append" => stage[p] = "write"
    PROVE  Locked'
<1>1. /\ stage'[p] = next /\ Others(p) /\ run'[p] = run[p]
  BY GotoLemma DEF Inv
<1>2. \A q \in Proc \ {p} : Ours(q)'
  BY <1>1, Alone, OthersIdle
<1>3. Everyones' /\ \A d \in Day : MapsUpTo(d) => MapsUpTo(d)'
  BY DEF Locked, Everyones, MapsUpTo, calendar
<1>4. Ours(p)'
  <2>1. Ours(p)
    BY DEF Locked
  <2>2. stage[p] \notin {"idle", "mark"} => run[p].map \in Day
    BY DEF Inv, Holding
  <2> QED  BY <1>1, <1>3, <2>1, <2>2 DEF Ours, Running, calendar
<1> QED  BY <1>2, <1>3, <1>4 DEF Locked

LEMMA QuietRelease ==
    ASSUME Inv, Locked, NEW p \in Proc, Running(p), Release(p),
           UNCHANGED <<calendar, contact, pairState, merges, inbox>>
    PROVE  Locked'
<1>1. stage'[p] = "idle" /\ Others(p)
  BY ReleaseLemma DEF Inv
<1>2. \A q \in Proc : Ours(q)'
  <2>1. \A q \in Proc \ {p} : Ours(q)'
    BY <1>1, Alone, OthersIdle
  <2>2. Ours(p)'
    BY <1>1 DEF Ours, Running
  <2> QED  BY <2>1, <2>2
<1>3. Everyones'
  BY DEF Locked, Everyones, MapsUpTo, calendar
<1> QED  BY <1>2, <1>3 DEF Locked

LEMMA StartLocked ==
    ASSUME Inv, Locked, Wrapped, NEW p \in Proc, NEW day \in Day, Start(p, day)
    PROVE  Locked'
<1> DEFINE r == [day |-> day, map |-> mapDay, prior |-> Absent, found |-> {},
                 merged |-> NoPairs, signals |-> Nothing]
           next == IF FreshOrgMap THEN "snapshot" ELSE "mark"
<1>1. /\ run' = [run EXCEPT ![p] = r]
      /\ stage' = [stage EXCEPT ![p] = next]
      /\ lock = Absent /\ lock' = p /\ mapDay # Absent
      /\ UNCHANGED <<calendar, tables, copies>>
  BY DEF Start, Goto, Acquire
<1>2. mapDay \in Day /\ r.map = mapDay
  BY <1>1 DEF Inv, TypeOK
<1>3. \A q \in Proc \ {p} : stage[q] = "idle"
  BY <1>1, DailyJobAssumption DEF Locked, Ours, Running
<1> HIDE DEF r
<1>4. /\ Others(p) /\ stage'[p] = next /\ run'[p] = r
  BY <1>1 DEF Inv, TypeOK, Others
<1>5. \A q \in Proc \ {p} : Ours(q)'
  BY <1>3, <1>4, OthersIdle
<1>6. Everyones' /\ MapsUpTo(mapDay)'
  BY <1>1, <1>2 DEF Locked, Everyones, MapsUpTo, calendar, tables, copies
<1>7. mapDay' = mapDay /\ mapDay <= mapDay
  BY <1>1, <1>2, PairStateAssumption DEF calendar
<1>8. run'[p].map = mapDay /\ stage'[p] \in {"snapshot", "mark"}
  BY <1>2, <1>4
<1>9. Ours(p)'
  BY <1>1, <1>2, <1>6, <1>7, <1>8 DEF Ours, Running, MapsUpTo
<1> QED  BY <1>5, <1>6, <1>9 DEF Locked

LEMMA DiffLocked ==
    ASSUME Inv, Locked, NEW p \in Proc, Diff(p)
    PROVE  Locked'
<1>1. /\ stage[p] = "diff" /\ Running(p) /\ IsRun(run[p])
      /\ UNCHANGED <<calendar, snapshots, tables, copies, lock, starts, failures>>
  BY DEF Diff, Running, Inv, TypeOK
<1>2. CASE Goto(p, "only") /\ run' = run
  BY <1>1, <1>2, QuietStep DEF Stage, tables, copies
<1>3. ASSUME NEW prior \in NewestBefore(snapshots, run[p].day), NEW found \in SUBSET Pair,
             run' = [run EXCEPT ![p].prior = prior, ![p].found = found],
             Goto(p, "merge")
      PROVE  Locked'
  <2>1. Others(p) /\ stage'[p] = "merge"
    BY <1>3 DEF Inv, TypeOK, Goto, Others
  <2>2. run'[p] = [run[p] EXCEPT !.prior = prior, !.found = found]
    BY <1>3 DEF Inv, TypeOK
  <2>3. run'[p].map = run[p].map
    BY <1>1, <2>2 DEF IsRun
  <2>4. \A q \in Proc \ {p} : Ours(q)'
    BY <1>1, <2>1, Alone, OthersIdle
  <2>5. Everyones' /\ MapsUpTo(run[p].map)'
    <3>1. Everyones /\ MapsUpTo(run[p].map)
      BY <1>1 DEF Locked, Ours
    <3>2. run'[p].map = run[p].map /\ UNCHANGED <<today, mapDay, contact, merges, inbox>>
      BY <1>1, <2>3 DEF calendar, tables, copies
    <3> QED  BY <3>1, <3>2 DEF Everyones, MapsUpTo
  <2>6. Ours(p)'
    <3>1. Ours(p)
      BY DEF Locked
    <3>2. lock' = lock /\ mapDay' = mapDay
      BY <1>1 DEF calendar
    <3> QED  BY <1>1, <2>1, <2>3, <2>5, <3>1, <3>2 DEF Ours, Running, MapsUpTo
  <2> QED  BY <2>4, <2>5, <2>6 DEF Locked
<1> QED  BY <1>2, <1>3 DEF Diff

LEMMA MergeLocked ==
    ASSUME Inv, Locked, NEW p \in Proc, MergePairState(p)
    PROVE  Locked'
<1>1. /\ stage[p] = "merge" /\ Running(p)
      /\ UNCHANGED <<calendar, snapshots, tables, copies, lock, starts, failures>>
  BY DEF MergePairState, Running
<1>2. /\ stage'[p] = "commit" /\ Others(p)
      /\ run'[p].merged = MergeDay(pairState, run[p].found, run[p].day)
      /\ run'[p].found = run[p].found /\ run'[p].day = run[p].day
  BY MergeStep
<1>3. run'[p].map = run[p].map
  <2> DEFINE merged == MergeDay(pairState, run[p].found, run[p].day)
             signals == BuildSignals(run[p].found, run[p].prior, run[p].map, merged)
  <2>1. run'[p] = [run[p] EXCEPT !.merged = merged, !.signals = signals]
    BY DEF MergePairState, Inv, TypeOK
  <2>2. DOMAIN run[p] = {"day", "map", "prior", "found", "merged", "signals"}
    BY <1>1 DEF Inv, TypeOK, IsRun
  <2> HIDE DEF merged, signals
  <2> QED  BY <2>1, <2>2
<1>4. \A q \in Proc \ {p} : Ours(q)'
  BY <1>1, <1>2, Alone, OthersIdle
<1>5. Ours(p) /\ Everyones
  BY DEF Locked
<1>6. Everyones'
  BY <1>1, <1>5 DEF Everyones, MapsUpTo, calendar, tables, copies
<1>7. MapsUpTo(run[p].map)'
  BY <1>1, <1>3, <1>5 DEF Ours, MapsUpTo, tables
<1>8. /\ lock' = lock /\ mapDay' = mapDay
      /\ MergeDay(pairState, run[p].found, run[p].day)' =
            MergeDay(pairState, run[p].found, run[p].day)
  BY <1>1, <1>2 DEF MergeDay, tables, calendar
<1>9. Ours(p)'
  BY <1>1, <1>2, <1>3, <1>5, <1>7, <1>8 DEF Ours, Running, MapsUpTo
<1> QED  BY <1>4, <1>6, <1>9 DEF Locked

LEMMA CommitLocked ==
    ASSUME Inv, Locked, NEW p \in Proc, CommitDaily(p)
    PROVE  Locked'
<1>1. /\ stage[p] = "commit" /\ Running(p) /\ IsRun(run[p])
      /\ contact' = [contact EXCEPT ![run[p].day] = run[p].signals]
      /\ merges' = [merges EXCEPT ![run[p].day] = @ + 1]
      /\ Goto(p, "create") /\ run' = run
      /\ UNCHANGED <<calendar, snapshots, copies, lock, starts, failures>>
  BY DEF CommitDaily, Running, Inv, TypeOK
<1>2. /\ stage'[p] = "create" /\ Others(p) /\ run'[p] = run[p]
  BY <1>1, GotoLemma DEF Inv, Stage
<1>3. \A q \in Proc \ {p} : Ours(q)'
  BY <1>1, <1>2, Alone, OthersIdle
<1>4. /\ run[p].day \in Day /\ DOMAIN contact = Day
      /\ merges \in [Day -> Nat] /\ inbox \in [Day -> Nat]
  BY <1>1 DEF IsRun, Inv, TypeOK
<1>5. /\ contact'[run[p].day] = run[p].signals
      /\ \A d \in Day \ {run[p].day} : contact'[d] = contact[d]
      /\ merges'[run[p].day] = merges[run[p].day] + 1
      /\ \A d \in Day \ {run[p].day} : merges'[d] = merges[d]
  BY <1>1, <1>4
<1>6. /\ Everyones /\ lock = p
      /\ MapsUpTo(run[p].map) /\ mapDay \in Day /\ run[p].map <= mapDay
      /\ run[p].map \in Day
  BY <1>1 DEF Locked, Ours, Inv, Holding
<1>7. \A q \in DOMAIN run[p].signals : run[p].signals[q].map = run[p].map
  <2>1. run[p].signals = BuildSignals(run[p].found, run[p].prior, run[p].map, run[p].merged)
    BY <1>1 DEF Inv, Holding
  <2> QED  BY <2>1 DEF BuildSignals
<1>8. /\ run[p].map <= run[p].map
      /\ \A d \in Day : \A q \in DOMAIN contact'[d] :
            contact'[d][q].map <= run[p].map /\ contact'[d][q].map <= mapDay
  <2>1. run[p].map \in Nat /\ mapDay \in Nat
    BY <1>6, PairStateAssumption
  <2>2. \A q \in DOMAIN contact'[run[p].day] :
            contact'[run[p].day][q].map <= run[p].map /\ contact'[run[p].day][q].map <= mapDay
    BY <1>5, <1>6, <1>7, <2>1
  <2>3. ASSUME NEW d \in Day \ {run[p].day}, NEW q \in DOMAIN contact'[d]
        PROVE  contact'[d][q].map <= run[p].map /\ contact'[d][q].map <= mapDay
    <3>1. contact'[d][q].map <= run[p].map /\ contact'[d][q].map <= mapDay
      BY <1>5, <1>6 DEF MapsUpTo, Everyones
    <3> QED  BY <3>1
  <2> QED  BY <2>1, <2>2, <2>3
<1>9. MapsUpTo(run[p].map)' /\ MapsUpTo(mapDay)'
  BY <1>1, <1>8 DEF MapsUpTo, calendar
<1>10. \A d \in Day : inbox'[d] <= merges'[d]
  BY <1>1, <1>4, <1>5, <1>6 DEF Everyones, copies
<1>11. inbox'[run[p].day] < merges'[run[p].day]
  BY <1>1, <1>4, <1>5, <1>6 DEF Everyones, copies
<1>12. Everyones'
  BY <1>1, <1>6, <1>9, <1>10 DEF Everyones, calendar
<1>13. Ours(p)'
  BY <1>1, <1>2, <1>5, <1>6, <1>9, <1>11 DEF Ours, Running, MapsUpTo, calendar
<1> QED  BY <1>3, <1>12, <1>13 DEF Locked

LEMMA AppendLocked ==
    ASSUME Inv, Locked, NEW p \in Proc, AppendInbox(p)
    PROVE  Locked'
<1>1. /\ stage[p] = "append" /\ Running(p)
      /\ inbox' = [inbox EXCEPT ![run[p].day] = @ + 1]
      /\ Goto(p, "prune") /\ run' = run
      /\ UNCHANGED <<calendar, snapshots, tables, files, lock, starts, failures>>
  BY DEF AppendInbox, Running
<1>2. /\ stage'[p] = "prune" /\ Others(p) /\ run'[p] = run[p]
  BY <1>1, GotoLemma DEF Inv, Stage
<1>3. \A q \in Proc \ {p} : Ours(q)'
  BY <1>1, <1>2, Alone, OthersIdle
<1>4. /\ Ours(p) /\ Everyones /\ run[p].day \in Day
      /\ merges \in [Day -> Nat] /\ inbox \in [Day -> Nat]
  BY <1>1 DEF Locked, Inv, TypeOK, IsRun
<1>5. inbox[run[p].day] < merges[run[p].day]
  BY <1>1, <1>4 DEF Ours
<1>6. \A d \in Day : inbox'[d] <= merges[d]
  BY <1>1, <1>4, <1>5 DEF Everyones
<1>7. Everyones'
  BY <1>1, <1>4, <1>6 DEF Everyones, MapsUpTo, calendar, tables
<1>8. Ours(p)'
  BY <1>1, <1>2, <1>4 DEF Ours, Running, MapsUpTo, calendar, tables
<1> QED  BY <1>3, <1>7, <1>8 DEF Locked

LEMMA CalendarLocked ==
    ASSUME Inv, Locked, NextDay \/ RefreshOrgMap
    PROVE  Locked'
<1>1. /\ UNCHANGED <<tables, copies, lock, stage, run>>
      /\ \/ today' = today + 1 /\ mapDay' = mapDay
         \/ today' = today /\ mapDay' = today
  BY DEF NextDay, RefreshOrgMap
<1>2. today \in Day /\ Day \subseteq Nat /\ (mapDay \in Day \/ mapDay = Absent)
  BY PairStateAssumption DEF Inv, TypeOK
<1>3. Absent \notin Day
  BY DailyJobAssumption
<1>4. ASSUME NEW d \in Day, MapsUpTo(d), NEW e \in Day, d <= e
      PROVE  MapsUpTo(e)
  <2> SUFFICES ASSUME NEW c \in Day, NEW q \in DOMAIN contact[c]
               PROVE  contact[c][q].map <= e
    BY DEF MapsUpTo
  <2>1. contact[c][q].map <= d
    BY <1>4 DEF MapsUpTo
  <2>2. contact[c][q].map \in Nat /\ d \in Nat /\ e \in Nat
    <3>1. IsSignals(contact[c])
      BY DEF Inv, TypeOK
    <3>2. contact[c][q] \in Signal
      BY <3>1 DEF IsSignals
    <3> QED  BY <1>2, <3>2 DEF Signal
  <2> QED  BY <1>4, <2>1, <2>2
<1>5. \A d \in Day : MapsUpTo(d)' <=> MapsUpTo(d)
  BY <1>1 DEF MapsUpTo, tables
<1>6. Everyones'
  <2>1. /\ \A d \in Day : inbox'[d] <= merges'[d]
        /\ \A d \in Day : DOMAIN contact'[d] # {} => mapDay' \in Day
    BY <1>1, <1>2 DEF Locked, Everyones, tables, copies
  <2>2. mapDay' \in Day => mapDay' <= today'
    BY <1>1, <1>2 DEF Locked, Everyones
  <2>3. MapsUpTo(today)
    <3>1. CASE mapDay \in Day
      BY <1>2, <1>4, <3>1 DEF Locked, Everyones
    <3>2. CASE mapDay = Absent
      BY <1>3, <3>2 DEF Locked, Everyones, MapsUpTo
    <3> QED  BY <1>2, <3>1, <3>2
  <2>4. mapDay' \in Day => MapsUpTo(mapDay')
    BY <1>1, <2>3 DEF Locked, Everyones
  <2>5. mapDay' \in Day => MapsUpTo(mapDay)'
    BY <1>1, <2>4 DEF MapsUpTo, tables
  <2> QED  BY <2>1, <2>2, <2>5 DEF Everyones
<1>7. ASSUME NEW p \in Proc
      PROVE  Ours(p)'
  <2>1. Ours(p) /\ Holding(p)
    BY DEF Locked, Inv
  <2>2. stage[p] \notin {"idle", "mark"} => mapDay' \in Day /\ run[p].map <= mapDay'
    <3>1. ASSUME stage[p] \notin {"idle", "mark"}
          PROVE  mapDay' \in Day /\ run[p].map <= mapDay'
      <4>1. /\ run[p].map \in Nat /\ mapDay \in Nat /\ today \in Nat
            /\ run[p].map <= mapDay /\ mapDay <= today /\ mapDay \in Day
        BY <1>2, <2>1, <3>1 DEF Holding, Ours, Locked, Everyones
      <4> QED  BY <1>1, <1>2, <4>1
    <3> QED  BY <3>1
  <2>3. UNCHANGED <<contact, pairState, merges, inbox, lock, stage, run>>
    BY <1>1 DEF tables, copies
  <2>4. MergeDay(pairState, run[p].found, run[p].day)' =
            MergeDay(pairState, run[p].found, run[p].day)
    BY <2>3 DEF MergeDay
  <2> QED  BY <2>1, <2>2, <2>3, <2>4 DEF Ours, Running, MapsUpTo
<1> QED  BY <1>6, <1>7 DEF Locked

LEMMA LockedInvariant == ASSUME Wrapped PROVE Spec => [](Inv /\ Locked)
<1>1. Init => Locked
  <2> SUFFICES ASSUME Init PROVE Locked
    OBVIOUS
  <2>1. /\ \A p \in Proc : stage[p] = "idle"
        /\ \A d \in Day : inbox[d] = 0 /\ merges[d] = 0 /\ contact[d] = Nothing
        /\ mapDay = Absent
    BY DEF Init
  <2>2. DOMAIN Nothing = {}
    BY DEF Nothing
  <2>3. \A p \in Proc : Ours(p)
    BY <2>1 DEF Ours, Running
  <2>4. Everyones
    BY <2>1, <2>2, DailyJobAssumption DEF Everyones
  <2> QED  BY <2>3, <2>4 DEF Locked
<1>2. Inv /\ Locked /\ [Next]_vars => Locked'
  <2> SUFFICES ASSUME Inv, Locked, [Next]_vars PROVE Locked'
    OBVIOUS
  <2>1. ASSUME NEW p \in Proc, NEW day \in Day, Start(p, day) PROVE Locked'
    BY <2>1, StartLocked
  <2>2. ASSUME NEW p \in Proc, Step(p) PROVE Locked'
    <3>1. CASE TakeSnapshot(p)
      BY <3>1, QuietStep DEF TakeSnapshot, Running, Stage, tables, copies
    <3>2. CASE CommitSnapshotOnly(p)
      BY <3>2, QuietStep DEF CommitSnapshotOnly, Running, Stage, copies
    <3>3. CASE CreateSignalsFile(p)
      BY <3>3, QuietStep DEF CreateSignalsFile, Running, Stage, tables
    <3>4. CASE WriteSignalsFile(p)
      <4>1. PICK next \in {"append", "prune"} : Goto(p, next)
        BY <3>4 DEF WriteSignalsFile
      <4> QED  BY <3>4, <4>1, QuietStep DEF WriteSignalsFile, Running, Stage, tables
    <3>5. CASE Prune(p)
      BY <3>5, QuietRelease DEF Prune, Running, tables, copies
    <3>6. CASE MarkError(p)
      BY <3>6, QuietRelease DEF MarkError, Running, copies
    <3> QED  BY <2>2, <3>1, <3>2, <3>3, <3>4, <3>5, <3>6, DiffLocked, MergeLocked,
                CommitLocked, AppendLocked DEF Step
  <2>3. ASSUME NEW p \in Proc, Fail(p) PROVE Locked'
    BY <2>3, QuietStep DEF Fail, Stage, tables, copies
  <2>4. ASSUME NEW p \in Proc, Die(p) PROVE Locked'
    BY <2>4, QuietRelease DEF Die, tables, copies
  <2>5. CASE NextDay \/ RefreshOrgMap
    BY <2>5, CalendarLocked
  <2>6. CASE UNCHANGED vars
    BY <2>6 DEF vars, Locked, Everyones, Ours, MapsUpTo, Running, MergeDay
  <2> QED  BY <2>1, <2>2, <2>3, <2>4, <2>5, <2>6 DEF Next
<1> QED  BY <1>1, <1>2, Invariant, PTL DEF Spec

\* Each step of a wrapped daily job is a step of the serial one, or none.
THEOREM Serializable == ASSUME Wrapped PROVE Spec => ImplementsSerial
<1>1. Init => Serial!Init
  BY DEF Init, Serial!Init, Nothing, NoPairs, Serial!NoPairs
<1>2. Inv /\ Locked /\ [Next]_vars => [Serial!Next]_(Serial!serialVars)
  <2> SUFFICES ASSUME Inv, Locked, [Next]_vars
               PROVE  Serial!Next \/ UNCHANGED <<contact, signalRuns, pairState>>
    BY DEF Serial!serialVars
  <2>1. ASSUME NEW p \in Proc, CommitDaily(p)
        PROVE  Serial!Next
    <3> DEFINE r == run[p]
    <3>1. /\ stage[p] = "commit" /\ IsRun(r) /\ Holding(p) /\ Ours(p)
          /\ contact' = [contact EXCEPT ![r.day] = r.signals]
          /\ signalRuns' = [signalRuns EXCEPT ![r.day] =
                [status |-> "ok", prior |-> r.prior, count |-> Cardinality(DOMAIN r.signals)]]
          /\ pairState' = r.merged
      BY <2>1 DEF CommitDaily, SetRun, Inv, TypeOK, Locked, Running
    <3>2. /\ r.day \in Day /\ r.prior \in Day /\ r.map \in Day /\ r.found \in SUBSET Pair
          /\ r.prior < r.day
      BY <3>1 DEF Holding, IsRun
    <3>3. /\ r.merged = MergeDay(pairState, r.found, r.day)
          /\ r.signals = BuildSignals(r.found, r.prior, r.map, r.merged)
          /\ DOMAIN r.signals = r.found
      <4>1. /\ r.merged = MergeDay(pairState, r.found, r.day)
            /\ r.signals = BuildSignals(r.found, r.prior, r.map, r.merged)
        BY <3>1 DEF Holding, Ours
      <4> QED  BY <4>1 DEF BuildSignals
    <3> HIDE DEF r
    <3>4. Serial!MergeDay(pairState, r.found, r.day) = MergeDay(pairState, r.found, r.day)
      BY DEF Serial!MergeDay, MergeDay, Serial!Merged, Merged
    <3>5. Serial!BuildSignals(r.found, r.prior, r.map, r.merged) =
              BuildSignals(r.found, r.prior, r.map, r.merged)
      BY DEF Serial!BuildSignals, BuildSignals
    <3>6. Serial!Cardinality(r.found) = Cardinality(r.found)
      BY DEF Serial!Cardinality, Cardinality
    <3>7. Serial!Publish(r.day, r.prior, r.map, r.found)
      BY <3>1, <3>2, <3>3, <3>4, <3>5, <3>6 DEF Serial!Publish
    <3> QED  BY <3>2, <3>7 DEF Serial!Next
  <2>2. ASSUME NEW day \in Day, NEW status \in {"snapshot_only", "error"},
               SetRun(day, status, Absent, 0), UNCHANGED <<contact, pairState>>
        PROVE  Serial!Next
    BY <2>2 DEF SetRun, Serial!Mark, Serial!Next
  <2>3. ASSUME NEW p \in Proc, Step(p)
        PROVE  Serial!Next \/ UNCHANGED <<contact, signalRuns, pairState>>
    <3>1. stage[p] # "idle" => run[p].day \in Day
      BY DEF Inv, TypeOK, IsRun, Running
    <3>2. CASE CommitSnapshotOnly(p)
      BY <2>2, <3>1, <3>2 DEF CommitSnapshotOnly
    <3>3. CASE MarkError(p)
      BY <2>2, <3>1, <3>3 DEF MarkError
    <3> QED  BY <2>1, <2>3, <3>2, <3>3
             DEF Step, TakeSnapshot, Diff, MergePairState, CreateSignalsFile,
                 WriteSignalsFile, AppendInbox, Prune, tables
  <2>4. ASSUME NEW p \in Proc, (\E day \in Day : Start(p, day)) \/ Fail(p) \/ Die(p)
        PROVE  UNCHANGED <<contact, signalRuns, pairState>>
    BY <2>4 DEF Start, Fail, Die, tables
  <2> QED  BY <2>3, <2>4 DEF Next, NextDay, RefreshOrgMap, vars, tables
<1> QED  BY <1>1, <1>2, LockedInvariant, PTL DEF Spec, ImplementsSerial, Serial!Spec

\* A wrapped daily job never puts into the review copies what it did not commit.
THEOREM ReviewCopyCorrect == ASSUME Wrapped PROVE Spec => ReviewCopyIsCommitted
<1> DEFINE Copied(d) ==
        /\ (files'[d] # files[d] /\ files'[d] # Torn) => files'[d] = contact'[d]
        /\ inbox'[d] # inbox[d] => inbox'[d] <= merges'[d]
<1>1. Inv /\ Locked /\ Inv' /\ Locked' /\ [Next]_vars => [\A d \in Day : Copied(d)]_vars
  <2> SUFFICES ASSUME Inv, Locked, Inv', Locked', [Next]_vars, NEW d \in Day
               PROVE  Copied(d)
    BY DEF vars
  <2>1. inbox'[d] <= merges'[d]
    BY DEF Locked, Everyones
  <2>2. (files'[d] # files[d] /\ files'[d] # Torn) => files'[d] = contact'[d]
    <3>1. ASSUME NEW p \in Proc, WriteSignalsFile(p)
          PROVE  files'[d] # files[d] => files'[d] = contact'[d]
      <4>1. /\ stage[p] = "write" /\ Ours(p) /\ IsRun(run[p])
            /\ files' = [files EXCEPT ![run[p].day] = run[p].signals]
            /\ contact' = contact /\ DOMAIN files = Day
        BY <3>1 DEF WriteSignalsFile, Locked, Inv, TypeOK, Running, tables
      <4>2. CASE d = run[p].day
        BY <4>1, <4>2 DEF Ours
      <4>3. CASE d # run[p].day
        BY <4>1, <4>3
      <4> QED  BY <4>2, <4>3
    <3>2. ASSUME NEW p \in Proc, CreateSignalsFile(p)
          PROVE  files'[d] # files[d] => files'[d] = Torn
      BY <3>2 DEF CreateSignalsFile, Inv, TypeOK
    <3>3. CASE UNCHANGED files
      BY <3>3
    <3> QED  BY <3>1, <3>2, <3>3
             DEF Next, Step, NextDay, RefreshOrgMap, Start, TakeSnapshot, Diff,
                 CommitSnapshotOnly, MergePairState, CommitDaily, AppendInbox, Prune,
                 MarkError, Fail, Die, vars, copies
  <2> QED  BY <2>1, <2>2
<1> QED  BY <1>1, LockedInvariant, PTL DEF Spec, ReviewCopyIsCommitted

\* A wrapped rerun never publishes a day against an older org map than before.
THEOREM MapForward == ASSUME Wrapped PROVE Spec => MapNeverGoesBack
<1> DEFINE Forward(d) == contact'[d] # contact[d] =>
        \A p \in DOMAIN contact[d], q \in DOMAIN contact'[d] :
            contact[d][p].map <= contact'[d][q].map
<1>1. Inv /\ Locked /\ [Next]_vars => [\A d \in Day : Forward(d)]_vars
  <2> SUFFICES ASSUME Inv, Locked, [Next]_vars, NEW d \in Day
               PROVE  Forward(d)
    BY DEF vars
  <2>1. ASSUME NEW r \in Proc, CommitDaily(r)
        PROVE  Forward(d)
    <3>1. /\ stage[r] = "commit" /\ Ours(r) /\ Holding(r) /\ IsRun(run[r])
          /\ contact' = [contact EXCEPT ![run[r].day] = run[r].signals]
          /\ DOMAIN contact = Day
      BY <2>1 DEF CommitDaily, Locked, Inv, TypeOK, Running
    <3>2. CASE d # run[r].day
      BY <3>1, <3>2
    <3>3. CASE d = run[r].day
      <4>1. contact'[d] = run[r].signals
        BY <3>1, <3>3
      <4>2. \A q \in DOMAIN run[r].signals : run[r].signals[q].map = run[r].map
        BY <3>1 DEF Holding, BuildSignals
      <4>3. \A p \in DOMAIN contact[d] : contact[d][p].map <= run[r].map
        BY <3>1 DEF Ours, MapsUpTo
      <4> QED  BY <4>1, <4>2, <4>3
    <3> QED  BY <3>2, <3>3
  <2>2. CASE UNCHANGED contact
    BY <2>2
  <2> QED  BY <2>1, <2>2
           DEF Next, Step, NextDay, RefreshOrgMap, Start, TakeSnapshot, Diff,
               CommitSnapshotOnly, MergePairState, CreateSignalsFile, WriteSignalsFile,
               AppendInbox, Prune, MarkError, Fail, Die, vars, tables
<1> QED  BY <1>1, LockedInvariant, PTL DEF Spec, MapNeverGoesBack

\* With the lock or without it, readers see whole days change with their verdicts.
THEOREM KeepsPromise == Spec => ImplementsBoard
<1>1. Init => Board!Init
  BY DEF Init, Board!Init, Nothing, Board!Nothing
<1>2. Inv /\ [Next]_vars => [Board!Next]_(Board!boardVars)
  <2> SUFFICES ASSUME Inv, [Next]_vars
               PROVE  Board!Next \/ UNCHANGED <<contact, Nothing, signalRuns>>
    BY DEF Board!boardVars
  <2>0. Nothing' = Nothing
    BY DEF Nothing
  <2>1. ASSUME NEW p \in Proc, CommitDaily(p)
        PROVE  Board!Next
    <3> DEFINE r == run[p]
    <3>1. /\ stage[p] = "commit" /\ IsRun(r) /\ Holding(p)
          /\ contact' = [contact EXCEPT ![r.day] = r.signals]
          /\ signalRuns' = [signalRuns EXCEPT ![r.day] =
                [status |-> "ok", prior |-> r.prior, count |-> Cardinality(DOMAIN r.signals)]]
          /\ DOMAIN contact = Day
      BY <2>1 DEF CommitDaily, SetRun, Inv, TypeOK, Running
    <3>2. /\ r.day \in Day /\ r.prior \in Day
          /\ DOMAIN r.signals \subseteq Pair
          /\ \A q \in DOMAIN r.signals : r.signals[q].prior = r.prior
      <4>1. r.signals = BuildSignals(r.found, r.prior, r.map, r.merged)
        BY <3>1 DEF Holding
      <4>2. \A q \in DOMAIN r.signals : r.signals[q].prior = r.prior
        BY <4>1 DEF BuildSignals
      <4> QED  BY <3>1, <4>2 DEF Holding, IsRun, IsSignals
    <3> HIDE DEF r
    <3>3. contact'[r.day] = r.signals
      BY <3>1, <3>2
    <3>4. Board!Publish(r.day, r.prior, contact'[r.day])
      BY <2>0, <3>1, <3>2, <3>3 DEF Board!Publish, Board!Cardinality, Cardinality
    <3> QED  BY <3>2, <3>4 DEF Board!Next
  <2>2. ASSUME NEW day \in Day, NEW status \in {"snapshot_only", "error"},
               SetRun(day, status, Absent, 0), UNCHANGED contact
        PROVE  Board!Next
    BY <2>0, <2>2 DEF SetRun, Board!Mark, Board!Next
  <2>3. ASSUME NEW p \in Proc, Step(p)
        PROVE  Board!Next \/ UNCHANGED <<contact, signalRuns>>
    <3>1. stage[p] # "idle" => run[p].day \in Day
      BY DEF Inv, TypeOK, IsRun, Running
    <3>2. CASE CommitSnapshotOnly(p)
      BY <2>2, <3>1, <3>2 DEF CommitSnapshotOnly
    <3>3. CASE MarkError(p)
      BY <2>2, <3>1, <3>3 DEF MarkError
    <3> QED  BY <2>1, <2>3, <3>2, <3>3
             DEF Step, TakeSnapshot, Diff, MergePairState, CreateSignalsFile,
                 WriteSignalsFile, AppendInbox, Prune, tables
  <2>4. ASSUME NEW p \in Proc, (\E day \in Day : Start(p, day)) \/ Fail(p) \/ Die(p)
        PROVE  UNCHANGED <<contact, signalRuns>>
    BY <2>4 DEF Start, Fail, Die, tables
  <2> QED  BY <2>0, <2>3, <2>4 DEF Next, NextDay, RefreshOrgMap, vars, tables
<1> QED  BY <1>1, <1>2, Invariant, PTL DEF Spec, ImplementsBoard, Board!Spec

-----------------------------------------------------------------------------
(* Days and snapshots under the lock. *)

\* Only commit_daily writes the pair state and publishes a day.
LEMMA OnlyCommits ==
    ASSUME [Next]_vars
    PROVE  (\E p \in Proc : CommitDaily(p)) \/ UNCHANGED <<contact, pairState, merges>>
<1>1. ASSUME NEW p \in Proc, Step(p), ~CommitDaily(p)
      PROVE  UNCHANGED <<contact, pairState, merges>>
  BY <1>1 DEF Step, TakeSnapshot, Diff, CommitSnapshotOnly, MergePairState, CreateSignalsFile,
              WriteSignalsFile, AppendInbox, Prune, MarkError, tables
<1>2. ASSUME NEW p \in Proc, (\E day \in Day : Start(p, day)) \/ Fail(p) \/ Die(p)
      PROVE  UNCHANGED <<contact, pairState, merges>>
  BY <1>2 DEF Start, Fail, Die, tables
<1> QED  BY <1>1, <1>2 DEF Next, NextDay, RefreshOrgMap, vars, tables

\* The days published once, by the counts m, in the span of an entry.
Span(m, e) == {d \in Day : m[d] = 1 /\ e.first <= d /\ d <= e.last}

LEMMA SpanFinite ==
    ASSUME NEW m, NEW e, NEW T \in SUBSET Span(m, e)
    PROVE  /\ IsFiniteSet(T) /\ Cardinality(T) \in Nat
           /\ Cardinality(Span(m, e)) \in Nat /\ Cardinality(T) <= Cardinality(Span(m, e))
<1>1. Span(m, e) \subseteq Day /\ IsFiniteSet(Day)
  BY PairStateAssumption DEF Span
<1>2. IsFiniteSet(Span(m, e))
  BY <1>1, FS_Subset
<1>3. IsFiniteSet(T) /\ Cardinality(T) <= Cardinality(Span(m, e))
  BY <1>2, FS_Subset
<1> QED  BY <1>2, <1>3, FS_CardinalityType

\* Publishing a day for the first time takes no day out of a span.
LEMMA SpanGrows ==
    ASSUME NEW m \in [Day -> Nat], NEW day \in Day, m[day] = 0, NEW e
    PROVE  Span(m, e) \subseteq Span([m EXCEPT ![day] = @ + 1], e)
BY DEF Span

\* merge_day counts a day that was not published before.
LEMMA MergedCounts ==
    ASSUME NEW m \in [Day -> Nat], NEW day \in Day, m[day] = 0,
           NEW e \in Entry \cup {Absent}, e # Absent => e.days <= Cardinality(Span(m, e))
    PROVE  Merged(e, day).days <= Cardinality(Span([m EXCEPT ![day] = @ + 1], Merged(e, day)))
<1>1. PICK k : k = [m EXCEPT ![day] = @ + 1]
  OBVIOUS
<1>2. PICK f : f = Merged(e, day)
  OBVIOUS
<1>3. k[day] = 1 /\ \A d \in Day \ {day} : k[d] = m[d]
  BY <1>1
<1>4. \A d \in Day : d \in Nat
  BY PairStateAssumption
<1>5. CASE e = Absent
  <2>1. f.days = 1 /\ f.first = day /\ f.last = day
    BY <1>2, <1>5 DEF Merged
  <2>2. {day} \in SUBSET Span(k, f)
    BY <1>3, <1>4, <2>1 DEF Span
  <2>3. Cardinality({day}) <= Cardinality(Span(k, f)) /\ Cardinality({day}) = 1
    BY <2>2, SpanFinite, FS_Singleton
  <2> QED  BY <1>1, <1>2, <2>1, <2>3
<1>6. CASE e # Absent
  <2>1. e.days \in Nat /\ e.first \in Nat /\ e.last \in Nat /\ day \in Nat
    BY <1>4, <1>6 DEF Entry
  <2>2. /\ f.days = e.days + 1
        /\ f.first = IF day < e.first THEN day ELSE e.first
        /\ f.last = IF day > e.last THEN day ELSE e.last
    BY <1>2, <1>6 DEF Merged
  <2>3. \A d \in Nat : e.first <= d /\ d <= e.last => f.first <= d /\ d <= f.last
    BY <2>1, <2>2
  <2>4. f.first <= day /\ day <= f.last
    BY <2>1, <2>2
  <2>5. Span(m, e) \cup {day} \in SUBSET Span(k, f) /\ day \notin Span(m, e)
    BY <1>3, <1>4, <2>3, <2>4 DEF Span
  <2>6. Cardinality(Span(m, e) \cup {day}) = Cardinality(Span(m, e)) + 1
    BY <2>5, SpanFinite, FS_AddElement
  <2>7. Cardinality(Span(m, e) \cup {day}) <= Cardinality(Span(k, f))
    BY <2>5, SpanFinite
  <2>8. Cardinality(Span(m, e)) \in Nat /\ Cardinality(Span(k, f)) \in Nat
    BY <2>5, SpanFinite
  <2> QED  BY <1>1, <1>2, <1>6, <2>1, <2>2, <2>6, <2>7, <2>8
<1> QED  BY <1>5, <1>6

\* The lock makes the day counts of the pair state counts of distinct days.
THEOREM DaysCorrect == ASSUME Wrapped PROVE Spec => []DaysAreDistinct
<1>0. DaysAreDistinct <=>
        ((\A d \in Day : merges[d] <= 1) =>
            \A q \in Pair : pairState[q] # Absent =>
                pairState[q].days <= Cardinality(Span(merges, pairState[q])))
  BY DEF DaysAreDistinct, Span
<1>1. Init => DaysAreDistinct
  BY DEF Init, DaysAreDistinct, NoPairs
<1>2. Inv /\ Locked /\ DaysAreDistinct /\ [Next]_vars => DaysAreDistinct'
  <2> SUFFICES ASSUME Inv, Locked, DaysAreDistinct, [Next]_vars PROVE DaysAreDistinct'
    OBVIOUS
  <2>1. CASE UNCHANGED <<contact, pairState, merges>>
    BY <2>1 DEF DaysAreDistinct
  <2>2. ASSUME NEW p \in Proc, CommitDaily(p),
               \A d \in Day : merges'[d] <= 1, NEW q \in Pair, pairState'[q] # Absent
        PROVE  pairState'[q].days <= Cardinality(Span(merges', pairState'[q]))
    <3>1. /\ stage[p] = "commit" /\ run[p].day \in Day
          /\ pairState' = MergeDay(pairState, run[p].found, run[p].day)
          /\ merges' = [merges EXCEPT ![run[p].day] = @ + 1]
      BY <2>2 DEF CommitDaily, Locked, Ours, Inv, TypeOK, IsRun, Running
    <3>2. merges \in [Day -> Nat] /\ pairState[q] \in Entry \cup {Absent}
      BY DEF Inv, TypeOK, PairStates
    <3>3. merges[run[p].day] = 0 /\ \A d \in Day : merges[d] <= 1
      <4>1. /\ merges[run[p].day] \in Nat /\ merges'[run[p].day] = merges[run[p].day] + 1
            /\ merges'[run[p].day] <= 1
        BY <2>2, <3>1, <3>2
      <4>2. \A d \in Day \ {run[p].day} : merges'[d] = merges[d]
        BY <3>1, <3>2
      <4> QED  BY <2>2, <4>1, <4>2
    <3>4. pairState[q] # Absent => pairState[q].days <= Cardinality(Span(merges, pairState[q]))
      BY <1>0, <3>3
    <3>5. CASE q \in run[p].found
      <4>1. pairState'[q] = Merged(pairState[q], run[p].day)
        BY <2>2, <3>1, <3>5 DEF MergeDay
      <4> QED  BY <3>1, <3>2, <3>3, <3>4, <4>1, MergedCounts
    <3>6. CASE q \notin run[p].found
      <4>1. pairState'[q] = pairState[q] /\ pairState[q] # Absent
        BY <2>2, <3>1, <3>6 DEF MergeDay
      <4>2. Span(merges, pairState[q]) \in SUBSET Span(merges', pairState[q])
        BY <3>1, <3>2, <3>3, SpanGrows
      <4>3. /\ Cardinality(Span(merges, pairState[q])) <= Cardinality(Span(merges', pairState[q]))
            /\ Cardinality(Span(merges, pairState[q])) \in Nat
            /\ Cardinality(Span(merges', pairState[q])) \in Nat
        BY <4>2, SpanFinite
      <4>4. pairState[q].days \in Nat
        BY <3>2, <4>1 DEF Entry
      <4> QED  BY <3>4, <4>1, <4>3, <4>4
    <3> QED  BY <3>5, <3>6
  <2>3. ASSUME NEW p \in Proc, CommitDaily(p)
        PROVE  DaysAreDistinct'
    BY <2>2, <2>3 DEF DaysAreDistinct, Span
  <2> QED  BY <2>1, <2>3, OnlyCommits
<1> QED  BY <1>1, <1>2, LockedInvariant, PTL DEF Spec

-----------------------------------------------------------------------------
(* The snapshots that the next day needs. *)

\* A run past its snapshot finds it there, and one past its verdict has one.
KeptFor(p) ==
    /\ stage[p] \in {"diff", "only", "merge", "commit", "create", "write", "append", "prune"} =>
          run[p].day \in snapshots
    /\ stage[p] \in {"create", "write", "append", "prune"} => signalRuns[run[p].day] # Absent

Kept == NextDayDiffs /\ \A p \in Proc : KeptFor(p)

LEMMA OthersKept ==
    ASSUME Inv, Locked, NEW p \in Proc, Running(p), Others(p)
    PROVE  \A q \in Proc \ {p} : KeptFor(q)'
BY Alone DEF Others, KeptFor

\* The days that a verdict and the retention keep for the next diff.
Needed(d) == /\ signalRuns[d] # Absent /\ signalRuns[d].status # "error"
             /\ \A e \in Day : signalRuns[e] # Absent => e - RetainDays <= d

LEMMA NeededDef == NextDayDiffs <=> \A d \in Day : Needed(d) => d \in snapshots
BY DEF NextDayDiffs, Needed

\* Steps that leave the verdicts alone and take no snapshot away.
LEMMA KeptGoto ==
    ASSUME Inv, Locked, Kept, NEW p \in Proc, Running(p), NEW next \in Stage,
           stage' = [stage EXCEPT ![p] = next], Others(p), run'[p].day = run[p].day,
           snapshots \subseteq snapshots', UNCHANGED signalRuns,
           next \in {"diff", "only", "merge", "commit", "create", "write", "append", "prune"} =>
              run[p].day \in snapshots',
           next \in {"create", "write", "append", "prune"} =>
              signalRuns[run[p].day] # Absent
    PROVE  Kept'
<1>1. stage'[p] = next
  BY DEF Inv, TypeOK
<1>2. NextDayDiffs'
  BY DEF Kept, NextDayDiffs
<1>3. KeptFor(p)'
  BY <1>1 DEF KeptFor
<1> QED  BY <1>2, <1>3, OthersKept DEF Kept

\* A verdict makes no other day needed.
LEMMA KeptVerdict ==
    ASSUME Inv, Kept, NEW day \in Day, NEW status, NEW prior, NEW count,
           SetRun(day, status, prior, count),
           [status |-> status, prior |-> prior, count |-> count] \in SignalRunRow,
           UNCHANGED snapshots, status # "error" => day \in snapshots
    PROVE  NextDayDiffs' /\ signalRuns'[day] # Absent
<1>1. /\ signalRuns'[day] = [status |-> status, prior |-> prior, count |-> count]
      /\ \A d \in Day \ {day} : signalRuns'[d] = signalRuns[d]
  BY DEF SetRun, Inv, TypeOK
<1>3. signalRuns'[day] # Absent
  BY <1>1, DailyJobAssumption
<1>2. ASSUME NEW d \in Day, Needed(d)'
      PROVE  d \in snapshots
  <2>1. CASE d = day
    BY <1>1, <1>2, <2>1 DEF Needed
  <2>2. CASE d # day
    <3>1. \A e \in Day : signalRuns[e] # Absent => signalRuns'[e] # Absent
      BY <1>1, <1>3
    <3>2. Needed(d)
      BY <1>1, <1>2, <2>2, <3>1 DEF Needed
    <3> QED  BY <3>2, NeededDef DEF Kept
  <2> QED  BY <2>1, <2>2
<1> QED  BY <1>2, <1>3 DEF NextDayDiffs, Needed

\* A run that prunes has a verdict of its own, so what it removes nobody needs.
LEMMA KeptPrune ==
    ASSUME Inv, Kept, NEW p \in Proc, stage[p] = "prune",
           Pruned(snapshots, run[p].day) \subseteq snapshots', UNCHANGED signalRuns
    PROVE  NextDayDiffs' /\ run[p].day \in snapshots'
<1>1. run[p].day \in Day /\ run[p].day \in snapshots /\ signalRuns[run[p].day] # Absent
  BY DEF Kept, KeptFor, Inv, TypeOK, IsRun, Running
<1>2. ASSUME NEW d \in Day, Needed(d)
      PROVE  d \in snapshots'
  <2>1. d \in snapshots /\ run[p].day - RetainDays <= d
    BY <1>1, <1>2, NeededDef DEF Kept, Needed
  <2>2. d >= run[p].day - RetainDays
    BY <1>1, <2>1, PairStateAssumption, DailyJobAssumption
  <2> QED  BY <2>1, <2>2 DEF Pruned
<1>3. run[p].day \in Pruned(snapshots, run[p].day)
  <2>1. run[p].day >= run[p].day - RetainDays
    <3>1. run[p].day \in Nat
      BY <1>1, PairStateAssumption
    <3> QED  BY <3>1, DailyJobAssumption
  <2> QED  BY <1>1, <2>1 DEF Pruned
<1> QED  BY <1>2, <1>3 DEF NextDayDiffs, Needed

LEMMA KeptInterrupted ==
    ASSUME Inv, Kept, NEW p \in Proc, Interrupted(p), UNCHANGED signalRuns
    PROVE  NextDayDiffs'
<1>1. CASE stage[p] = "prune"
  BY <1>1, KeptPrune DEF Interrupted
<1>2. CASE stage[p] # "prune"
  BY <1>2 DEF Interrupted, Kept, NextDayDiffs
<1> QED  BY <1>1, <1>2

LEMMA KeptRelease ==
    ASSUME Inv, Locked, NEW p \in Proc, Running(p), Release(p), NextDayDiffs'
    PROVE  Kept'
<1>1. stage'[p] = "idle" /\ Others(p)
  BY ReleaseLemma DEF Inv
<1>2. KeptFor(p)'
  BY <1>1 DEF KeptFor
<1> QED  BY <1>1, <1>2, OthersKept DEF Kept

LEMMA KeptStep ==
    ASSUME Inv, Locked, Kept, NEW p \in Proc, Step(p)
    PROVE  Kept'
<1>0. /\ Running(p) /\ IsRun(run[p]) /\ KeptFor(p) /\ run[p].day \in Day
      /\ DOMAIN run = Proc /\ DOMAIN stage = Proc /\ stage \in [Proc -> Stage]
  <2>1. Running(p)
    BY DEF Step, TakeSnapshot, Diff, CommitSnapshotOnly, MergePairState, CommitDaily,
           CreateSignalsFile, WriteSignalsFile, AppendInbox, Prune, MarkError, Running
  <2> QED  BY <2>1 DEF Kept, Inv, TypeOK, IsRun
<1>1. CASE TakeSnapshot(p)
  <2>1. Goto(p, "diff") /\ run' = run /\ stage[p] = "snapshot"
        /\ snapshots' = snapshots \cup {run[p].day} /\ UNCHANGED signalRuns
    BY <1>1 DEF TakeSnapshot, tables
  <2> QED  BY <1>0, <2>1, GotoLemma, KeptGoto DEF Goto, Stage, Inv
<1>2. CASE Diff(p)
  <2>1. stage[p] = "diff" /\ UNCHANGED <<snapshots, signalRuns>> /\ run[p].day \in snapshots
    BY <1>0, <1>2 DEF Diff, tables, KeptFor
  <2>2. CASE Goto(p, "only") /\ run' = run
    BY <1>0, <2>1, <2>2, GotoLemma, KeptGoto DEF Goto, Stage, Inv
  <2>3. ASSUME NEW prior, NEW found, Goto(p, "merge"),
               run' = [run EXCEPT ![p].prior = prior, ![p].found = found]
        PROVE  Kept'
    <3>1. run'[p] = [run[p] EXCEPT !.prior = prior, !.found = found]
      BY <1>0, <2>3
    <3>2. run'[p].day = run[p].day
      BY <1>0, <3>1 DEF IsRun
    <3>3. Others(p)
      BY <1>0, <2>3 DEF Others, Goto
    <3> QED  BY <1>0, <2>1, <2>3, <3>2, <3>3, KeptGoto DEF Goto, Stage
  <2> QED  BY <1>2, <2>2, <2>3 DEF Diff
<1>3. CASE CommitSnapshotOnly(p)
  <2>1. /\ stage[p] = "only" /\ SetRun(run[p].day, "snapshot_only", Absent, 0)
        /\ Goto(p, "prune") /\ run' = run /\ UNCHANGED snapshots /\ run[p].day \in snapshots
    BY <1>0, <1>3 DEF CommitSnapshotOnly, KeptFor
  <2>2. NextDayDiffs' /\ signalRuns'[run[p].day] # Absent
    <3>1. [status |-> "snapshot_only", prior |-> Absent, count |-> 0] \in SignalRunRow
      BY DEF SignalRunRow
    <3> QED  BY <1>0, <2>1, <3>1, KeptVerdict
  <2>3. Others(p) /\ stage'[p] = "prune"
    BY <2>1, GotoLemma DEF Inv, Stage
  <2> QED  BY <1>0, <2>1, <2>2, <2>3, OthersKept DEF Kept, KeptFor
<1>4. CASE MergePairState(p)
  <2>1. /\ stage[p] = "merge" /\ UNCHANGED <<snapshots, signalRuns>> /\ run[p].day \in snapshots
        /\ Goto(p, "commit")
    BY <1>0, <1>4 DEF MergePairState, tables, KeptFor
  <2>2. Others(p) /\ run'[p].day = run[p].day
    BY <1>4, MergeStep
  <2> QED  BY <1>0, <2>1, <2>2, KeptGoto DEF Goto, Stage
<1>5. CASE CommitDaily(p)
  <2>1. /\ stage[p] = "commit" /\ Goto(p, "create") /\ run' = run
        /\ SetRun(run[p].day, "ok", run[p].prior, Cardinality(DOMAIN run[p].signals))
        /\ UNCHANGED snapshots /\ run[p].day \in snapshots
    BY <1>0, <1>5 DEF CommitDaily, KeptFor
  <2>2. NextDayDiffs' /\ signalRuns'[run[p].day] # Absent
    <3>1. Cardinality(DOMAIN run[p].signals) \in Nat
      BY <1>0, PairStateAssumption, FS_Subset, FS_CardinalityType DEF IsRun, IsSignals
    <3>2. [status |-> "ok", prior |-> run[p].prior,
           count |-> Cardinality(DOMAIN run[p].signals)] \in SignalRunRow
      BY <1>0, <3>1 DEF SignalRunRow, IsRun
    <3> QED  BY <1>0, <2>1, <3>2, KeptVerdict
  <2>3. Others(p) /\ stage'[p] = "create"
    BY <2>1, GotoLemma DEF Inv, Stage
  <2> QED  BY <1>0, <2>1, <2>2, <2>3, OthersKept DEF Kept, KeptFor
<1>6. CASE CreateSignalsFile(p) \/ WriteSignalsFile(p) \/ AppendInbox(p)
  <2>1. PICK next \in {"write", "append", "prune"} : Goto(p, next)
    BY <1>6 DEF CreateSignalsFile, WriteSignalsFile, AppendInbox
  <2>2. /\ stage[p] \in {"create", "write", "append"} /\ run' = run
        /\ UNCHANGED <<snapshots, signalRuns>>
        /\ run[p].day \in snapshots /\ signalRuns[run[p].day] # Absent
    BY <1>0, <1>6 DEF CreateSignalsFile, WriteSignalsFile, AppendInbox, tables, KeptFor
  <2> QED  BY <1>0, <2>1, <2>2, GotoLemma, KeptGoto DEF Goto, Stage, Inv
<1>7. CASE Prune(p)
  <2>1. Release(p) /\ NextDayDiffs'
    BY <1>7, KeptPrune DEF Prune, tables
  <2> QED  BY <1>0, <2>1, KeptRelease
<1>8. CASE MarkError(p)
  <2>1. /\ Release(p) /\ UNCHANGED snapshots
        /\ SetRun(run[p].day, "error", Absent, 0) \/ UNCHANGED signalRuns
    BY <1>8 DEF MarkError
  <2>2. NextDayDiffs'
    <3>1. CASE SetRun(run[p].day, "error", Absent, 0)
      <4>1. [status |-> "error", prior |-> Absent, count |-> 0] \in SignalRunRow
        BY DEF SignalRunRow
      <4> QED  BY <1>0, <2>1, <3>1, <4>1, KeptVerdict
    <3>2. CASE UNCHANGED signalRuns
      BY <2>1, <3>2 DEF Kept, NextDayDiffs
    <3> QED  BY <2>1, <3>1, <3>2
  <2> QED  BY <1>0, <2>1, <2>2, KeptRelease
<1> QED  BY <1>1, <1>2, <1>3, <1>4, <1>5, <1>6, <1>7, <1>8 DEF Step

LEMMA KeptInvariant == ASSUME Wrapped PROVE Spec => [](Inv /\ Locked /\ Kept)
<1>1. Init => Kept
  BY DEF Init, Kept, KeptFor, NextDayDiffs
<1>2. Inv /\ Locked /\ Kept /\ [Next]_vars => Kept'
  <2> SUFFICES ASSUME Inv, Locked, Kept, [Next]_vars PROVE Kept'
    OBVIOUS
  <2>1. ASSUME NEW p \in Proc, NEW day \in Day, Start(p, day) PROVE Kept'
    <3> DEFINE next == IF FreshOrgMap THEN "snapshot" ELSE "mark"
    <3>1. /\ stage' = [stage EXCEPT ![p] = next] /\ UNCHANGED <<snapshots, signalRuns>>
          /\ lock = Absent
      BY <2>1 DEF Start, Goto, Acquire, tables
    <3>2. \A q \in Proc : stage[q] = "idle"
      BY <3>1, DailyJobAssumption DEF Locked, Ours, Running
    <3>3. /\ stage'[p] \in {"snapshot", "mark"}
          /\ \A q \in Proc \ {p} : stage'[q] = "idle"
      BY <3>1, <3>2 DEF Inv, TypeOK
    <3>4. \A q \in Proc : KeptFor(q)'
      BY <3>3 DEF KeptFor
    <3> QED  BY <3>1, <3>4 DEF Kept, NextDayDiffs
  <2>2. ASSUME NEW p \in Proc, Fail(p) PROVE Kept'
    <3>1. /\ Running(p) /\ Goto(p, "mark") /\ run' = run /\ Interrupted(p) /\ UNCHANGED signalRuns
      BY <2>2 DEF Fail, tables
    <3>2. NextDayDiffs'
      BY <3>1, KeptInterrupted
    <3>3. Others(p) /\ stage'[p] = "mark"
      BY <3>1, GotoLemma DEF Inv, Stage
    <3> QED  BY <3>1, <3>2, <3>3, OthersKept DEF Kept, KeptFor
  <2>3. ASSUME NEW p \in Proc, Die(p) PROVE Kept'
    <3>1. Running(p) /\ Release(p) /\ Interrupted(p) /\ UNCHANGED signalRuns
      BY <2>3 DEF Die, tables
    <3> QED  BY <3>1, KeptInterrupted, KeptRelease
  <2>4. CASE NextDay \/ RefreshOrgMap \/ UNCHANGED vars
    <3>1. UNCHANGED <<snapshots, signalRuns, stage, run>>
      BY <2>4 DEF NextDay, RefreshOrgMap, vars, tables
    <3> QED  BY <3>1 DEF Kept, KeptFor, NextDayDiffs
  <2> QED  BY <2>1, <2>2, <2>3, <2>4, KeptStep DEF Next
<1> QED  BY <1>1, <1>2, LockedInvariant, PTL DEF Spec

\* Under the lock, and whatever fails, a day with a verdict stays there for the next diff.
THEOREM NextDayCorrect == ASSUME Wrapped PROVE Spec => []NextDayDiffs
<1>1. Kept => NextDayDiffs
  BY DEF Kept
<1> QED  BY <1>1, KeptInvariant, PTL

-----------------------------------------------------------------------------
(* Runs in calendar order. *)

Published == {d \in Day : merges[d] > 0}

\* A snapshot at least as new as every published day, older than day n.
Covered(n) == \A d \in Published : \E s \in snapshots : d <= s /\ s < n

\* A run's day is at least as new as every published day; as long as it is not published
\* itself, its diff will find a prior that is, and has found it after Diff.
InOrderFor(p) ==
    Running(p) =>
        /\ run[p].day <= today
        /\ \A d \in Published : d <= run[p].day
        /\ stage[p] \in {"create", "write", "append"} => merges[run[p].day] > 0
        /\ merges[run[p].day] = 0 =>
              /\ stage[p] \in {"snapshot", "diff"} => Covered(run[p].day)
              /\ stage[p] \in {"only", "prune"} => Published = {}
              /\ stage[p] \in {"merge", "commit"} => \A d \in Published : d <= run[p].prior

InOrder ==
    /\ Covered(today + 1)
    /\ merges[today] = 0 => Covered(today)
    /\ \A d \in Published : d <= today
    /\ \A p \in Proc : InOrderFor(p)

Tiled == DiffsTile /\ InOrder

LEMMA OthersInOrder ==
    ASSUME Inv, Locked, NEW p \in Proc, Running(p), Others(p)
    PROVE  \A q \in Proc \ {p} : InOrderFor(q)'
BY Alone DEF Others, InOrderFor, Running

\* What only depends on the rows and the history.
LEMMA TiledSame ==
    ASSUME UNCHANGED <<contact, merges>>
    PROVE  Published' = Published /\ (DiffsTile => DiffsTile')
BY DEF Published, DiffsTile

\* More snapshots cover more.
LEMMA CoveredMore ==
    ASSUME snapshots \subseteq snapshots', UNCHANGED merges, NEW n, Covered(n)
    PROVE  \A d \in Published' : \E s \in snapshots' : d <= s /\ s < n
BY DEF Covered, Published

\* Steps that publish nothing and lose no snapshot.
LEMMA TiledGoto ==
    ASSUME Inv, Locked, Tiled, NEW p \in Proc, Running(p), NEW next \in Stage,
           stage' = [stage EXCEPT ![p] = next], Others(p), run'[p].day = run[p].day,
           snapshots \subseteq snapshots', UNCHANGED <<contact, merges, today>>,
           next # "snapshot",
           next = "diff" => stage[p] = "snapshot",
           next \in {"only", "prune"} /\ merges[run[p].day] = 0 => Published = {},
           next \in {"create", "write", "append"} => merges[run[p].day] > 0,
           next \in {"merge", "commit"} /\ merges[run[p].day] = 0 =>
              \A d \in Published : d <= run'[p].prior
    PROVE  Tiled'
<1>1. stage'[p] = next
  BY DEF Inv, TypeOK
<1>2. DiffsTile' /\ Published' = Published
  BY TiledSame DEF Tiled
<1>3. \A n \in Int : Covered(n) => Covered(n)'
  BY CoveredMore DEF Covered
<1>4. today \in Int /\ today + 1 \in Int /\ run[p].day \in Int
  <2>1. today \in Day /\ run[p].day \in Day
    BY DEF Inv, TypeOK, IsRun
  <2>2. \A d \in Day : d \in Int /\ d + 1 \in Int
    BY PairStateAssumption
  <2> QED  BY <2>1, <2>2
<1>5. InOrderFor(p)'
  <2>1. InOrderFor(p) /\ run[p].day \in Day
    BY DEF Tiled, InOrder, Inv, TypeOK, IsRun
  <2>2. PICK day \in Int : day = run[p].day
    BY <1>4
  <2>3. next = "diff" /\ merges[day] = 0 => Covered(day)'
    BY <1>3, <2>1, <2>2 DEF InOrderFor
  <2>4. Covered(run[p].day)' <=> Covered(day)'
    BY <2>2 DEF Covered
  <2> QED  BY <1>1, <1>2, <2>1, <2>2, <2>3, <2>4 DEF InOrderFor, Running
<1>6. /\ Covered(today + 1)' /\ (merges'[today'] = 0 => Covered(today)')
      /\ \A d \in Published' : d <= today'
  <2>1. Covered(today + 1) /\ (merges[today] = 0 => Covered(today))
        /\ \A d \in Published : d <= today
    BY DEF Tiled, InOrder
  <2> QED  BY <1>2, <1>3, <1>4, <2>1, CoveredMore DEF Covered
<1> QED  BY <1>2, <1>5, <1>6, OthersInOrder DEF Tiled, InOrder

\* A run that prunes keeps its own snapshot, which is as new as every published day.
LEMMA TiledPrune ==
    ASSUME Inv, Locked, Kept, Tiled, NEW p \in Proc, Running(p),
           Pruned(snapshots, run[p].day) \subseteq snapshots',
           stage[p] = "prune" \/ snapshots' = snapshots,
           stage[p] = "prune" => UNCHANGED signalRuns,
           UNCHANGED <<contact, merges, today>>
    PROVE  /\ DiffsTile' /\ Published' = Published
           /\ Covered(today + 1)' /\ (merges'[today'] = 0 => Covered(today)')
           /\ \A d \in Published' : d <= today'
<1>1. DiffsTile' /\ Published' = Published
  BY TiledSame DEF Tiled
<1>2. /\ Covered(today + 1) /\ (merges[today] = 0 => Covered(today))
      /\ \A d \in Published : d <= today
      /\ InOrderFor(p) /\ run[p].day \in Day /\ today \in Day
      /\ \A d \in Day : d \in Nat
  BY PairStateAssumption DEF Tiled, InOrder, Inv, TypeOK, IsRun
<1>3. CASE stage[p] = "prune"
  <2>1. run[p].day \in snapshots'
    BY <1>3, KeptPrune
  <2>2. run[p].day <= today /\ \A d \in Published : d <= run[p].day
    BY <1>2 DEF InOrderFor
  <2>3. Covered(today + 1)'
    BY <1>1, <1>2, <2>1, <2>2 DEF Covered
  <2>4. ASSUME merges[today] = 0 PROVE Covered(today)'
    <3>1. CASE run[p].day = today
      BY <1>1, <1>2, <1>3, <2>4, <3>1 DEF InOrderFor, Covered
    <3>2. CASE run[p].day # today
      BY <1>1, <1>2, <2>1, <2>2, <3>2 DEF Covered
    <3> QED  BY <3>1, <3>2
  <2> QED  BY <1>1, <1>2, <2>3, <2>4
<1>4. CASE stage[p] # "prune"
  BY <1>1, <1>2, <1>4 DEF Covered
<1> QED  BY <1>1, <1>3, <1>4

LEMMA TiledRelease ==
    ASSUME Inv, Locked, Kept, Tiled, NEW p \in Proc, Running(p), Release(p),
           Pruned(snapshots, run[p].day) \subseteq snapshots',
           stage[p] = "prune" \/ snapshots' = snapshots,
           stage[p] = "prune" => UNCHANGED signalRuns,
           UNCHANGED <<contact, merges, today>>
    PROVE  Tiled'
<1>1. stage'[p] = "idle" /\ Others(p)
  BY ReleaseLemma DEF Inv
<1>2. InOrderFor(p)'
  BY <1>1 DEF InOrderFor, Running
<1> QED  BY <1>1, <1>2, TiledPrune, OthersInOrder DEF Tiled, InOrder

LEMMA TiledCommit ==
    ASSUME Inv, Locked, Kept, Tiled, NEW p \in Proc, CommitDaily(p)
    PROVE  Tiled'
<1>1. PICK day : day = run[p].day
  OBVIOUS
<1>2. /\ stage[p] = "commit" /\ Running(p) /\ IsRun(run[p]) /\ day \in Day
      /\ contact' = [contact EXCEPT ![day] = run[p].signals]
      /\ merges' = [merges EXCEPT ![day] = @ + 1]
      /\ Goto(p, "create") /\ run' = run /\ UNCHANGED <<snapshots, today>>
      /\ InOrderFor(p) /\ day \in snapshots
      /\ merges \in [Day -> Nat] /\ DOMAIN contact = Day /\ today \in Day
      /\ \A d \in Day : d \in Nat
  BY <1>1, PairStateAssumption
     DEF CommitDaily, Running, Inv, TypeOK, IsRun, Tiled, InOrder, Kept, KeptFor, calendar
<1>3. Others(p) /\ stage'[p] = "create"
  BY <1>2, GotoLemma DEF Inv, Stage
<1>4. /\ day <= today /\ \A d \in Published : d <= day
      /\ merges[day] = 0 => \A d \in Published : d <= run[p].prior
  BY <1>1, <1>2 DEF InOrderFor
<1>5. /\ merges'[day] = merges[day] + 1 /\ merges'[day] > 0
      /\ contact'[day] = run[p].signals
      /\ \A d \in Day \ {day} : merges'[d] = merges[d] /\ contact'[d] = contact[d]
      /\ Published' = Published \cup {day}
  <2>1. /\ merges'[day] = merges[day] + 1 /\ merges'[day] > 0
        /\ contact'[day] = run[p].signals
        /\ \A d \in Day \ {day} : merges'[d] = merges[d] /\ contact'[d] = contact[d]
    BY <1>2
  <2> QED  BY <1>2, <2>1 DEF Published
<1>6. DiffsTile'
  <2> SUFFICES ASSUME NEW d \in Day, NEW e \in Day, d < e, merges'[d] > 0, merges'[e] = 1,
                      NEW q \in DOMAIN contact'[e]
               PROVE  contact'[e][q].prior >= d
    BY DEF DiffsTile
  <2>1. d \in Published' /\ e \in Published'
    BY DEF Published
  <2>2. CASE e = day
    <3>1. merges[day] = 0 /\ d \in Published
      BY <1>2, <1>5, <2>1, <2>2
    <3>2. q \in DOMAIN run[p].signals /\ run[p].signals[q].prior = run[p].prior
      <4>1. run[p].signals = BuildSignals(run[p].found, run[p].prior, run[p].map, run[p].merged)
        BY <1>2 DEF Inv, Holding
      <4> QED  BY <1>5, <2>2, <4>1 DEF BuildSignals
    <3>3. d <= run[p].prior /\ d \in Nat /\ run[p].prior \in Nat
      BY <1>2, <1>4, <3>1 DEF Inv, Holding
    <3> QED  BY <1>5, <2>2, <3>2, <3>3
  <2>3. CASE e # day
    <3>1. e <= day /\ merges[e] = 1 /\ contact'[e] = contact[e]
      BY <1>4, <1>5, <2>1, <2>3
    <3>2. d # day
      BY <1>2, <3>1
    <3>3. merges[d] > 0
      BY <1>5, <3>2
    <3> QED  BY <3>1, <3>3 DEF Tiled, DiffsTile
  <2> QED  BY <2>2, <2>3
<1>7. Covered(today + 1)' /\ (merges'[today'] = 0 => Covered(today)')
      /\ \A d \in Published' : d <= today'
  <2>1. \A d \in Published' : d <= day /\ d \in Nat
    BY <1>2, <1>4, <1>5 DEF Published
  <2>2. Covered(today + 1)'
    BY <1>2, <1>4, <2>1 DEF Covered
  <2>3. ASSUME merges'[today'] = 0 PROVE Covered(today)'
    <3>1. day # today
      BY <1>2, <1>5, <2>3
    <3> QED  BY <1>2, <1>4, <2>1, <3>1 DEF Covered
  <2> QED  BY <1>2, <1>4, <2>1, <2>2, <2>3
<1>8. InOrderFor(p)'
  <2>1. \A d \in Published' : d <= day
    BY <1>2, <1>4, <1>5
  <2> QED  BY <1>1, <1>2, <1>3, <1>4, <1>5, <2>1 DEF InOrderFor
<1> QED  BY <1>2, <1>3, <1>6, <1>7, <1>8, OthersInOrder DEF Tiled, InOrder

LEMMA TiledStart ==
    ASSUME Inv, Locked, Tiled, Wrapped, ~Backfill, NEW p \in Proc, NEW day \in Day, Start(p, day)
    PROVE  Tiled'
<1> DEFINE next == IF FreshOrgMap THEN "snapshot" ELSE "mark"
<1>1. /\ stage' = [stage EXCEPT ![p] = next] /\ UNCHANGED <<snapshots, contact, merges, today>>
      /\ lock = Absent /\ day = today
      /\ run' = [run EXCEPT ![p] = [day |-> day, map |-> mapDay, prior |-> Absent, found |-> {},
                                    merged |-> NoPairs, signals |-> Nothing]]
  BY DEF Start, Goto, Acquire, tables, calendar
<1>2. \A q \in Proc : stage[q] = "idle"
  BY <1>1, DailyJobAssumption DEF Locked, Ours, Running
<1>3. /\ stage'[p] \in {"snapshot", "mark"} /\ run'[p].day = today
      /\ \A q \in Proc \ {p} : stage'[q] = "idle"
  BY <1>1, <1>2 DEF Inv, TypeOK
<1>4. DiffsTile' /\ Published' = Published
  BY <1>1, TiledSame DEF Tiled
<1>5. /\ Covered(today + 1)' /\ (merges'[today'] = 0 => Covered(today)')
      /\ \A d \in Published' : d <= today'
  BY <1>1, <1>4 DEF Tiled, InOrder, Covered
<1>6. InOrderFor(p)'
  <2>1. Covered(run[p].day)' <=> Covered(today)'
    BY <1>1, <1>3 DEF Covered
  <2>2. run'[p].day <= today'
    BY <1>1, <1>3, PairStateAssumption DEF Inv, TypeOK
  <2> QED  BY <1>1, <1>3, <1>4, <1>5, <2>1, <2>2 DEF InOrderFor
<1>7. \A q \in Proc \ {p} : InOrderFor(q)'
  BY <1>3 DEF InOrderFor, Running
<1> QED  BY <1>4, <1>5, <1>6, <1>7 DEF Tiled, InOrder

\* Midnight: what covered the published days up to and with today covers them now.
LEMMA TiledBeside ==
    ASSUME Inv, Tiled, NextDay \/ RefreshOrgMap \/ UNCHANGED vars
    PROVE  Tiled'
<1>1. /\ UNCHANGED <<snapshots, contact, merges, stage, run>>
      /\ today' = today \/ today' = today + 1
  BY DEF NextDay, RefreshOrgMap, vars, tables
<1>2. DiffsTile' /\ Published' = Published
  BY <1>1, TiledSame DEF Tiled
<1>3. today \in Nat /\ (\A d \in Day : d \in Nat) /\ Published \subseteq Day
      /\ snapshots \subseteq Day
  BY PairStateAssumption DEF Inv, TypeOK, Published
<1>4. /\ Covered(today + 1) /\ (merges[today] = 0 => Covered(today))
      /\ \A d \in Published : d <= today
  BY DEF Tiled, InOrder
<1>5. /\ Covered(today + 1)' /\ (merges'[today'] = 0 => Covered(today)')
      /\ \A d \in Published' : d <= today'
  <2>1. CASE today' = today
    BY <1>1, <1>2, <1>4, <2>1 DEF Covered
  <2>2. CASE today' = today + 1
    <3>1. \A d \in Published : d <= today + 1
      BY <1>3, <1>4
    <3>2. \A d \in Published : \E s \in snapshots : d <= s /\ s < today + 1 /\ s < today + 1 + 1
      BY <1>3, <1>4 DEF Covered
    <3> QED  BY <1>1, <1>2, <2>2, <3>1, <3>2 DEF Covered
  <2> QED  BY <1>1, <2>1, <2>2
<1>6. ASSUME NEW p \in Proc PROVE InOrderFor(p)'
  <2>1. InOrderFor(p) /\ (Running(p) => run[p].day \in Nat)
    BY <1>3 DEF Tiled, InOrder, Inv, TypeOK, IsRun
  <2>2. Running(p) /\ run[p].day <= today => run[p].day <= today'
    BY <1>1, <1>3, <2>1
  <2>3. Covered(run[p].day)' <=> Covered(run[p].day)
    BY <1>1, <1>2 DEF Covered
  <2> QED  BY <1>1, <1>2, <2>1, <2>2, <2>3 DEF InOrderFor, Running
<1> QED  BY <1>2, <1>5, <1>6 DEF Tiled, InOrder

\* find_prior_snapshot finds one where there is one.
LEMMA NewestExists ==
    ASSUME NEW kept \in SUBSET Day, NEW day \in Day, \E s \in kept : s < day
    PROVE  NewestBefore(kept, day) # {}
<1> DEFINE ages == {n \in Nat : day - n \in kept /\ n > 0}
           less == OpToRel(<, Nat)
<1>1. \A d \in Day : d \in Nat
  BY PairStateAssumption
<1>2. ages # {}
  <2>1. PICK s \in kept : s < day
    OBVIOUS
  <2>2. day - s \in Nat /\ day - (day - s) = s /\ day - s > 0
    BY <1>1, <2>1
  <2> QED  BY <2>1, <2>2
<1>3. PICK n \in ages : \A m \in ages : ~(<<m, n>> \in less)
  <2> HIDE DEF ages
  <2>1. ages \subseteq Nat
    BY DEF ages
  <2> QED  BY <1>2, <2>1, NatLessThanWellFounded, WFMin
<1>4. \A m \in ages : n <= m
  <2> SUFFICES ASSUME NEW m \in ages, m < n PROVE FALSE
    OBVIOUS
  <2>1. <<m, n>> \in less
    BY DEF OpToRel
  <2> QED  BY <1>3, <2>1
<1>5. \A e \in kept : e < day => e <= day - n
  <2> SUFFICES ASSUME NEW e \in kept, e < day PROVE e <= day - n
    OBVIOUS
  <2>1. day - e \in Nat /\ day - (day - e) = e /\ day - e > 0
    BY <1>1
  <2>2. n <= day - e
    BY <1>4, <2>1
  <2> QED  BY <1>1, <2>2
<1>6. day - n \in kept /\ day - n < day
  BY <1>1
<1> QED  BY <1>5, <1>6 DEF NewestBefore

LEMMA TiledStep ==
    ASSUME Inv, Locked, Kept, Tiled, NEW p \in Proc, Step(p)
    PROVE  Tiled'
<1>0. /\ Running(p) /\ IsRun(run[p]) /\ InOrderFor(p) /\ run[p].day \in Day
      /\ DOMAIN run = Proc /\ stage \in [Proc -> Stage]
      /\ \A d \in Published : d <= run[p].day
      /\ Published \subseteq Day /\ snapshots \subseteq Day /\ \A d \in Day : d \in Nat
  <2>1. Running(p)
    BY DEF Step, TakeSnapshot, Diff, CommitSnapshotOnly, MergePairState, CommitDaily,
           CreateSignalsFile, WriteSignalsFile, AppendInbox, Prune, MarkError, Running
  <2>2. InOrderFor(p)
    BY DEF Tiled, InOrder
  <2> QED  BY <2>1, <2>2, PairStateAssumption DEF Inv, TypeOK, IsRun, InOrderFor, Published
<1>1. CASE TakeSnapshot(p)
  <2>1. /\ Goto(p, "diff") /\ run' = run /\ stage[p] = "snapshot"
        /\ snapshots \subseteq snapshots' /\ UNCHANGED <<contact, merges, today>>
    BY <1>1 DEF TakeSnapshot, tables, calendar
  <2> QED  BY <1>0, <2>1, GotoLemma, TiledGoto DEF Goto, Stage, Inv
<1>2. CASE Diff(p)
  <2>1. stage[p] = "diff" /\ UNCHANGED <<snapshots, contact, merges, today>>
    BY <1>2 DEF Diff, tables, calendar
  <2>2. merges[run[p].day] = 0 => Covered(run[p].day)
    BY <1>0, <2>1 DEF InOrderFor
  <2>3. CASE NewestBefore(snapshots, run[p].day) = {} /\ Goto(p, "only") /\ run' = run
    <3>1. ASSUME merges[run[p].day] = 0, NEW d \in Published PROVE FALSE
      <4>1. \E s \in snapshots : s < run[p].day
        BY <2>2, <3>1 DEF Covered
      <4> QED  BY <1>0, <2>3, <4>1, NewestExists
    <3>2. merges[run[p].day] = 0 => Published = {}
      BY <3>1
    <3> QED  BY <1>0, <2>1, <2>3, <3>2, GotoLemma, TiledGoto DEF Goto, Stage, Inv
  <2>4. ASSUME NEW prior \in NewestBefore(snapshots, run[p].day), NEW found, Goto(p, "merge"),
               run' = [run EXCEPT ![p].prior = prior, ![p].found = found]
        PROVE  Tiled'
    <3>1. run'[p] = [run[p] EXCEPT !.prior = prior, !.found = found]
      BY <1>0, <2>4
    <3>2. run'[p].day = run[p].day /\ run'[p].prior = prior
      BY <1>0, <3>1 DEF IsRun
    <3>3. Others(p)
      BY <1>0, <2>4 DEF Others, Goto
    <3>4. ASSUME merges[run[p].day] = 0, NEW d \in Published PROVE d <= prior
      <4>1. PICK s \in snapshots : d <= s /\ s < run[p].day
        BY <2>2, <3>4 DEF Covered
      <4>2. s <= prior /\ prior \in Day
        BY <1>0, <2>4, <4>1 DEF NewestBefore
      <4>3. d \in Nat /\ s \in Nat /\ prior \in Nat
        BY <1>0, <4>2
      <4> QED  BY <4>1, <4>2, <4>3
    <3> QED  BY <1>0, <2>1, <2>4, <3>2, <3>3, <3>4, TiledGoto DEF Goto, Stage
  <2> QED  BY <1>2, <2>3, <2>4 DEF Diff
<1>3. CASE CommitSnapshotOnly(p)
  <2>1. /\ stage[p] = "only" /\ Goto(p, "prune") /\ run' = run
        /\ UNCHANGED <<snapshots, contact, merges, today>>
    BY <1>3 DEF CommitSnapshotOnly, calendar
  <2>2. merges[run[p].day] = 0 => Published = {}
    BY <1>0, <2>1 DEF InOrderFor
  <2> QED  BY <1>0, <2>1, <2>2, GotoLemma, TiledGoto DEF Goto, Stage, Inv
<1>4. CASE MergePairState(p)
  <2>1. /\ stage[p] = "merge" /\ Goto(p, "commit") /\ UNCHANGED <<snapshots, contact, merges, today>>
        /\ merges[run[p].day] = 0 => \A d \in Published : d <= run[p].prior
    BY <1>0, <1>4 DEF MergePairState, tables, calendar, InOrderFor
  <2>2. Others(p) /\ run'[p].day = run[p].day
    BY <1>4, MergeStep
  <2>3. run'[p].prior = run[p].prior
    <3> DEFINE merged == MergeDay(pairState, run[p].found, run[p].day)
               signals == BuildSignals(run[p].found, run[p].prior, run[p].map, merged)
    <3>1. run'[p] = [run[p] EXCEPT !.merged = merged, !.signals = signals]
      BY <1>0, <1>4 DEF MergePairState
    <3>2. DOMAIN run[p] = {"day", "map", "prior", "found", "merged", "signals"}
      BY <1>0 DEF IsRun
    <3> HIDE DEF merged, signals
    <3> QED  BY <3>1, <3>2
  <2> QED  BY <1>0, <2>1, <2>2, <2>3, TiledGoto DEF Goto, Stage
<1>5. CASE CommitDaily(p)
  BY <1>5, TiledCommit
<1>6. CASE CreateSignalsFile(p) \/ WriteSignalsFile(p) \/ AppendInbox(p)
  <2>1. PICK next \in {"write", "append", "prune"} : Goto(p, next)
    BY <1>6 DEF CreateSignalsFile, WriteSignalsFile, AppendInbox
  <2>2. /\ stage[p] \in {"create", "write", "append"} /\ run' = run
        /\ UNCHANGED <<snapshots, contact, merges, today>>
    BY <1>6 DEF CreateSignalsFile, WriteSignalsFile, AppendInbox, tables, calendar
  <2>3. merges[run[p].day] > 0 /\ merges[run[p].day] \in Nat
    BY <1>0, <2>2 DEF InOrderFor, Inv, TypeOK
  <2>4. Others(p) /\ run'[p].day = run[p].day /\ stage' = [stage EXCEPT ![p] = next]
        /\ next \in Stage /\ merges[run[p].day] # 0
    <3>1. next \in Stage /\ TypeOK
      BY DEF Inv, Stage
    <3>2. Others(p) /\ run'[p] = run[p]
      BY <2>1, <2>2, <3>1, GotoLemma
    <3>3. merges[run[p].day] # 0
      BY <2>3
    <3> QED  BY <2>1, <3>1, <3>2, <3>3 DEF Goto
  <2> QED  BY <1>0, <2>1, <2>2, <2>3, <2>4, TiledGoto
<1>7. CASE Prune(p)
  BY <1>0, <1>7, TiledRelease DEF Prune, tables, calendar
<1>8. CASE MarkError(p)
  <2>1. Release(p) /\ UNCHANGED <<snapshots, contact, merges, today>> /\ stage[p] # "prune"
    BY <1>8 DEF MarkError, calendar
  <2>2. Pruned(snapshots, run[p].day) \subseteq snapshots'
    BY <2>1 DEF Pruned
  <2> QED  BY <1>0, <2>1, <2>2, TiledRelease
<1> QED  BY <1>1, <1>2, <1>3, <1>4, <1>5, <1>6, <1>7, <1>8 DEF Step

LEMMA TiledFault ==
    ASSUME Inv, Locked, Kept, Tiled, NEW p \in Proc, Fail(p) \/ Die(p)
    PROVE  Tiled'
<1>1. /\ Running(p) /\ Interrupted(p) /\ UNCHANGED <<signalRuns, contact, merges, today>>
      /\ Release(p) \/ (Goto(p, "mark") /\ run' = run)
  BY DEF Fail, Die, tables, calendar
<1>2. /\ Pruned(snapshots, run[p].day) \subseteq snapshots'
      /\ stage[p] = "prune" \/ snapshots' = snapshots
  BY <1>1 DEF Interrupted, Pruned
<1>3. CASE Release(p)
  BY <1>1, <1>2, <1>3, TiledRelease
<1>4. CASE Goto(p, "mark") /\ run' = run
  <2>1. Others(p) /\ stage'[p] = "mark" /\ run'[p] = run[p]
    BY <1>4, GotoLemma DEF Inv, Stage
  <2>2. /\ DiffsTile' /\ Published' = Published
        /\ Covered(today + 1)' /\ (merges'[today'] = 0 => Covered(today)')
        /\ \A d \in Published' : d <= today'
    BY <1>1, <1>2, TiledPrune
  <2>3. InOrderFor(p)
    BY DEF Tiled, InOrder
  <2>4. InOrderFor(p)'
    BY <1>1, <2>1, <2>2, <2>3 DEF InOrderFor, Running
  <2> QED  BY <1>1, <2>1, <2>2, <2>4, OthersInOrder DEF Tiled, InOrder
<1> QED  BY <1>1, <1>3, <1>4

\* Runs of the timer, never of an earlier day, report no move on two days.
THEOREM TilesCorrect == ASSUME Wrapped, ~Backfill PROVE Spec => []DiffsTile
<1>1. Init => Tiled
  <2> SUFFICES ASSUME Init PROVE Tiled
    OBVIOUS
  <2>1. (\A d \in Day : merges[d] = 0) /\ \A p \in Proc : ~Running(p)
    BY DEF Init, Running
  <2>2. Published = {}
    BY <2>1 DEF Published
  <2> QED  BY <2>1, <2>2 DEF Tiled, DiffsTile, InOrder, InOrderFor, Covered
<1>2. Inv /\ Locked /\ Kept /\ Tiled /\ [Next]_vars => Tiled'
  BY TiledStart, TiledStep, TiledFault, TiledBeside DEF Next
<1>3. Tiled => DiffsTile
  BY DEF Tiled
<1> QED  BY <1>1, <1>2, <1>3, KeptInvariant, PTL DEF Spec
=============================================================================
