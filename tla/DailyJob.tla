------------------------------ MODULE DailyJob ------------------------------
(***************************************************************************)
(* The daily job: run_daily (crates/bgp-analyzer-cli/src/commands/daily.rs) *)
(* under the wrapper scripts/run-daily-signals.sh, step by step, with the  *)
(* weekly org-map refresh and the UTC calendar beside it.                  *)
(*                                                                         *)
(* A run reads and writes the work database (contact, signalRuns,          *)
(* pairState: the transactions of WorkDb, seen through its readers), the   *)
(* snapshots directory and the signals directory; between two of its steps *)
(* another run, a refresh or midnight may come, and at any step it may     *)
(* fail (an Err: run_daily marks the day) or die (a panic, a kill, the     *)
(* unit's TimeoutStartSec: nothing is marked).                             *)
(***************************************************************************)
EXTENDS PairState

CONSTANTS
    Proc,          \* processes that may run the job: the timer's, an operator's
    Wrapped,       \* runs go through the wrapper (its lock and its seed check)
    Backfill,      \* runs may pass --date with an earlier day
    RetainDays,    \* --retain-days
    Torn,          \* a file created, and not yet written
    MaxAge,        \* --org-map-max-age-days
    MaxRuns,       \* bound: runs started
    MaxFailures    \* bound: runs that fail or die

VARIABLES
    today,         \* the UTC date
    mapDay,        \* the day the latest org-map crawl finished, or Absent
    snapshots,     \* days with a rib-DAY.json in the snapshots directory
    contact,       \* day -> live network_contact rows of the day
    signalRuns,    \* day -> the day's row of signal_runs, or Absent
    pairState,     \* pair -> rolling entry, or Absent
    files,         \* day -> signals-DAY.jsonl: its rows, Torn, or Absent
    inbox,         \* day -> batches appended to inbox.jsonl for it
    lock,          \* the process holding the wrapper's lock, or Absent
    stage,         \* process -> what its run does next, or "idle"
    run,           \* process -> what its run holds in memory, or Absent
    starts,        \* runs started so far
    failures,      \* runs failed or dead so far
    merges         \* history: day -> commit_daily transactions of that day

calendar == <<today, mapDay>>
tables == <<contact, signalRuns, pairState, merges>>
copies == <<files, inbox>>
vars == <<today, mapDay, snapshots, contact, signalRuns, pairState, files, inbox,
          lock, stage, run, starts, failures, merges>>

\* A row of signal_runs.
SignalRunRow == [status : {"ok", "snapshot_only", "error"}, prior : Day \cup {Absent},
                 count : Nat]

ASSUME DailyJobAssumption ==
    /\ Wrapped \in BOOLEAN /\ Backfill \in BOOLEAN
    /\ RetainDays \in Nat /\ MaxAge \in Nat
    /\ MaxRuns \in Nat /\ MaxFailures \in Nat
    /\ Absent \notin Proc /\ Absent \notin Day /\ Absent \notin SignalRunRow

Nothing == [p \in {} |-> Absent]
Stage == {"snapshot", "diff", "only", "merge", "commit", "create", "write", "append",
          "prune", "mark", "idle"}

Running(p) == stage[p] # "idle"

Init ==
    /\ today \in Day /\ \A d \in Day : today <= d
    /\ mapDay = Absent
    /\ snapshots = {}
    /\ contact = [d \in Day |-> Nothing]
    /\ signalRuns = [d \in Day |-> Absent]
    /\ pairState = NoPairs
    /\ files = [d \in Day |-> Absent]
    /\ inbox = [d \in Day |-> 0]
    /\ lock = Absent
    /\ stage = [p \in Proc |-> "idle"]
    /\ run = [p \in Proc |-> Absent]
    /\ starts = 0 /\ failures = 0
    /\ merges = [d \in Day |-> 0]

-----------------------------------------------------------------------------
(* Beside the job: midnight, and bgp-org-map.service, which has its own lock. *)

NextDay ==
    /\ today + 1 \in Day
    /\ today' = today + 1
    /\ UNCHANGED <<mapDay, snapshots, tables, copies, lock, stage, run, starts, failures>>

RefreshOrgMap ==
    /\ mapDay # today
    /\ mapDay' = today
    /\ UNCHANGED <<today, snapshots, tables, copies, lock, stage, run, starts, failures>>

-----------------------------------------------------------------------------
(* A run. *)

Goto(p, next) == stage' = [stage EXCEPT ![p] = next]

\* Mutant: a lock file that outlives the process that made it.
LeakedRelease(p) ==
    /\ Goto(p, "idle")
    /\ run' = [run EXCEPT ![p] = Absent]
    /\ UNCHANGED lock

\* The run is over; flock goes with the process.
Release(p) ==
    /\ Goto(p, "idle")
    /\ run' = [run EXCEPT ![p] = Absent]
    /\ lock' = IF lock = p THEN Absent ELSE lock

\* Mutant: a wrapper that does not try the lock.
UnlockedAcquire(p) == lock' = IF Wrapped THEN p ELSE lock

\* acquire_lock: flock -n, or exit 1.
Acquire(p) ==
    IF Wrapped THEN lock = Absent /\ lock' = p ELSE UNCHANGED lock

\* require_fresh_org_map: a crawl has finished, at most MaxAge days ago.
FreshOrgMap == mapDay # Absent /\ today - mapDay <= MaxAge

\* The wrapper's seed check and lock, WorkDb::open, and the fresh org map.
Start(p, day) ==
    /\ ~Running(p)
    /\ starts < MaxRuns
    /\ day = today \/ (Backfill /\ day < today)
    /\ Wrapped => mapDay # Absent                     \* else exit 0
    /\ Acquire(p)
    /\ Goto(p, IF FreshOrgMap THEN "snapshot" ELSE "mark")
    /\ run' = [run EXCEPT ![p] = [day |-> day, map |-> mapDay, prior |-> Absent,
                                  found |-> {}, merged |-> NoPairs, signals |-> Nothing]]
    /\ starts' = starts + 1
    /\ UNCHANGED <<calendar, snapshots, tables, copies, failures>>

\* Reuse today's snapshot or build one, focus it, save it (tmp + rename).
TakeSnapshot(p) ==
    /\ stage[p] = "snapshot"
    /\ snapshots' = snapshots \cup {run[p].day}
    /\ Goto(p, "diff")
    /\ UNCHANGED <<calendar, tables, copies, lock, run, starts, failures>>

\* Mutants: find_prior_snapshot with its comparison turned around, and the day
\* before, whether or not its file is there.
OldestBefore(kept, day) ==
    {d \in kept : d < day /\ \A e \in kept : e < day => d <= e}
Yesterday(kept, day) == {day - 1}

\* find_prior_snapshot: the newest snapshot before `day`, if there is one.
NewestBefore(kept, day) ==
    {d \in kept : d < day /\ \A e \in kept : e < day => e <= d}

\* find_prior_snapshot and the diff with it; what the diff finds also depends on
\* the org map, the focus and the flags of this run, so a rerun may find others.
Diff(p) ==
    /\ stage[p] = "diff"
    /\ LET priors == NewestBefore(snapshots, run[p].day)
       IN  \/ priors = {} /\ Goto(p, "only") /\ UNCHANGED run
           \/ \E prior \in priors, found \in SUBSET Pair :
                 /\ run' = [run EXCEPT ![p].prior = prior, ![p].found = found]
                 /\ Goto(p, "merge")
    /\ UNCHANGED <<calendar, snapshots, tables, copies, lock, starts, failures>>

\* Mutant: DO UPDATE SET prior_as_of = COALESCE(excluded.prior_as_of, prior_as_of).
SetRunKeepPrior(day, status, prior, count) ==
    LET kept == IF prior = Absent /\ signalRuns[day] # Absent
                THEN signalRuns[day].prior ELSE prior
    IN  signalRuns' = [signalRuns EXCEPT ![day] =
                          [status |-> status, prior |-> kept, count |-> count]]

\* upsert_signal_run: every column is replaced.
SetRun(day, status, prior, count) ==
    signalRuns' = [signalRuns EXCEPT ![day] =
                      [status |-> status, prior |-> prior, count |-> count]]

\* No prior snapshot: commit_signal_run(SnapshotOnly).
CommitSnapshotOnly(p) ==
    /\ stage[p] = "only"
    /\ SetRun(run[p].day, "snapshot_only", Absent, 0)
    /\ Goto(p, "prune")
    /\ UNCHANGED <<calendar, snapshots, contact, pairState, merges, copies, lock, run, starts,
                   failures>>

\* load_pair_state, merge_day, build_signals: in memory, before the transaction.
MergePairState(p) ==
    /\ stage[p] = "merge"
    /\ LET merged == MergeDay(pairState, run[p].found, run[p].day)
       IN  run' = [run EXCEPT
                      ![p].merged = merged,
                      ![p].signals = BuildSignals(run[p].found, run[p].prior, run[p].map,
                                                  merged)]
    /\ Goto(p, "commit")
    /\ UNCHANGED <<calendar, snapshots, tables, copies, lock, starts, failures>>

\* commit_daily: one transaction.
CommitDaily(p) ==
    /\ stage[p] = "commit"
    /\ LET r == run[p]
       IN  /\ contact' = [contact EXCEPT ![r.day] = r.signals]
           /\ SetRun(r.day, "ok", r.prior, Cardinality(DOMAIN r.signals))
           /\ pairState' = r.merged
           /\ merges' = [merges EXCEPT ![r.day] = @ + 1]
    /\ Goto(p, "create")
    /\ UNCHANGED <<calendar, snapshots, copies, lock, run, starts, failures>>

\* write_signals_jsonl: File::create truncates, then the rows are written.
CreateSignalsFile(p) ==
    /\ stage[p] = "create"
    /\ files' = [files EXCEPT ![run[p].day] = Torn]
    /\ Goto(p, "write")
    /\ UNCHANGED <<calendar, snapshots, tables, inbox, lock, run, starts, failures>>

\* The rows, and then the inbox unless --no-inbox.
WriteSignalsFile(p) ==
    /\ stage[p] = "write"
    /\ files' = [files EXCEPT ![run[p].day] = run[p].signals]
    /\ \E next \in {"append", "prune"} : Goto(p, next)
    /\ UNCHANGED <<calendar, snapshots, tables, inbox, lock, run, starts, failures>>

\* append_inbox_jsonl.
AppendInbox(p) ==
    /\ stage[p] = "append"
    /\ inbox' = [inbox EXCEPT ![run[p].day] = @ + 1]
    /\ Goto(p, "prune")
    /\ UNCHANGED <<calendar, snapshots, tables, files, lock, run, starts, failures>>

\* Mutant: prune_snapshots with d <= cutoff.
PrunedEarly(kept, day) == {d \in kept : d > day - RetainDays}

\* prune_snapshots removes d < cutoff.
Pruned(kept, day) == {d \in kept : d >= day - RetainDays}

\* prune_snapshots, and the run ends well.
Prune(p) ==
    /\ stage[p] = "prune"
    /\ snapshots' = Pruned(snapshots, run[p].day)
    /\ Release(p)
    /\ UNCHANGED <<calendar, tables, copies, starts, failures>>

\* A prune that stops half way has removed some of the files it would remove.
Interrupted(p) ==
    IF stage[p] = "prune"
    THEN \E left \in SUBSET (snapshots \ Pruned(snapshots, run[p].day)) :
             snapshots' = Pruned(snapshots, run[p].day) \cup left
    ELSE UNCHANGED snapshots

\* Some call of the stage returns Err: a transaction is rolled back, a file that
\* was to be written is as the step before left it.
Fail(p) ==
    /\ Running(p) /\ stage[p] # "mark"
    /\ failures < MaxFailures
    /\ failures' = failures + 1
    /\ Interrupted(p)
    /\ Goto(p, "mark")
    /\ UNCHANGED <<calendar, tables, copies, lock, run, starts>>

\* inspect_err: commit_signal_run(Error); when that fails too it only warns.
MarkError(p) ==
    /\ stage[p] = "mark"
    /\ \/ SetRun(run[p].day, "error", Absent, 0)
       \/ UNCHANGED signalRuns
    /\ Release(p)
    /\ UNCHANGED <<calendar, snapshots, contact, pairState, merges, copies, starts, failures>>

\* A panic unwinds past inspect_err; SIGKILL and TimeoutStartSec run no code.
Die(p) ==
    /\ Running(p)
    /\ failures < MaxFailures
    /\ failures' = failures + 1
    /\ Interrupted(p)
    /\ Release(p)
    /\ UNCHANGED <<calendar, tables, copies, starts>>

Step(p) ==
    \/ TakeSnapshot(p) \/ Diff(p) \/ CommitSnapshotOnly(p) \/ MergePairState(p)
    \/ CommitDaily(p) \/ CreateSignalsFile(p) \/ WriteSignalsFile(p) \/ AppendInbox(p)
    \/ Prune(p) \/ MarkError(p)

Next ==
    \/ NextDay \/ RefreshOrgMap
    \/ \E p \in Proc : (\E day \in Day : Start(p, day)) \/ Step(p) \/ Fail(p) \/ Die(p)

Spec == Init /\ [][Next]_vars

\* The system schedules a process that can move; nobody owes a start or midnight.
FairSpec == Spec /\ \A p \in Proc : WF_vars(Step(p))

-----------------------------------------------------------------------------
(* Properties. *)

\* The signals of some pairs.
IsSignals(f) == DOMAIN f \subseteq Pair /\ f \in [DOMAIN f -> Signal]

PairStates == [Pair -> Entry \cup {Absent}]

\* A run in progress; what it has not computed yet is as Start left it.
IsRun(r) ==
    /\ DOMAIN r = {"day", "map", "prior", "found", "merged", "signals"}
    /\ r.day \in Day
    /\ r.map \in Day \cup {Absent} /\ r.prior \in Day \cup {Absent}
    /\ r.found \subseteq Pair /\ r.merged \in PairStates /\ IsSignals(r.signals)

\* Type correctness.
TypeOK ==
    /\ today \in Day /\ mapDay \in Day \cup {Absent}
    /\ snapshots \subseteq Day
    /\ DOMAIN contact = Day /\ \A d \in Day : IsSignals(contact[d])
    /\ signalRuns \in [Day -> SignalRunRow \cup {Absent}]
    /\ pairState \in PairStates
    /\ DOMAIN files = Day /\ \A d \in Day : files[d] \in {Torn, Absent} \/ IsSignals(files[d])
    /\ inbox \in [Day -> Nat]
    /\ lock \in Proc \cup {Absent}
    /\ stage \in [Proc -> Stage]
    /\ DOMAIN run = Proc
    /\ \A p \in Proc : IF Running(p) THEN IsRun(run[p]) ELSE run[p] = Absent
    /\ starts \in 0..MaxRuns /\ failures \in 0..MaxFailures
    /\ merges \in [Day -> Nat]

\* The overlapping, failing, dying runs of the wrapper are equivalent to whole
\* runs one after another: no run folds its day into a pair state that another
\* run replaces before it commits (daily.rs:217 reads it, store.rs:445 replaces it).
Serial == INSTANCE SerialDaily
ImplementsSerial == Serial!Spec

\* With or without the lock, readers see a day's set, its verdict and its count
\* change together (commit_daily is one transaction).
Board == INSTANCE SignalBoard WITH board <- contact, spine <- Nothing, ran <- signalRuns
ImplementsBoard == Board!Spec

\* As long as no day has been published twice, prefix_move_days counts distinct
\* days, each of them a published day of the entry's span, whatever order the days
\* were published in (features.rs:32; merge_day adds without asking which day).
DaysAreDistinct ==
    (\A d \in Day : merges[d] <= 1) =>
        \A p \in Pair : pairState[p] # Absent =>
            pairState[p].days <= Cardinality({d \in Day : /\ merges[d] = 1
                                                          /\ pairState[p].first <= d
                                                          /\ d <= pairState[p].last})

\* A day with a verdict that is not an error still has its snapshot while every
\* later run is within the retention: "Success; the next day diffs"
\* (DAILY_OPS.md:203; prune_snapshots keeps what find_prior_snapshot will need).
NextDayDiffs ==
    \A d \in Day :
        LET kept == \A e \in Day : signalRuns[e] # Absent => e - RetainDays <= d
        IN  (signalRuns[d] # Absent /\ signalRuns[d].status # "error" /\ kept) =>
                d \in snapshots

\* Runs in calendar order compare disjoint intervals: a day published once was
\* diffed with a snapshot no older than any day published before it, so no move is
\* reported on two days (find_prior_snapshot against what prune_snapshots left).
\* A rerun is excepted: after a prune that stopped half way, with days missed in
\* between, it can find an older snapshot than the first run did.
DiffsTile ==
    \A d, e \in Day :
        (d < e /\ merges[d] > 0 /\ merges[e] = 1) =>
            \A p \in DOMAIN contact[e] : contact[e][p].prior >= d

\* A day is never republished with the domains of an older org map than before,
\* although a refresh may commit at any step of a run (the refresh has its own
\* lock; daily.rs:73 loads the map once, at the start).
MapNeverGoesBack ==
    [][\A d \in Day : contact'[d] # contact[d] =>
          \A p \in DOMAIN contact[d], q \in DOMAIN contact'[d] :
              contact[d][p].map <= contact'[d][q].map]_vars

\* The review copy is written after the commit, from what was committed: a whole
\* signals file equals the day's live rows when it appears, and the inbox never
\* has a batch that no transaction published (CAPTURE.md:28, daily.rs:240-244).
ReviewCopyIsCommitted ==
    [][\A d \in Day :
          /\ (files'[d] # files[d] /\ files'[d] # Torn) => files'[d] = contact'[d]
          /\ inbox'[d] # inbox[d] => inbox'[d] <= merges'[d]]_vars

\* Whatever happens to a run, the wrapper can start the next one: the lock never
\* stays with a run that failed or died (run-daily-signals.sh:45-60).
LockComesFree == \A p \in Proc : lock = p ~> lock # p

\* From a comment: "Distinct calendar days with at least one prefix_move between
\* the pair" (features.rs:32): a signal counts no more days than its span has.
MoveDaysAreDistinctDays ==
    \A d \in Day : \A p \in DOMAIN contact[d] : contact[d][p].days <= contact[d][p].span + 1
=============================================================================
