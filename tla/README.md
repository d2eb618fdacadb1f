# TLA+ specifications of bgp-analyzer

bgp-analyzer looks for signs that two networks are becoming one company: once a day it takes a
picture of the internet's routing tables, compares it with the previous picture, and publishes
the pairs of ASNs between which prefixes moved or adjacencies appeared, attributed to
organisations from PeeringDB. This directory specifies the parts of it where order, failure
and repetition matter, checks them with TLC on small instances, and proves the main theorems
with TLAPS for every instance.

Paths below are relative to the repository's root; `crates/` is left out of crate names.

## 1. The system

| Part | State it keeps | Operations | Used by / talks to |
|---|---|---|---|
| Work database, `bgp-state` (`store.rs`, `schema.rs`) | one sqlite file: `network_contact`, `orgs`, `signal_runs`, `org_map_runs`, `pair_state`, and `_outbox` filled by capture triggers | `commit_daily`, `commit_signal_run`, `commit_org_map`, the loads, `require_fresh_org_map` | daily job, org-map refresh; a collector drains `_outbox` |
| Migrations (`migrate.rs`) | `schema_migrations` | `run` at every open | work database |
| Daily job (`commands/daily.rs`, `commands/common.rs`, `scripts/run-daily-signals.sh`) | snapshots directory, signals directory, inbox, lock file | gate on the org map, snapshot, diff, merge pair state, commit, review copy, prune, `inspect_err` | work database, RIB and diff crates; timer `bgp-signals.timer` |
| Pair state and signals (`bgp-ma/src/signal.rs`) | rolling entry per ASN pair | `merge_day`, `build_signals`, the JSONL writers | daily job |
| Org-map refresh (`commands/org_map.rs`, `bgp-map/src/peeringdb.rs`, `scripts/run-refresh-org-map.sh`) | dated JSON maps, link `current`, its own lock | page through `/net` and `/org`, retry, commit, publish the copy, link, retain | PeeringDB, work database |
| Org map (`bgp-map/src/lib.rs`) | index org <-> ASN <-> domain, glue set | `insert`, `org_for_asn`, `subject_asns`, `same_family` | daily job, refresh |
| RIB (`bgp-rib`), ingest (`bgp-ingest`), `commands/snapshot.rs` | a trie of routes per (prefix, peer), two counters | `announce`, `withdraw`, `ingest_into_rib`, `from_rib` | daily job, snapshot and cyber commands; RIPE / RouteViews archives |
| Diff and features (`bgp-ma/src/lib.rs`, `features.rs`) | none (pure) | diff of two snapshots, aggregation per pair, focus, sparse mode | daily job, backtest |
| Detection, RPKI (`bgp-detect`, `bgp-rpki`, `commands/cyber.rs`) | a trie of ROAs, a Rib, the alerts of a run | `load_roas`, `validate`, `check_as_path`, `maybe_alert` | analyze command |
| Backtest, eval (`commands/backtest.rs`, `eval.rs`) | a directory of snapshots that runs share | sample, fetch a neighbour, reuse, diff, score the known cases | by hand |
| Deployment (`deploy/`, `scripts/`) | systemd units and timers, two locks | install, seed check, lock and trap | both jobs |

How they interact. The two timers start two oneshot scripts that share nothing but the sqlite
file: the daily wrapper holds one `flock`, the refresh wrapper another. Within sqlite, each
method of `WorkDb` is one transaction. Outside it, a daily run reads the org map and (much later)
`pair_state`, works on files in its state directory, and only then commits; everything it writes after the
commit (signals file, inbox) is a copy for review. The collector follows the tables through
`_outbox` alone.

What is hard about it: the daily run is a sequence of a dozen steps on shared files and tables any of which may fail or
be the last one; runs are repeated, by hand or for an earlier day; a refresh and midnight may
fall between any two steps; the commits must stay silent for rows that did not change and yet
never lose one that did; a crawl reads, for an hour, a listing that changes under it. The
hazards are listed one by one, with their lines, in `PROJECT.json`.

What makes each part correct:
- *Work database*: readers see whole days and whole crawls with verdicts that match; the outbox
  carries every change and nothing else.
- *Daily job*: overlapping, failing and repeated runs amount to whole runs one after another;
  the next day finds the snapshot it needs; no move is reported twice; whatever a review file
  says was committed; the lock comes free.
- *Org-map refresh*: a commit holds nothing old and misses nothing that was there all along; no
  page is asked for twice; the link never dangles; the refresh ends.
- *Org map*: to whom an ASN belongs and which orgs are one family follows from the files and from
  no order of reading them. *RIB*: its counters agree with its routes.
  Rebuilding a table from a dump and updates gives the collector's table.
- *Diff*: every event is a real difference of the two days' tables, and no contact between
  networks that stayed mapped is missed, however files were filtered in between, unless by hand.
- *Backtest*: samples stay in order, an event is about the two days it names, the scores of a case agree.
- *Wrappers*: a lock is taken exactly while its job runs, and the first openings of the database
  do not collide.
- *Detection*: an alert for every announcement that deserves one and for no other.

## 2. The modules

`WorkTables` - the upsert-where-changed and soft-delete statements as functions on tables; used
by `WorkDb` and `OrgMapRefresh`.

`SignalBoard` - the abstract promise: one published set and one verdict per day, one whole crawl.
No tables, upserts or soft deletes.

`WorkDb` - `store.rs`. One action per committing method: `CommitDaily`, `CommitSignalRun`,
`CommitOrgMap`; `Drain` is the collector (external). A transaction is one step, because sqlite
makes it one; its rows' after-images are one element of the queue `outbox`, in which the order
of the rows of a transaction is dropped (no transaction writes a row twice). Columns of a row
that no property tells apart are one value (`Facts`, `Rec`). The open of the database, its
triggers and its migrations appear as `Init` and `Captured`.

`PairState` - `merge_day` and `build_signals`. All saturating counters of an entry are
represented by its day count. One daily diff stamps every event with one instant, so a feature
is a pair seen on one day, and in the sparse mode the wrapper runs it counts 1.

`SerialDaily` - the abstract daily job: whole runs, one after another.

`DailyJob` - `run_daily` and its wrapper, one action per step that touches shared state:

| Action | Code |
|---|---|
| `Start`, `Acquire`, `FreshOrgMap` | wrapper's seed check and lock, `WorkDb::open`, `require_fresh_org_map` |
| `TakeSnapshot` | reuse or build the day's snapshot, save it by rename |
| `Diff` | `find_prior_snapshot` and the diff; *which* pairs it finds is a free choice |
| `CommitSnapshotOnly` | no prior: `commit_signal_run(SnapshotOnly)` |
| `MergePairState` / `CommitDaily` | the read of `pair_state` in memory / its replacement inside `commit_daily`: two steps, since other runs may come between |
| `CreateSignalsFile`, `WriteSignalsFile`, `AppendInbox` | the review copy, truncated first and written after |
| `Prune` | `prune_snapshots`; an interrupted one leaves any part of what it would remove |
| `Fail` then `MarkError` | an `Err`, then `inspect_err`, whose own commit may fail too |
| `Die` | a panic, a kill, `TimeoutStartSec`: no mark |

A timestamp is its UTC day: every daily window ends at 00:30 and all comparisons the job makes
are between days. Freshness is in whole days for the same reason.

`OrgMapRefresh` - the refresh, composed with the same `WorkTables`. PeeringDB (external)
registers and removes networks at any step, anywhere in its listing. `FetchPage` reads the page
at `skip` of the listing of that moment, `FetchOrgs` a chunk of `/org`, `BadAnswer` is a 429 or
5xx with the retry counter, then `CommitOrgMap`, `Publish`, `Link`, `RetainNewest` follow the
command and the script; `Abort` stops it anywhere. `Capped` is `--max-net-pages`, which the script never
passes. The history variables `seen`, `stayed` and
`removed` say what PeeringDB listed during the crawl. One refresh runs at a time (its lock).

`RibReplay` - `Rib::announce` and `withdraw` with their counters, the replay of a dump and
updates (`ingest_into_rib`, `apply_updates_only`) and the collapse to one route per prefix
(`RibSnapshot::from_rib`). `Hear` and `Dump` are the collector (external): its own table changes, each change
is archived, and dumps of the table are taken now and then. `Plan` chooses the latest dump
and the updates of the window, including those archived before the dump. `Consider` reads the
peers of a prefix one by one in any order, as the iteration of a `HashMap` does.

`ContactDiff` - the pure part of a daily run: subjects, focus, the four kinds of events of
`diff_snapshots`, the sparse and clean filters, and the pairs they leave. An org map gives each of its ASNs the
`prefix_count_hint`s of the orgs that list it: they decide for an ASN without a count (`Subjects`). The crawl and the
database have no hints (`None`), an overlay or a JSON map may. Scores and features are left out.

`FocusDays` - `ContactDiff` composed over days: each run fetches or reuses the day's file,
computes the focus, filters the file in place and compares it with the newest earlier file, which was filtered with
a focus of its own. The focus (`Focus`) is the ASNs of `--focus-asns` together with, under `--focus-from-org-map`, the
subjects by *that file's* counts and the org map of the moment; an empty one means no filter. The wrapper always passes
`--focus-from-org-map` and then its own arguments, so there `--focus-asns` only adds; given alone, to the
bare binary, it narrows the day's file to the ASNs it names. The day's table (`table`) is what the file would be
unfiltered; of the histories, `maps` has the org maps there were, `narrowed` the ASNs that `--focus-asns` alone left out of a day's
file. `Steady` says for whom the reports are promised to be complete: ASNs of all org maps, no glue, never too
large, never left out by hand and, where they announce nothing on the later day, with no hint that says 0 or too large.

`CyberAnalyze` - `run_analyze`: `LoadRoa` inserts a ROA in the trie, `LoadElement` and `Update`
are `apply_elem_cyber` without and with alerts, `Hop` is one turn of the loop of
`check_as_path`, whose phase and two flags are the state of a walk, and `Judge` its end with
`maybe_alert`. A prefix is its sequence of bits, so that covering is being a prefix of a
sequence; the relationships are those of the valley-free library (external).

`Backtest` - `run_backtest`, on top of `ContactDiff`: `Reuse`, `Fetch` (and `Miss`, `GiveUp`, the search among
neighbouring days), `DiffNext`, `WriteReport`; `FetchShort` is a download that ends early like the end of the
file, `FetchTorn` the swallowed last write of `save_json`, `Die` anything else that stops a run. The archive
(external) publishes dumps late, the operator deletes files. A file says which day it is of, for which
focus it was filtered and whether its download was whole; the code knows none of the three. Aggregated features are
the events of a pair and what follows from them.

`OrgIndex` - `OrgMap`: `InsertNext` (a row, a JSON record, an overlay's record), `NextFile`, `EnrichLine`. Rows come in
any order, a JSON file in its own, an overlay in that of the `HashMap` it was read into. Which label is in
which name is a parameter, and so is `registrable_domain`.

`Wrappers` - both scripts and `WorkDb::open_with`: seed check, `flock` or `mkdir` with its trap, the binary's
first opening step by step, and kills of the shell, of the binary or of both. Whether the host has `flock` and
`sqlite3` is part of the initial state. Descriptor 9 is inherited by the binary, so `flock`
is held until both have ended (`Holds`).

`MCWorkDb`, `MCDailyJob`, `MCOrgMapRefresh`, `MCRibReplay`, `MCFocusDays`, `MCCyberAnalyze`, `MCBacktest`, `MCOrgIndex`, `MCWrappers` name
the model values, small functions and the symmetry sets for TLC. `*_proofs` hold the theorems.

Operators whose comment begins with "Mutant" are deliberately wrong variants of the definition after
them; `PROJECT.json` says which property notices each.

## 3. What is checked

| Run | Instance | Shows |
|---|---|---|
| `WorkDb` | 2 pairs, 3 days, 2 orgs, 2 contents each, 3 commits | types; `ReplicaFollows` (nothing lost to the collector); `NoSpuriousEvent` (an event exactly when a row changes); `OkRowDescribesLive` (an `ok` verdict counts the day's live rows, all with its prior); `FreshRowDescribesMap` (the newest crawl row describes the live orgs); `ImplementsBoard` |
| `DailyJob` | 2 fair processes under the lock, 3 days, 2 pairs, 3 runs with backfill, 1 failure | `ImplementsSerial`, `MapNeverGoesBack`, `ReviewCopyIsCommitted`, `DaysAreDistinct`, `NextDayDiffs`; `ImplementsBoard` (readers see whole days with their verdicts); `LockComesFree` |
| `DailyInOrder` | 1 process, 4 days in order, 4 runs, 2 failures | `DiffsTile`: intervals compared are disjoint, also across missed days, reruns and half-done prunes |
| `Refresh` | 3 ASNs of 2 orgs, one glue, pages of 2, 4 edits, 2 fair crawls on 2 days, 3 retries | `NothingStale`, `NothingSkipped`, `CurrentExists`, `CopyIsSpine`, `PagesBounded` (no page beyond what the listing held), `RefreshEnds` |
| `RibReplay` | sessions of 2 peers, 1 prefix, 4 routes (two equally long, one without origin), 3 changes, a cap of 2 updates | `CountersAgree` (trie and counters), `RebuiltIsTable` (the replay, older updates included), `SnapshotIsLongest` (no trace of the iteration order) |
| `FocusDays` | 3 prefixes, 3 networks and a transit network, 2 org maps (one with an overlay's hint of 0), 2 days, any reruns, `--focus-asns` of two of them or none | `MovesAreReal`, `MovesAreReported`, `ChangesAreReal` |
| `CyberAnalyze` | 3 ROAs of 2 nested nets, at most 2 of them read, 8 elements over 4 ASNs, a cap of 2 updates | `RovIsExact` (the trie against RFC 6811 over a set), `AlertsAreExact` |
| `Backtest` | 1 prefix, 2 ASNs and a transit network, 5 days and any part of their dumps, 2 overlapping windows (one sampled by the week), 2 runs, a late dump, an error, a failure | `SamplesInOrder` (a diff never runs backwards), `EventsAreExact` (no move invented, none lost that both files can show), `ScoresAgree` (event, feature and first contact of a case) |
| `OrgIndex` | 3 orgs (one with a domain for its id), 3 ASNs, 3 domains; rows and overlays, or a file that repeats an org and 3 watchlist lines in 2 orders | `AttributionIsExplained`, `FamilyIsExplained` |
| `Wrappers` | 2 daily and 2 refresh processes, hosts with and without `flock` and `sqlite3`, 5 starts, 2 kills | `LockMeansRunning`, `FirstOpenIsSafe` |
| `DailyRerun`, `RefreshRace` | smallest that shows it | the disagreements of section 5 |

Bounds, and why they suffice. Three commits are the shortest story with a day, its change and
its return (insert, retract, resurrect). Three days with a retention of one give a prior, a day
and a day beyond the retention. Two processes are the most the lock ever has to order at once;
three runs give an overlap and a rerun after it. `MaxFailures` bounds failures, not where they strike.
In the refresh, four edits fill a page of two, push an entry past its boundary and remove one;
two crawls let a second one meet the first one's rows and files; three retries separate one retry from another and from giving up. In
`RibReplay`, three changes let a session's route appear before the dump, be archived again and
go; the cap falls inside them. In `FocusDays`, three prefixes are one more than a
network may announce before it is too large, and two days with any number of reruns under either map, with and without extra ASNs, give
every order of filtering a file. In `CyberAnalyze`, the elements are one for each outcome of a walk, and two
updates let one verdict follow another. In `Backtest`, a
window of four days sampled every second one has a sample in common with the one sampled by the week, and the
day beyond lies one week on; two runs let one use the other's files. In `OrgIndex`, two records of a file
and two of an overlay are an org replaced and an org that takes an ASN already given. In `Wrappers`, two
processes of a job and a restart after a kill are all that a lock has to tell apart. `MaxCommits`, `MaxRuns`, `MaxFailures`, `MaxEdits`,
`MaxCrawls`, `MaxChanges`, `MaxRoas`, `MaxElements`, `MaxUpdates`, `MaxLate`, `MaxErrors`, `MaxStarts`, `MaxKills`,
`LastDay` and `Calendar` are bounds of the models; the
remaining numbers are parameters of the program. Deadlock checking is off: in every model the system may rest for good
when nobody starts another run.

Symmetry is used in runs without liveness, over names that only tests of equality tell apart.

Fairness. `DailyJob!FairSpec` asks weak fairness of the steps of a running process: the operating
system schedules it, and every blocking call either returns or fails (HTTP has a timeout, sqlite
a busy timeout, the unit a `TimeoutStartSec`). It asks nothing of starts, failures, refreshes or
midnight. `OrgMapRefresh!FairSpec` asks it of the crawl's own steps including a bad answer: a request is answered
or times out after 120 s. PeeringDB owes nothing: it may answer 429 for ever, and
may keep adding networks: `RefreshEnds` rests on the bound `MaxEdits`, since a listing that grew faster than it is read would keep
the crawl paging. `PagesBounded` says of every crawl that it asks for no page more than the networks it saw fill, and one.

## 4. What is proved

All theorems hold for every value of the constants allowed by the named assumptions
(`WorkDbAssumption`, `PairStateAssumption`, `DailyJobAssumption`, `OrgMapRefreshAssumption`,
`RibReplayAssumption`, `ContactDiffAssumption`, `FocusDaysAssumption`, `CyberAnalyzeAssumption`, `BacktestAssumption`,
`OrgIndexAssumption`, `InputsAssumption`, `WrappersAssumption`): days and thresholds are numbers, sets of pairs, orgs, prefixes and ASNs are
finite, `Absent` and `Torn` are not rows, and the org id is a key of the rows `OrgIndex` loads.

- `WorkDb_proofs` starts from `SyncLemma`, what one upsert-and-retract does to every row. `TypeCorrect`, `CaptureFaithful` and `DrainedMeansEqual` from the invariant
  `TypeOK /\ ReplicaFollows`, which is inductive; `ChangeAware`; `OkRowCorrect`; `FreshRowCorrect`
  (with `NoFutureCrawl`: no row has finished after the clock, so the newest row is the last one
  written); `Implements`: each transaction is one step of `SignalBoard`, draining is a stutter. `RepeatsAreQuiet` is about
  whole commits of what is published already, found so by its readers (`Signals`, `LoadLiveOrgMap`): the only row written
  and sent is the run row, whose upsert has no `WHERE`.
- `DailyJob_proofs`: `TypeCorrect` from `Inv`, which adds what a run holds at each stage
  (`Holding`). With the lock (`ASSUME Wrapped`) the invariant `Locked` says that only the holder
  of the lock runs and that what it merged in memory is what merging the pair state as it stands
  would give; from it `Serializable` (`DailyJob` implements `SerialDaily`), `ReviewCopyCorrect`
  and `MapForward`. Three more invariants stand on `Locked`: `DaysCorrect`, from lemmas on the number of published
  days in an entry's span; `NextDayCorrect`, where `Kept` adds that a run past its snapshot still has it and prunes
  only after a verdict of its own; and `TilesCorrect` (with `~Backfill`), where `InOrder` says that a snapshot as new as
  every published day, and older than the day of a run that has not published yet, is there until that run has found it.
  Without the lock too (runs of the bare binary, which no run of TLC covers), `KeepsPromise`: `DailyJob` implements `SignalBoard`.
- `OrgMap_proofs`, on the refresh: the inductive invariant is `Seen` (what was fetched was listed) and
  `Ahead` (while nothing was removed, a network that stayed and is not fetched yet is at an
  offset not read yet: insertions push entries forward only), `Paged` (the offset has come no further than
  networks were seen, each listed once: `ListedOnce`), `Faithful` (the live orgs are the
  crawl from the commit on), `Copied` and `CurrentExists`. From it `TypeCorrect`, `NoStaleOrg`,
  `NoneSkipped`, `LinkNeverDangles` (of a retention of at least one), `CopyCorrect` and `PagesAreBounded`, with or without a page cap.
  On the index: `LoadInv` follows the records inserted so far, the first claim of each ASN (`HeadOK`) and the last record of
  each org (`KnownOK`), hence `AttributionCorrect`. For the watchlist no induction over lines is at hand, but time runs over
  them: `WatchOK` says that a function satisfying the recursion of `Explained` up to the present line exists and that
  each one ends in the org's domains (`Tracks`); a solution for one line more restricts to one for the lines before.
  Hence `FamilyCorrect`.
- `RibReplay_proofs`: the counters from one lemma each about `Put` and `Drop` on finite sets; the replay from
  three invariants: `Archive` (the last update archived for a session and prefix is its present route, and
  what was not updated is as in the dump), `Replayed` (where no later update is to come, the Rib has the present
  route) and `Considered` (the kept route is the best of those read). The proofs hold for any number of
  prefixes, sessions and updates, which is why one prefix is enough for the run. Hence `TypeCorrect`, `CountersCorrect`,
  `ReplayCorrect`, `LongestKept`.
- `FocusDays_proofs`: the invariant `FilesOK` says that a file is a part of its day's table
  (`Faithful`) with every row of the ASNs that all org maps had, that are no glue, not too large and not left out by hand
  (`KeepsAll`), whatever was filtered when. Then an event of two files is one of two tables
  (`MovesReal`), and nothing about such ASNs is missing (`MovesReported`, `ChangesReal`).
- `CyberAnalyze_proofs`: `TrieHoldsRoas` (each net of the trie holds all ROAs of that net), from which
  the trie answers as RFC 6811 over the set of ROAs does; and `WalkOf`, what the phase and the flags of a walk
  say of the hops behind it: nothing went sideways or down as long as the phase is up, no
  leak is among them unless the flag is set. At the end of a walk all hops are behind it. Hence
  `TypeCorrect`, `RovCorrect`, `AlertsCorrect`.
- `Backtest_proofs`: the files carry a run's past into later runs, so the invariant says what each of them is whatever
  made it (`FilesOK`: a part of the table of a day at most three from the planned one, the nearest with a dump as long as
  nothing failed or came late), what the search has tried (`WalkOK`), that the file of a sample is still the one
  it was (`Agreed`), that the events are those of the diffs made so far (`EventsOK`) and that the report scores them
  (`ReportOK`). Two nearest dumps of two planned days are then in the days' order (`BestInOrder`).
  Hence `TypeCorrect`, `SamplesInOrderTheorem`, `EventsAreExactTheorem`, `ScoresAgreeTheorem`.
- `Wrappers_proofs`: `LockCorrect` from `Alone`, `Directory` (what a lock directory stands for) and `Left` (which
  processes are behind a directory that is stale or gone too early); `OpenCorrect` from `Opened`: whoever still has to record a
  baseline is a refresh, alone past its lock, since a daily run has seen a crawl.

Only model-checked: the two liveness properties, `LockComesFree` and `RefreshEnds`, since fairness and what is
enabled are out of the prover's reach. `OrgMapRefresh!TypeOK` is proved and is not among the invariants of its run. The
invariants of the proofs were model-checked on the instances of the runs before they were proved.

## 5. Where code and documents disagree

1. `DailyRerun`: a day run twice adds its day to `prefix_move_days` twice; `features.rs:32` calls it the
   number of distinct calendar days. `DaysAreDistinct` shows the count is right as long as no day is repeated.
2. `RefreshRace`: a network removed between two pages makes the crawl miss another one that was
   listed all along; `docs/ORG_MAP.md:18` says there is no race surface.

Read in the code while modelling it, and not run:
- two sessions with one peer ASN overwrite each other's routes (`bgp-rib/src/lib.rs:126`; line 84 says that peers do
  not clobber each other), which is why `RebuiltIsTable` speaks of sessions of distinct peers;
- on a rerun, a network that is too large has no rows in the filtered file, so no count, and becomes a
  subject (`daily.rs:114`; `docs/MA_SIGNAL.md:33` says the focus drops it);
- with `--full`, the upstreams of a newly mapped origin are reported as gained, since the earlier file was
  filtered without it (`daily.rs:166`; `docs/MA_SIGNAL.md:52` speaks of new upstreams);
- a rerun whose prior has been pruned writes `snapshot_only` and leaves the day's signals live (`daily.rs:144`;
  `docs/CAPTURE.md:33` has live rows that vanish on rerun retracted);
- a panic or kill marks no `error` (`daily.rs:46`; `docs/DAILY_OPS.md:204`);
- `--focus-asns` without `--focus-from-org-map` (the bare binary) rewrites the file of a day that exists to the rows of those ASNs
  (`daily.rs:124`): the day's other moves are lost for its reruns and for the next day's diff, and upstreams come back as new;
- an ASN that announces nothing on the later day and whose org has a hint of 0 or of more than 5000, from an overlay, is no subject,
  so the contact by which it gave up its prefixes may go unreported (`bgp-map/src/lib.rs:276`);
- `BGP_ORG_MAP_RETAIN=0` is accepted and removes every map, the new one too, so that `current` dangles
  (`run-refresh-org-map.sh:67`); the constant `Retain` may be 0, and `CurrentExists` leaves it out;
- `--max-net-pages` retracts everything beyond the cap (`peeringdb.rs:194`; `store.rs:236` says a crawl is always exhaustive);
- `upstream_converge` is emitted for upstreams that are neither subjects nor mapped (`bgp-ma/src/lib.rs:329`; its
  comment two lines above);
- a contact is reported "in-window" (`backtest.rs:263`) when the pair was seen before the window and after it and never inside;
  `ScoresAgree` says exactly when;
- the backtest reuses files with or without `--skip-fetch` (`backtest.rs:94`; `args.rs:149`), also those filtered for
  the cases of another run;
- an ASN claimed by two orgs of one overlay goes to either of them, run by run, since the overlay is merged in
  the order of a `HashMap` (`common.rs:32`; `bgp-map/src/lib.rs:237` says that the first registration wins);
- without the `sqlite3` command the daily wrapper does not notice an unseeded database that exists, and the run
  fails instead of exiting 0 (`run-daily-signals.sh:37`; `docs/DAILY_OPS.md:243`); under `mkdir`, a SIGTERM for the shell alone frees the lock while
  the binary goes on, and a SIGKILL never does.

## 6. What is not modelled, and the plan

Not modelled: the wall clock inside a day (`finished_at` is taken inside the transaction, the
code reads it just before `BEGIN`); sqlite itself, which is trusted to be atomic and durable; a
`build-org-map` run by hand beside the refresh wrapper; org domains during the crawl; a batch of the inbox
written in part; `--no-clean`; the network and MRT parsing of ingest; the contents of the webhook nudge.

Also not modelled: `eval.rs`, which scores a given file and prints; installation; the parsers of JSON, ROA and CAIDA files;
attribute interning and longest-prefix lookup of `bgp-rib`; normalising of domains; forward migrations, of which
there are none; a `daily` or `build-org-map` started without its wrapper on a fresh host.

Planned:
1. liveness of the wrappers: where the lock is a directory, what frees it after a kill;
2. the daily job over `OrgIndex` instead of one map per day.
