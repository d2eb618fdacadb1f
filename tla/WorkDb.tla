------------------------------- MODULE WorkDb -------------------------------
(***************************************************************************)
(* bgp-state's WorkDb: the sqlite file that is the system of record        *)
(* (crates/bgp-state/src/store.rs), the capture triggers that copy every   *)
(* row change of four of its tables into _outbox, and the collector that   *)
(* drains _outbox into a replica.                                          *)
(*                                                                         *)
(* A method of WorkDb runs in one sqlite transaction, so it is one step    *)
(* here.  `_outbox` is the queue of committed transactions still to be     *)
(* drained, in commit order; an element maps each captured table to the    *)
(* rows the transaction wrote, with their after-images                     *)
(* (CaptureMode::After): the statements of one transaction never write a   *)
(* row twice, so the order inside it tells nothing.                        *)
(***************************************************************************)
EXTENDS WorkTables

CONSTANTS
    Pair,          \* undirected ASN pairs
    Day,           \* UTC days, compared by <
    Org,           \* PeeringDB org ids
    Facts,         \* what a signal says of its pair besides prior_as_of
    Rec,           \* what an org row says besides its id
    Memo,          \* contents of the uncaptured pair_state table
    EmptyMemo,     \* its content in a new database
    MaxCommits     \* bound: transactions explored

VARIABLES
    db,            \* the captured tables: table name -> key -> row or Absent
    pairState,     \* the pair_state table
    clock,         \* commits so far: Utc::now() as the run rows record it
    outbox,        \* transaction number -> the rows it wrote, until drained
    drained,       \* the last transaction the collector has applied
    replica        \* the collector's copy of the captured tables

vars == <<db, pairState, clock, outbox, drained, replica>>

-----------------------------------------------------------------------------
(* The schema. *)

Tables == {"network_contact", "orgs", "signal_runs", "org_map_runs"}

Keys == [network_contact |-> Pair \X Day, orgs |-> Org,
         signal_runs |-> Day, org_map_runs |-> Day]

\* Mutant: capture_tables without orgs.
CapturedButOrgs == Tables \ {"orgs"}

\* The tables with triggers: all but pair_state and schema_migrations.
Captured == Tables

Status == {"ok", "snapshot_only", "error"}
Body == [prior : Day, facts : Facts]
ContactRow == [body : Body, live : BOOLEAN]
OrgRow == [body : Rec, live : BOOLEAN]
SignalRunRow == [status : Status, prior : Day \cup {Absent}, count : Nat,
                 finished : Nat]
OrgMapRunRow == [finished : Nat, count : Nat]

Rows == [network_contact |-> ContactRow, orgs |-> OrgRow,
         signal_runs |-> SignalRunRow, org_map_runs |-> OrgMapRunRow]

ASSUME WorkDbAssumption ==
    /\ Day \subseteq Nat
    /\ IsFiniteSet(Pair)
    /\ IsFiniteSet(Org)
    /\ EmptyMemo \in Memo
    /\ MaxCommits \in Nat
    /\ Absent \notin Day
    /\ \A t \in Tables : Absent \notin Rows[t]

\* Partial functions: the signals of a day, the orgs of a crawl.
PartialFn(S, T) == UNION {[D -> T] : D \in SUBSET S}

Init ==
    /\ db = [t \in Tables |-> EmptyTable(Keys[t])]
    /\ pairState = EmptyMemo
    /\ clock = 0
    /\ outbox = <<>>
    /\ drained = 0
    /\ replica = [t \in Tables |-> EmptyTable(Keys[t])]

-----------------------------------------------------------------------------
(* Transactions. *)

\* COMMIT of a transaction that leaves the captured tables as `new` having
\* written the rows `touched[t]` of each table t.
Commit(new, touched) ==
    /\ clock < MaxCommits
    /\ clock' = clock + 1
    /\ db' = new
    /\ outbox' = [i \in drained + 1 .. clock + 1 |->
                     IF i <= clock THEN outbox[i]
                     ELSE [t \in Captured |-> [k \in touched[t] |-> new[t][k]]]]
    /\ UNCHANGED <<drained, replica>>

\* Mutant: the run row keeps the first run's values (ON CONFLICT DO NOTHING).
RunUpsertKeepFirst(runs, day, row) ==
    IF runs[day] = Absent THEN [runs EXCEPT ![day] = row] ELSE runs

\* Mutant: a count that leaves one row out.
RunUpsertOneLess(runs, day, row) == [runs EXCEPT ![day] = [row EXCEPT !.count = @ - 1]]

\* INSERT INTO ..._runs ON CONFLICT(as_of_date) DO UPDATE, with no WHERE.
RunUpsert(runs, day, row) == [runs EXCEPT ![day] = row]

\* commit_org_map.  `day` is the date of the crawl's started_at.
CommitOrgMap(day, crawl) ==
    /\ DOMAIN crawl # {}                             \* else bail
    /\ LET orgs == Sync(db["orgs"], crawl, Org)
           row == [finished |-> clock + 1, count |-> Cardinality(LiveKeys(orgs))]
       IN  Commit([db EXCEPT !["orgs"] = orgs,
                             !["org_map_runs"] = RunUpsert(@, day, row)],
                  [t \in Tables |->
                      CASE t = "orgs"         -> Touched(db["orgs"], crawl, Org)
                        [] t = "org_map_runs" -> {day}
                        [] OTHER              -> {}])
    /\ UNCHANGED pairState

\* commit_signal_run, as run_daily calls it: no diff was made.
CommitSignalRun(day, status) ==
    /\ status \in {"snapshot_only", "error"}
    /\ LET row == [status |-> status, prior |-> Absent, count |-> 0,
                   finished |-> clock + 1]
       IN  Commit([db EXCEPT !["signal_runs"] = RunUpsert(@, day, row)],
                  [t \in Tables |-> IF t = "signal_runs" THEN {day} ELSE {}])
    /\ UNCHANGED pairState

\* The rows commit_daily offers to network_contact: keys are (pair, as_of).
DayRows(day, prior, signals) ==
    [k \in (DOMAIN signals) \X {day} |-> [prior |-> prior, facts |-> signals[k[1]]]]

\* commit_daily, called with status ok and signal_count = signals.len().
CommitDaily(day, prior, signals, memo) ==
    /\ LET new == DayRows(day, prior, signals)
           scope == Pair \X {day}
           contact == Sync(db["network_contact"], new, scope)
           row == [status |-> "ok", prior |-> prior,
                   count |-> Cardinality(DOMAIN signals), finished |-> clock + 1]
       IN  Commit([db EXCEPT !["network_contact"] = contact,
                             !["signal_runs"] = RunUpsert(@, day, row)],
                  [t \in Tables |->
                      CASE t = "network_contact" ->
                                Touched(db["network_contact"], new, scope)
                        [] t = "signal_runs" -> {day}
                        [] OTHER             -> {}])
    /\ pairState' = memo                             \* replace_pair_state

-----------------------------------------------------------------------------
(* The collector (external): applies the next transaction of _outbox. *)

Override(f, g) == [k \in DOMAIN f |-> IF k \in DOMAIN g THEN g[k] ELSE f[k]]

Drain ==
    /\ drained < clock
    /\ replica' = [t \in Tables |->
                      IF t \in Captured
                      THEN Override(replica[t], outbox[drained + 1][t])
                      ELSE replica[t]]
    /\ outbox' = [i \in drained + 2 .. clock |-> outbox[i]]
    /\ drained' = drained + 1
    /\ UNCHANGED <<db, pairState, clock>>

Next ==
    \/ \E day \in Day, crawl \in PartialFn(Org, Rec) : CommitOrgMap(day, crawl)
    \/ \E day \in Day, status \in Status : CommitSignalRun(day, status)
    \/ \E day, prior \in Day, signals \in PartialFn(Pair, Facts), memo \in Memo :
           prior < day /\ CommitDaily(day, prior, signals, memo)
    \/ Drain

Spec == Init /\ [][Next]_vars

-----------------------------------------------------------------------------
(* Readers. *)

\* load_live_org_map: the live orgs, as a map.
LoadLiveOrgMap == Live(db["orgs"])

\* The live signals of a day, as CAPTURE.md has downstream read them.
Signals ==
    [day \in Day |->
        [p \in {q \in Pair : <<q, day>> \in LiveKeys(db["network_contact"])} |->
            db["network_contact"][<<p, day>>].body]]

\* The verdict of each day.
Verdict ==
    [day \in Day |->
        LET run == db["signal_runs"][day]
        IN  IF run = Absent THEN Absent
            ELSE [status |-> run.status, prior |-> run.prior, count |-> run.count]]

\* latest_org_map_finished_at: ORDER BY finished_at DESC LIMIT 1.
LatestOrgMapRun ==
    CHOOSE d \in Day :
        /\ db["org_map_runs"][d] # Absent
        /\ \A e \in Day : db["org_map_runs"][e] # Absent =>
               db["org_map_runs"][e].finished <= db["org_map_runs"][d].finished

-----------------------------------------------------------------------------
(* Properties. *)

IsImage(f) ==
    /\ DOMAIN f = Tables
    /\ \A t \in Tables : f[t] \in [Keys[t] -> Rows[t] \cup {Absent}]

IsBatch(b) ==
    /\ DOMAIN b = Captured
    /\ \A t \in Captured : /\ DOMAIN b[t] \subseteq Keys[t]
                          /\ \A k \in DOMAIN b[t] : b[t][k] \in Rows[t]

\* Type correctness.
TypeOK ==
    /\ IsImage(db)
    /\ IsImage(replica)
    /\ pairState \in Memo
    /\ clock \in 0..MaxCommits
    /\ drained \in 0..clock
    /\ DOMAIN outbox = drained + 1 .. clock
    /\ \A i \in DOMAIN outbox : IsBatch(outbox[i])

\* Nothing is lost between the tables and the collector: for every row of a
\* captured table, the last transaction still in _outbox that wrote the row
\* carries its present image, and if none did the replica already has it.  So
\* whenever _outbox is drained the replica equals the tables.
\* (capture_tables and the triggers installed by WorkDb::open_with.)
ReplicaFollows ==
    \A t \in Tables : \A k \in Keys[t] :
        LET Wrote(i) == t \in Captured /\ k \in DOMAIN outbox[i][t]
        IN  \/ /\ \A i \in DOMAIN outbox : ~Wrote(i)
               /\ replica[t][k] = db[t][k]
            \/ \E i \in DOMAIN outbox :
                  /\ Wrote(i)
                  /\ outbox[i][t][k] = db[t][k]
                  /\ \A j \in DOMAIN outbox : j > i => ~Wrote(j)

\* The change-aware commits: a transaction emits an outbox event for a row of
\* network_contact or orgs exactly when it changes what a reader sees of it, so
\* an identical rerun is silent (store.rs:655 and store.rs:721 test two cases).
NoSpuriousEvent ==
    [][clock' # clock =>
         \A t \in {"network_contact", "orgs"} \cap Captured :
             DOMAIN outbox'[clock'][t] = {k \in Keys[t] : db'[t][k] # db[t][k]}]_vars

\* A day whose verdict is ok has as many live signals as its row counts, all of
\* them compared with the prior snapshot the row names, whatever runs and
\* reruns went before (commit_daily's upsert, retraction and run row together).
OkRowDescribesLive ==
    \A d \in Day :
        LET run == db["signal_runs"][d]
            live == Signals[d]
        IN  (run # Absent /\ run.status = "ok") =>
                /\ run.count = Cardinality(DOMAIN live)
                /\ \A p \in DOMAIN live : live[p].prior = run.prior

\* The most recently finished crawl row, the one require_fresh_org_map judges the
\* map by, counts exactly the orgs load_live_org_map will load, even when crawls
\* of one UTC day share a row or crawls end in another order than they started.
FreshRowDescribesMap ==
    (\E d \in Day : db["org_map_runs"][d] # Absent) =>
        /\ db["org_map_runs"][LatestOrgMapRun].count = Cardinality(DOMAIN LoadLiveOrgMap)
        /\ DOMAIN LoadLiveOrgMap # {}

\* The tables implement the promise: every transaction replaces one day's whole
\* set, or one verdict, or the whole org spine, and draining changes nothing.
Board == INSTANCE SignalBoard WITH
    board <- Signals, spine <- LoadLiveOrgMap, ran <- Verdict

ImplementsBoard == Board!Spec
=============================================================================
