------------------------------ MODULE Backtest ------------------------------
(***************************************************************************)
(* The historical backtest (run_backtest, commands/backtest.rs): a sample  *)
(* of days of a window, each from the dump of that day or of one nearby,   *)
(* kept in a directory that runs over other windows share; the diff of     *)
(* each sample with the next; and the known cases scored by their events,  *)
(* by the features of their pairs and by the lead of the first contact.    *)
(*                                                                         *)
(* A dump, its routes and its as_of belong to one UTC day, and a case's    *)
(* window is a range of days.  The archive (external) may publish a dump   *)
(* late; a fetch may fail although the dump is there; a write may fail     *)
(* unnoticed; a run may stop at any step and be started again.             *)
(***************************************************************************)
EXTENDS ContactDiff

CONSTANTS
    Calendar,      \* bound: the days the archive may have a dump of
    Tables,        \* what the collector's peers may announce: day -> snapshot
    Archives,      \* the dumps the archive may have at first
    Orgs,          \* the org map: --org-map with the run's overlay
    Jobs,          \* [start, days, step, cases, asns]: the arguments of a run
    Torn,          \* a snapshot file cut short
    MaxRuns,       \* bound: runs started
    MaxLate,       \* bound: dumps that come after the first run has started
    MaxErrors,     \* bound: fetches that fail although the dump is there
    MaxFailures    \* bound: writes that fail, and runs that die

VARIABLES
    table,         \* day -> what the collector's peers announce on that day
    archive,       \* the days whose dump is there
    file,          \* day -> rib-<day>.json: [used, focus, rows, complete], Torn, or None
    job,           \* the arguments of the run, or None
    stage,         \* what the run does next
    at,            \* the sample it is at
    try,           \* the attempt to fetch it
    used,          \* for each sample so far, the day its file is of, or Torn
    events,        \* all-events: [before, time, kind, a, b, prefix]
    report,        \* case -> its scores, or None before the run has scored
    runs, errors, failures,
    late           \* dumps that came after the first run had started

vars == <<table, archive, file, job, stage, at, try, used, events, report, runs, errors,
          failures, late>>

Case == UNION {j.cases : j \in Jobs}

-----------------------------------------------------------------------------
(* The plan of a run. *)

\* Every step days, and the last day of the window if no step ends on it.
Planned(j) ==
    LET steps == [i \in 1..(j.days + j.step - 1) \div j.step |-> j.start + (i - 1) * j.step]
        last == j.start + j.days - 1
    IN  IF steps[Len(steps)] = last THEN steps ELSE Append(steps, last)

\* Mutant: two days away before one.
UnsortedDelta == <<0, -2, 2, -1, 1, -3, 3>>

\* The neighbours of a day, nearest first.
Delta == <<0, -1, 1, -2, 2, -3, 3>>

\* --focus-asns and the ASNs of the cases.
FocusOf(j) == j.asns \cup UNION {{c.a, c.b} \ {None} : c \in j.cases}

\* No focus, no filter.
Kept(snap, focus) == IF focus = {} THEN snap ELSE Focused(snap, focus)

ASSUME BacktestAssumption ==
    /\ Calendar \subseteq Int /\ Archives \subseteq SUBSET Calendar
    /\ \A t \in Tables :
          /\ DOMAIN t = Calendar
          /\ \A d \in Calendar :
                /\ DOMAIN t[d] \subseteq Prefix
                /\ \A p \in DOMAIN t[d] :
                      t[d][p].origin \in Asn /\ t[d][p].path \in Seq(Asn)
    /\ IsOrgMap(Orgs)
    /\ \A j \in Jobs :
          /\ j.start \in Int /\ j.days \in Nat \ {0} /\ j.step \in Nat \ {0}
          /\ j.asns \subseteq Asn
          /\ \A c \in j.cases : /\ c.a \in Asn /\ c.b \in Asn \cup {None}
                                /\ {c.first, c.last, c.announce} \subseteq Int
    /\ MaxRuns \in Nat /\ MaxLate \in Nat /\ MaxErrors \in Nat /\ MaxFailures \in Nat
    /\ Torn \notin Int

PlannedDay == UNION {{Planned(j)[i] : i \in DOMAIN Planned(j)} : j \in Jobs}

Init ==
    /\ table \in Tables /\ archive \in Archives
    /\ file = [d \in PlannedDay |-> None]
    /\ job = None /\ stage = "idle" /\ at = 1 /\ try = 1
    /\ used = <<>> /\ events = {} /\ report = None
    /\ runs = 0 /\ errors = 0 /\ failures = 0
    /\ late = 0

-----------------------------------------------------------------------------
(* Beside the runs. *)

\* The archive gets a dump it did not have.
Publish(d) ==
    /\ d \in Calendar \ archive
    /\ runs > 0 /\ late < MaxLate
    /\ archive' = archive \cup {d}
    /\ late' = late + 1
    /\ UNCHANGED <<table, file, job, stage, at, try, used, events, report, runs, errors,
                   failures>>

\* Between runs the operator removes a file, to have it fetched again.
Delete(d) ==
    /\ stage = "idle" /\ file[d] # None
    /\ file' = [file EXCEPT ![d] = None]
    /\ UNCHANGED <<table, archive, job, stage, at, try, used, events, report, runs, errors,
                   failures, late>>

-----------------------------------------------------------------------------
(* A run: the samples. *)

Start(j) ==
    /\ stage = "idle" /\ runs < MaxRuns
    /\ runs' = runs + 1
    /\ job' = j /\ stage' = "sample" /\ at' = 1 /\ try' = 1
    /\ used' = <<>> /\ events' = {} /\ report' = None
    /\ UNCHANGED <<table, archive, file, errors, failures, late>>

Samples == Len(Planned(job))
Target == Planned(job)[at]

\* Mutant: the end of the samples is not noticed.
SampledOn(day) ==
    /\ used' = Append(used, day)
    /\ try' = 1
    /\ at' = at + 1 /\ UNCHANGED stage

\* On to the next sample, or to the first pair of them.
Sampled(day) ==
    /\ used' = Append(used, day)
    /\ try' = 1
    /\ IF at < Samples THEN at' = at + 1 /\ UNCHANGED stage
                       ELSE at' = 1 /\ stage' = "diff"

\* Err: the run ends and what it wrote stays.
Bail ==
    /\ stage' = "idle"
    /\ UNCHANGED <<job, at, try, used, events, report>>

\* A file of that name is used whatever is in it, with or without --skip-fetch.
Reuse ==
    /\ stage = "sample" /\ file[Target] # None
    /\ Sampled(IF file[Target] = Torn THEN Torn ELSE file[Target].used)
    /\ UNCHANGED <<table, archive, file, job, events, report, runs, errors, failures, late>>

Fetching == stage = "sample" /\ file[Target] = None /\ try <= Len(Delta)
Tried == Target + Delta[try]

\* No dump that day, or no answer: the next neighbour.
Miss ==
    /\ Fetching
    /\ \/ Tried \notin archive /\ UNCHANGED errors
       \/ Tried \in archive /\ errors < MaxErrors /\ errors' = errors + 1
    /\ try' = try + 1
    /\ UNCHANGED <<table, archive, file, job, stage, at, used, events, report, runs, failures,
                   late>>

\* Mutant: the file of a neighbour carries the planned day.
MislabelledFile(rows, complete) ==
    [used |-> Target, focus |-> FocusOf(job), rows |-> rows, complete |-> complete]

SnapshotFile(rows, complete) ==
    [used |-> Tried, focus |-> FocusOf(job), rows |-> rows, complete |-> complete]

\* build_snapshot, the focus, and save_json under the planned day.
Fetch ==
    /\ Fetching /\ Tried \in archive
    /\ file' = [file EXCEPT ![Target] =
                   SnapshotFile(Kept(table[Tried], FocusOf(job)), TRUE)]
    /\ Sampled(Tried)
    /\ UNCHANGED <<table, archive, job, events, report, runs, errors, failures, late>>

\* A download cut short ends the parser's iterator as the end of the dump does.
FetchShort ==
    /\ Fetching /\ Tried \in archive
    /\ failures < MaxFailures /\ failures' = failures + 1
    /\ \E S \in SUBSET DOMAIN table[Tried] :
          /\ S # DOMAIN table[Tried]
          /\ LET read == [p \in S |-> table[Tried][p]]
             IN  file' = [file EXCEPT ![Target] =
                             SnapshotFile(Kept(read, FocusOf(job)), FALSE)]
    /\ Sampled(Tried)
    /\ UNCHANGED <<table, archive, job, events, report, runs, errors, late>>

\* The last write fails when the BufWriter is dropped: nobody hears of it, and
\* the file that is cut short takes the name.
FetchTorn ==
    /\ Fetching /\ Tried \in archive
    /\ failures < MaxFailures /\ failures' = failures + 1
    /\ file' = [file EXCEPT ![Target] = Torn]
    /\ Sampled(Torn)
    /\ UNCHANGED <<table, archive, job, events, report, runs, errors, late>>

\* No dump within three days.
GiveUp ==
    /\ stage = "sample" /\ file[Target] = None /\ try > Len(Delta)
    /\ Bail
    /\ UNCHANGED <<table, archive, file, runs, errors, failures, late>>

\* A panic, a kill, or an error of any other write.
Die ==
    /\ stage # "idle"
    /\ failures < MaxFailures /\ failures' = failures + 1
    /\ Bail
    /\ UNCHANGED <<table, archive, file, runs, errors, late>>

-----------------------------------------------------------------------------
(* A run: the diffs. *)

\* The file of a sample.
Of(i) == file[Planned(job)[i]]

\* diff_snapshots: its events are of the later snapshot's as_of.
DiffOf(before, after) ==
    {[before |-> before.used, time |-> after.used, event |-> e] :
        e \in Diff(before.rows, after.rows, Orgs)}

\* load_json twice, diff_snapshots.
DiffNext ==
    /\ stage = "diff" /\ at < Samples
    /\ IF Torn \in {Of(at), Of(at + 1)}
       THEN Bail
       ELSE /\ events' = events \cup DiffOf(Of(at), Of(at + 1))
            /\ at' = at + 1
            /\ UNCHANGED <<job, stage, try, used, report>>
    /\ UNCHANGED <<table, archive, file, runs, errors, failures, late>>

-----------------------------------------------------------------------------
(* A run: the scores. *)

Inside(day, c) == c.first <= day /\ day <= c.last

\* event_matches_case.
EventMatches(x, c) ==
    /\ x.event.kind = c.kind
    /\ Inside(x.time, c)
    /\ c.prefix # None => x.event.prefix = c.prefix
    /\ IF c.b # None THEN {x.event.a, x.event.b} = {c.a, c.b} ELSE x.event.a = c.a

Times(S) == {x.time : x \in S}
First(S) == CHOOSE t \in Times(S) : \A u \in Times(S) : t <= u
Last(S) == CHOOSE t \in Times(S) : \A u \in Times(S) : u <= t

\* aggregate_pair_features: the events of a pair, from which its feature follows.
OfPair(E, pair) == {x \in E : {x.event.a, x.event.b} = pair /\ x.event.a # x.event.b}
PairsOf(E) == Pairs({x.event : x \in E})
DaysWith(F, kind) == Times({x \in F : x.event.kind = kind})

\* Mutant: the span of the feature must lie in the window.
Contained(F, c) == First(F) >= c.first /\ Last(F) <= c.last

\* The span of a feature and the window meet.
Overlaps(F, c) == First(F) <= c.last /\ c.first <= Last(F)

\* feature_matches_case, for any feature of the pair, or of asn_a when there is no asn_b.
FeatureMatches(E, pair, c) ==
    LET F == OfPair(E, pair)
    IN  /\ IF c.b # None THEN pair = {c.a, c.b} ELSE c.a \in pair
        /\ Overlaps(F, c)
        /\ c.kind # "footprint_step" => DaysWith(F, c.kind) # {}

\* pair_contact_in_window: the days it may take for the first contact.
Contacts(E, c) ==
    LET F == OfPair(E, {c.a, c.b})
        start == IF First(F) < c.first THEN c.first ELSE First(F)
    IN  IF c.b = None \/ F = {} THEN {}
        ELSE (IF Overlaps(F, c) THEN {start} ELSE {}) \cup {t \in Times(F) : Inside(t, c)}

MinOf(S) == CHOOSE t \in S : \A u \in S : t <= u

\* One row of score_backtest and build_lead_lag_rows.
Score(E, c) ==
    [event |-> \E x \in E : EventMatches(x, c),
     feature |-> \E pair \in PairsOf(E) : FeatureMatches(E, pair, c),
     footprint |-> \E x \in E : /\ x.event.kind = "footprint_step" /\ Inside(x.time, c)
                                /\ x.event.a = IF c.b # None THEN c.b ELSE c.a,
     contact |-> Contacts(E, c) # {},
     lead |-> IF Contacts(E, c) = {} THEN None ELSE c.announce - MinOf(Contacts(E, c))]

\* The cases whose window meets the run's.
Scoped(j) ==
    {c \in j.cases : c.last >= j.start /\ c.first <= j.start + j.days - 1}

\* The reports, and the run ends well.
WriteReport ==
    /\ stage = "diff" /\ at = Samples
    /\ report' = [c \in Scoped(job) |-> Score(events, c)]
    /\ stage' = "idle"
    /\ UNCHANGED <<table, archive, file, job, at, try, used, events, runs, errors, failures,
                   late>>

Next ==
    \/ \E d \in Calendar : Publish(d)
    \/ \E d \in PlannedDay : Delete(d)
    \/ \E j \in Jobs : Start(j)
    \/ Reuse \/ Miss \/ Fetch \/ FetchShort \/ FetchTorn \/ GiveUp \/ Die \/ DiffNext \/ WriteReport

Spec == Init /\ [][Next]_vars

-----------------------------------------------------------------------------
(* Properties. *)

Stage == {"idle", "sample", "diff"}

\* Type correctness.
TypeOK ==
    /\ table \in Tables /\ archive \subseteq Calendar
    /\ DOMAIN file = PlannedDay
    /\ \A d \in PlannedDay :
          file[d] \notin {None, Torn} =>
              /\ file[d].used \in Calendar /\ file[d].focus \subseteq Asn
              /\ DOMAIN file[d].rows \subseteq Prefix
    /\ job \in Jobs \cup {None} /\ stage \in Stage
    /\ stage # "idle" => at \in 1..Samples
    /\ try \in 1..Len(Delta) + 1
    /\ \A i \in DOMAIN used : used[i] \in Calendar \cup {Torn}
    /\ runs \in 0..MaxRuns /\ errors \in 0..MaxErrors /\ failures \in 0..MaxFailures
    /\ late \in 0..MaxLate

\* Samples never go back in time: not at all as long as no fetch failed and no dump
\* came late, although each sample looks for its own neighbour, runs over other
\* windows share the files and each may have stopped anywhere; and whatever happens
\* not between samples a week apart (backtest.rs:104, :86).
SamplesInOrder ==
    \A i, k \in DOMAIN used :
        (i < k /\ Torn \notin {used[i], used[k]}) =>
            /\ (errors = 0 /\ late = 0) => used[i] <= used[k]
            /\ Planned(job)[k] - Planned(job)[i] > 6 => used[i] < used[k]

\* The tables of the days an event compares.
Was(x) == table[x.before]
Is(x) == table[x.time]

\* Sample i's file is still there, from a download that was not cut short.
Whole(i) == Of(i) \notin {None, Torn} /\ Of(i).complete
Within(i, ends) == Of(i).focus = {} \/ ends \subseteq Of(i).focus

\* An ASN that neither the glue nor the threshold takes away.
Fits(a, i) ==
    /\ a \in DOMAIN Orgs \ Glue
    /\ \A k \in {i, i + 1} : Cardinality(Announced(table[used[k]], a)) <= MaxPrefixes

MovesAreReal ==
    \A x \in events : x.event.kind = "prefix_move" =>
        /\ x.event.prefix \in DOMAIN Was(x) \cap DOMAIN Is(x)
        /\ Was(x)[x.event.prefix].origin = x.event.a
        /\ Is(x)[x.event.prefix].origin = x.event.b

MovesAreFound ==
    report # None =>
        \A i \in 1..Samples - 1 :
            Whole(i) /\ Whole(i + 1) =>
                \A p \in Moved(table[used[i]], table[used[i + 1]]) :
                    LET a == table[used[i]][p].origin
                        b == table[used[i + 1]][p].origin
                    IN  (/\ Within(i, {a, b}) /\ Within(i + 1, {a, b})
                         /\ Fits(a, i) /\ Fits(b, i))
                        => \E x \in events : /\ x.before = used[i] /\ x.time = used[i + 1]
                                             /\ x.event = Event("prefix_move", a, b, p)

ChangesAreReal ==
    (report # None /\ \A i, k \in 1..Samples : Whole(i) /\ Of(i).focus = Of(k).focus) =>
        \A x \in events :
            LET e == x.event
                n(snap) == Cardinality(Announced(snap, e.a))
            IN  /\ e.kind = "upstream_converge" =>
                      /\ <<e.a, e.b>> \in Upstreams(Is(x), Asn)
                      /\ <<e.a, e.b>> \notin Upstreams(Was(x), Asn)
                /\ e.kind = "footprint_step" => Abs(n(Is(x)) - n(Was(x))) >= AbsStep

\* An event is about the routing tables of the two days it names.  A torn file is never
\* scored; a file that is short, or was filtered for the cases of another run, hides
\* moves and invents none (ingest lib.rs:96, ma lib.rs:157, backtest.rs:94); every move
\* between two ASNs both files were filtered for is found; and upstreams and footprints
\* are true of the tables when all files are whole and of one focus.
EventsAreExact == MovesAreReal /\ MovesAreFound /\ ChangesAreReal

\* The three scores of a case agree.  An event in the window is a hit of the features
\* too, and a contact whose lead is no shorter; the lead is exactly that of the first
\* event of the window unless the pair was seen before it; and a contact without an
\* event in the window was seen before and after it (features.rs:253, backtest.rs:318).
ScoresAgree ==
    report # None =>
        \A c \in DOMAIN report :
            LET pair == OfPair(events, {c.a, c.b})
                within == {x \in pair : Inside(x.time, c)}
                earlier == {x \in pair : x.time < c.first}
                later == {x \in pair : x.time > c.last}
                row == report[c]
            IN  /\ (row.event /\ c.kind # "footprint_step") => row.feature
                /\ (row.event /\ c.b # None) => row.contact
                /\ (c.b # None /\ within # {}) =>
                      /\ row.contact /\ row.lead >= c.announce - First(within)
                      /\ earlier = {} => row.lead = c.announce - First(within)
                /\ (row.contact /\ within = {}) => earlier # {} /\ later # {}
=============================================================================
