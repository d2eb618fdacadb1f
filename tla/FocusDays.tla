------------------------------ MODULE FocusDays ------------------------------
(***************************************************************************)
(* The daily job over several days (run_daily_after_open, daily.rs), with  *)
(* and without --focus-from-org-map and --focus-asns: what it keeps of     *)
(* each day's routing table in the snapshot files, and which contacts it   *)
(* finds in them when the org map changes between runs and days are run    *)
(* again with another focus.                                               *)
(*                                                                         *)
(* A run is one step here, which DailyJob justifies: under the wrapper's   *)
(* lock runs are equivalent to whole runs one after another.  A run that   *)
(* fails after it wrote the day's file is a step of its own.  Days may be  *)
(* run in any order (--date); the tables of all days are given at the      *)
(* start.                                                                  *)
(***************************************************************************)
EXTENDS ContactDiff

CONSTANTS
    LastDay,     \* bound: days
    Obs,         \* observations [origin, path]
    OrgMaps,     \* the org maps runs may load: the crawl's, with the run's overlays
    Extras       \* the sets of ASNs --focus-asns may name; {} when it is not given

VARIABLES
    table,       \* day -> what the collector's peers announce on that day
    orgs,        \* the org map a run would load now
    maps,        \* history: the org maps there were so far
    file,        \* day -> the snapshot file rib-<day>.json, or None
    narrowed,    \* history: day -> the ASNs that --focus-asns alone left out of its file
    report       \* day -> [prior, events, signals] of its last diff, or None

vars == <<table, orgs, maps, file, narrowed, report>>

Day == 1..LastDay
Snapshot == UNION {[S -> Obs] : S \in SUBSET Prefix}

ASSUME FocusDaysAssumption ==
    /\ LastDay \in Nat
    /\ \A o \in Obs : o.origin \in Asn
    /\ \A m \in OrgMaps : IsOrgMap(m)
    /\ Extras \subseteq SUBSET Asn
    /\ None \notin Snapshot

Init ==
    /\ table \in [Day -> Snapshot]
    /\ orgs \in OrgMaps /\ maps = {orgs}
    /\ file = [d \in Day |-> None]
    /\ narrowed = [d \in Day |-> {}]
    /\ report = [d \in Day |-> None]

\* The weekly crawl commits another org map (OrgMapRefresh, WorkDb), or the next run is
\* given other overlays.
Remap ==
    /\ orgs' \in OrgMaps
    /\ maps' = maps \cup {orgs'}
    /\ UNCHANGED <<table, file, narrowed, report>>

\* The day's snapshot as the run starts: the file of an earlier run, or the table.
Fetched(d) == IF file[d] # None THEN file[d] ELSE table[d]

\* An empty focus is no focus.
Kept(snap, f) == IF f = {} THEN snap ELSE Focused(snap, f)

\* The ASNs of --focus-asns and, with --focus-from-org-map, the subjects by the counts of
\* the day's snapshot as it was found.
Focus(d, focusing, extra) ==
    extra \cup IF focusing THEN Subjects(orgs, Counts(Fetched(d))) ELSE {}

\* What a run leaves out because it was told so by hand, and not by the org map.
Narrowing(d, focusing, extra) ==
    narrowed' = [narrowed EXCEPT ![d] =
                    IF focusing \/ extra = {} THEN @ ELSE @ \cup (Asn \ extra)]

\* Mutant: <= instead of <.
PriorOrSame(d) == {q \in Day : q <= d /\ file[q] # None /\ \A e \in q+1..d-1 : file[e] = None}

\* find_prior_snapshot : the newest file before the day.
Prior(d) == {q \in Day : q < d /\ file[q] # None /\ \A e \in q+1..d-1 : file[e] = None}

\* A run that gets as far as the day's file: it fails then, or there is no prior.
RunFails(d, focusing, extra) ==
    /\ file' = [file EXCEPT ![d] = Kept(Fetched(d), Focus(d, focusing, extra))]
    /\ Narrowing(d, focusing, extra)
    /\ UNCHANGED <<table, orgs, maps, report>>

\* A whole run.
Run(d, focusing, extra, full) ==
    LET f == Focus(d, focusing, extra)
        after == Kept(Fetched(d), f)
    IN  /\ file' = [file EXCEPT ![d] = after]
        /\ Narrowing(d, focusing, extra)
        /\ \E q \in Prior(d) :
              LET events == Diff(Kept(file[q], f), after, orgs)
              IN  report' = [report EXCEPT ![d] =
                     [prior |-> q, events |-> events, signals |-> Signals(events, orgs, full)]]
        /\ UNCHANGED <<table, orgs, maps>>

Next ==
    \/ Remap
    \/ \E d \in Day, focusing \in BOOLEAN, extra \in Extras :
          \/ RunFails(d, focusing, extra)
          \/ \E full \in BOOLEAN : Run(d, focusing, extra, full)

Spec == Init /\ [][Next]_vars

-----------------------------------------------------------------------------
(* Properties. *)

Reported == {d \in Day : report[d] # None}

\* Type correctness.
TypeOK ==
    /\ table \in [Day -> Snapshot]
    /\ orgs \in maps /\ maps \subseteq OrgMaps
    /\ file \in [Day -> Snapshot \cup {None}]
    /\ narrowed \in [Day -> SUBSET Asn]
    /\ DOMAIN report = Day
    /\ \A d \in Reported :
          /\ report[d].prior \in 1..d-1
          /\ report[d].signals \subseteq SUBSET Asn

\* Every prefix_move names a prefix whose origin on the earlier day and on the later
\* day really were the two ASNs it names, however the files were filtered since.
MovesAreReal ==
    \A d \in Reported : \A e \in report[d].events :
        LET was == table[report[d].prior]
            is == table[d]
        IN  e.kind = "prefix_move" =>
                /\ e.prefix \in DOMAIN was /\ was[e.prefix].origin = e.a
                /\ e.prefix \in DOMAIN is /\ is[e.prefix].origin = e.b
                /\ e.a # e.b

\* Between days q and d: an ASN that every org map so far had, that is no glue, announced
\* too much on neither day and was left out of neither file by hand.  An ASN that announces
\* nothing on the later day counts only if no hint of its org ever said that it is too
\* small or too large.
Steady(a, q, d) ==
    /\ a \notin Glue
    /\ \A m \in maps : a \in DOMAIN m
    /\ \A e \in {q, d} : Cardinality(Announced(table[e], a)) <= MaxPrefixes
    /\ a \notin narrowed[q] \cup narrowed[d]
    /\ \/ Announced(table[d], a) # {}
       \/ \A m \in maps : \E hint \in m[a] : Eligible(hint)

\* The prefixes that really went from one of the pair to the other.
RealMoves(q, d, pair) ==
    {p \in Moved(table[q], table[d]) : {table[q][p].origin, table[d][p].origin} = pair}

\* A contact between two steady ASNs is reported: filtering the files, filtering them
\* again on reruns with another focus and counting prefixes in filtered files lose no move
\* of theirs, and neither does an ASN that gave up its last prefix (daily.rs:114-170,
\* bgp-map lib.rs:274).
MovesAreReported ==
    \A d \in Reported :
        LET q == report[d].prior
        IN  \A a, b \in Asn :
                /\ Steady(a, q, d) /\ Steady(b, q, d)
                /\ \A m \in maps : Clean({a, b}, m)
                /\ Cardinality(RealMoves(q, d, {a, b})) >= MinMoves
                => {a, b} \in report[d].signals

\* With --full: what is said of a steady origin's upstreams and footprint is true of
\* the two days' tables and not only of the two files.
ChangesAreReal ==
    \A d \in Reported : \A e \in report[d].events :
        LET q == report[d].prior
            n(snap) == Cardinality(Announced(snap, e.a))
        IN  Steady(e.a, q, d) =>
                /\ e.kind = "upstream_converge" =>
                      /\ <<e.a, e.b>> \in Upstreams(table[d], Asn)
                      /\ <<e.a, e.b>> \notin Upstreams(table[q], Asn)
                /\ e.kind = "footprint_step" => Abs(n(table[d]) - n(table[q])) >= AbsStep
=============================================================================
