----------------------------- MODULE ContactDiff -----------------------------
(***************************************************************************)
(* How two snapshots become the pairs of a day (crates/bgp-ma): subjects,  *)
(* the four kinds of events, the sparse filter, the pairs and the clean    *)
(* filter, as functions of the snapshots and of the org map.               *)
(*                                                                         *)
(* A snapshot is a partial function from prefixes to observations          *)
(* [origin, path]; the upstream that from_rib stores beside them is a      *)
(* function of the two.  An org map is a function from the ASNs it maps to *)
(* the prefix_count_hints of the orgs that list them (overlays have hints, *)
(* the database none); OrgOf is the org an ASN then resolves to.  An ASN   *)
(* pair is a set of two ASNs.  Names, domains and the ranking score only   *)
(* ride along.                                                             *)
(***************************************************************************)
EXTENDS Integers, Sequences, FiniteSets

CONSTANTS
    Asn, Prefix,
    OrgOf,        \* ASN -> its org when it is mapped
    Related,      \* pairs {org, org} that share a domain
    Glue,         \* ASNs that are only path context
    Leasing,      \* ASNs of address lessors
    MaxPrefixes,  \* SubjectHeuristics::max_prefixes
    MinMoves,     \* --min-prefix-moves
    AbsStep,      \* --footprint-abs-threshold
    RelStep,      \* --footprint-rel-threshold, as <<numerator, denominator>>
    None          \* no ASN, no prefix, no count

\* A threshold of no moves is one of one move: a pair without a move is no pair.
ASSUME ContactDiffAssumption ==
    /\ IsFiniteSet(Prefix)
    /\ Asn \subseteq Nat /\ None \notin Nat
    /\ MaxPrefixes \in Nat /\ MinMoves \in Nat \ {0} /\ AbsStep \in Nat

-----------------------------------------------------------------------------
(* Snapshots, subjects and focus. *)

Announced(snap, a) == {p \in DOMAIN snap : snap[p].origin = a}

\* prefix_count_by_origin: an ASN that originates nothing has no entry.
Counts(snap) ==
    [a \in {snap[p].origin : p \in DOMAIN snap} |-> Cardinality(Announced(snap, a))]

\* The larger of two days' counts.
Larger(f, g) ==
    [a \in DOMAIN f \cup DOMAIN g |->
        IF a \notin DOMAIN g \/ (a \in DOMAIN f /\ f[a] > g[a]) THEN f[a] ELSE g[a]]

IsOrgMap(orgs) ==
    /\ DOMAIN orgs \subseteq Asn
    /\ \A a \in DOMAIN orgs : orgs[a] # {} /\ orgs[a] \subseteq Nat \cup {None}

\* is_subject, of an ASN that is no glue.
Eligible(count) == count = None \/ count \in 1..MaxPrefixes

\* Mutant: an ASN without a count counts as one that originates nothing.
SubjectsCounted(orgs, counts) ==
    {a \in DOMAIN orgs \ Glue : a \in DOMAIN counts /\ Eligible(counts[a])}

\* subject_asns: without a count the hint of the org decides, and without a hint nothing.
Subjects(orgs, counts) ==
    {a \in DOMAIN orgs \ Glue :
        \E hint \in orgs[a] : Eligible(IF a \in DOMAIN counts THEN counts[a] ELSE hint)}

\* filter_snapshot_focus.
Focused(snap, focus) ==
    [p \in {q \in DOMAIN snap : snap[q].origin \in focus} |-> snap[p]]

-----------------------------------------------------------------------------
(* Events. *)

Event(kind, a, b, p) == [kind |-> kind, a |-> a, b |-> b, prefix |-> p]

Moved(before, after) ==
    {p \in DOMAIN after \cap DOMAIN before : before[p].origin # after[p].origin}

\* Mutant: the two ends swapped.
SwappedMoves(before, after, subjects) ==
    {Event("prefix_move", after[p].origin, before[p].origin, p) :
        p \in {q \in Moved(before, after) :
                  LET ends == {before[q].origin, after[q].origin}
                  IN  ends \cap subjects # {} /\ ends \cap Glue = {}}}

PrefixMoves(before, after, subjects) ==
    {Event("prefix_move", before[p].origin, after[p].origin, p) :
        p \in {q \in Moved(before, after) :
                  LET ends == {before[q].origin, after[q].origin}
                  IN  ends \cap subjects # {} /\ ends \cap Glue = {}}}

\* The hops of a path without its prepending, nearest to the observer first.
Hops(path) ==
    {<<path[i], path[i + 1]>> : i \in {j \in 1..Len(path) - 1 : path[j] # path[j + 1]}}

LastOf(S) == CHOOSE i \in S : \A j \in S : j <= i

\* upstream_of_origin: the last other ASN before the origin's last place.
Upstream(obs) ==
    LET places == {i \in 1..Len(obs.path) : obs.path[i] = obs.origin}
        others == {i \in 1..Len(obs.path) :
                      obs.path[i] # obs.origin /\ \E j \in places : i < j}
    IN  IF others = {} THEN None ELSE obs.path[LastOf(others)]

Upstreams(snap, subjects) ==
    {<<snap[p].origin, Upstream(snap[p])>> :
        p \in {q \in DOMAIN snap : snap[q].origin \in subjects /\ Upstream(snap[q]) # None}}

SameOrg(a, b, orgs) == {a, b} \subseteq DOMAIN orgs /\ OrgOf[a] = OrgOf[b]

\* Mutant: the sets the wrong way round.
LostUpstreams(before, after, subjects, orgs) ==
    {Event("upstream_converge", u[1], u[2], None) :
        u \in {v \in Upstreams(before, subjects) \ Upstreams(after, subjects) :
                  {v[1], v[2]} \cap Glue = {} /\ ~SameOrg(v[1], v[2], orgs)}}

NewUpstreams(before, after, subjects, orgs) ==
    {Event("upstream_converge", u[1], u[2], None) :
        u \in {v \in Upstreams(after, subjects) \ Upstreams(before, subjects) :
                  {v[1], v[2]} \cap Glue = {} /\ ~SameOrg(v[1], v[2], orgs)}}

\* watchlist_adjacencies over a whole snapshot.
Adjacencies(snap, subjects) ==
    {{h[1], h[2]} : h \in {g \in UNION {Hops(snap[p].path) : p \in DOMAIN snap} :
                              {g[1], g[2]} \subseteq subjects \ Glue}}

NewAdjacencies(before, after, subjects) ==
    LET new == Adjacencies(after, subjects) \ Adjacencies(before, subjects)
    IN  {Event("new_adj", e[1], e[2], None) :
            e \in {f \in Asn \X Asn : f[1] < f[2] /\ {f[1], f[2]} \in new}}

Abs(n) == IF n < 0 THEN -n ELSE n

FootprintSteps(before, after, subjects) ==
    LET was(a) == Cardinality(Announced(before, a))
        delta(a) == Abs(Cardinality(Announced(after, a)) - was(a))
        base(a) == IF was(a) = 0 THEN 1 ELSE was(a)
        large(a) == /\ delta(a) >= AbsStep
                    /\ \/ delta(a) * RelStep[2] >= RelStep[1] * base(a)
                       \/ delta(a) >= 4 * AbsStep
        origins == DOMAIN Counts(before) \cup DOMAIN Counts(after)
    IN  {Event("footprint_step", a, None, None) : a \in {b \in origins \cap subjects : large(b)}}

\* diff_snapshots.
Diff(before, after, orgs) ==
    LET subjects == Subjects(orgs, Larger(Counts(before), Counts(after)))
    IN  PrefixMoves(before, after, subjects)
        \cup NewUpstreams(before, after, subjects, orgs)
        \cup NewAdjacencies(before, after, subjects)
        \cup FootprintSteps(before, after, subjects)

-----------------------------------------------------------------------------
(* Pairs. *)

\* filter_sparse_events and, with --full, its absence.
Sparse(events, full) ==
    LET moves(pair) == {e \in events : e.kind = "prefix_move" /\ {e.a, e.b} = pair}
    IN  IF full THEN events
        ELSE {e \in events : e.kind = "prefix_move" /\ Cardinality(moves({e.a, e.b})) >= MinMoves}

\* aggregate_pair_features of one day.
Pairs(events) == {{e.a, e.b} : e \in {f \in events : f.b # None /\ f.a # f.b}}

\* clean_drop_reason finds none.
Clean(pair, orgs) ==
    /\ pair \cap (Glue \cup Leasing) = {}
    /\ pair \subseteq DOMAIN orgs
    /\ Cardinality({OrgOf[a] : a \in pair}) > 1
    /\ {OrgOf[a] : a \in pair} \notin Related

\* The pairs the day commits.
Signals(events, orgs, full) == {pair \in Pairs(Sparse(events, full)) : Clean(pair, orgs)}
=============================================================================
