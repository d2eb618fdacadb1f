-------------------------- MODULE FocusDays_proofs --------------------------
(***************************************************************************)
(* Proofs about ContactDiff and FocusDays, for any ASNs, prefixes,         *)
(* observations, org maps, thresholds and any number of days.              *)
(*                                                                         *)
(* The invariant is FilesOK: a day's file is a part of the day's table     *)
(* that has every row of every ASN that all org maps so far had, that is   *)
(* neither glue nor too large and that no --focus-asns alone has left out  *)
(* (KeepsAll).  A rerun finds in such a file the true count of such an     *)
(* ASN, and takes it for a subject again, or finds no row, and then        *)
(* whatever it leaves out of this file is none of that ASN's.  Out of the  *)
(* prior's file it leaves such an ASN only by the hint of its org.  With   *)
(* both files of a diff like that, its events about those ASNs are those   *)
(* of the two tables.                                                      *)
(***************************************************************************)
EXTENDS FocusDays, FiniteSetTheorems, TLAPS

-----------------------------------------------------------------------------
(* Snapshots and their parts. *)

Part(s, t) == DOMAIN s \subseteq DOMAIN t /\ \A p \in DOMAIN s : s[p] = t[p]

\* A part that has every row of an origin.
KeepsAll(s, t, a) == Part(s, t) /\ \A p \in DOMAIN t : t[p].origin = a => p \in DOMAIN s

LEMMA SnapshotFacts ==
    ASSUME NEW s \in Snapshot
    PROVE  /\ DOMAIN s \subseteq Prefix /\ IsFiniteSet(DOMAIN s)
           /\ \A p \in DOMAIN s : s[p] \in Obs /\ s[p].origin \in Asn
<1>1. PICK S \in SUBSET Prefix : s \in [S -> Obs]
  BY DEF Snapshot
<1>2. IsFiniteSet(S)
  BY FS_Subset, ContactDiffAssumption
<1> QED  BY <1>1, <1>2, FocusDaysAssumption

LEMMA AnnouncedFacts ==
    ASSUME NEW s \in Snapshot, NEW a
    PROVE  /\ IsFiniteSet(Announced(s, a)) /\ Cardinality(Announced(s, a)) \in Nat
           /\ a \in DOMAIN Counts(s) <=> Announced(s, a) # {}
           /\ a \in DOMAIN Counts(s) =>
                 Counts(s)[a] = Cardinality(Announced(s, a)) /\ Counts(s)[a] \in Nat \ {0}
<1>1. IsFiniteSet(Announced(s, a))
  BY SnapshotFacts, FS_Subset DEF Announced
<1>2. Cardinality(Announced(s, a)) \in Nat
  BY <1>1, FS_CardinalityType
<1>3. Announced(s, a) # {} => Cardinality(Announced(s, a)) # 0
  BY <1>1, FS_EmptySet
<1>4. DOMAIN Counts(s) = {s[p].origin : p \in DOMAIN s}
  BY DEF Counts
<1>5. a \in DOMAIN Counts(s) <=> Announced(s, a) # {}
  BY <1>4 DEF Announced
<1>6. a \in DOMAIN Counts(s) => Counts(s)[a] = Cardinality(Announced(s, a))
  BY DEF Counts
<1> QED  BY <1>1, <1>2, <1>3, <1>5, <1>6

LEMMA PartAnnounced ==
    ASSUME NEW s \in Snapshot, NEW t \in Snapshot, Part(s, t), NEW a
    PROVE  /\ Announced(s, a) \subseteq Announced(t, a)
           /\ Cardinality(Announced(s, a)) <= Cardinality(Announced(t, a))
           /\ KeepsAll(s, t, a) => Announced(s, a) = Announced(t, a)
<1>1. Announced(s, a) \subseteq Announced(t, a)
  BY DEF Part, Announced
<1>2. Cardinality(Announced(s, a)) <= Cardinality(Announced(t, a))
  BY <1>1, AnnouncedFacts, FS_Subset
<1>3. KeepsAll(s, t, a) => Announced(t, a) \subseteq Announced(s, a)
  BY DEF KeepsAll, Part, Announced
<1> QED  BY <1>1, <1>2, <1>3

\* The focus filter keeps every row of what is in focus.
LEMMA KeptFacts ==
    ASSUME NEW s \in Snapshot, NEW f
    PROVE  /\ Kept(s, f) \in Snapshot /\ Part(Kept(s, f), s)
           /\ \A a : f = {} \/ a \in f => KeepsAll(Kept(s, f), s, a)
<1>1. CASE f = {}
  BY <1>1 DEF Kept, Part, KeepsAll
<1>2. CASE f # {}
  <2> DEFINE S == {q \in DOMAIN s : s[q].origin \in f}
  <2>1. Kept(s, f) = [p \in S |-> s[p]]
    BY <1>2 DEF Kept, Focused
  <2>2. S \in SUBSET Prefix /\ [p \in S |-> s[p]] \in [S -> Obs]
    BY SnapshotFacts
  <2>3. Kept(s, f) \in Snapshot
    BY <2>1, <2>2 DEF Snapshot
  <2> QED  BY <1>2, <2>1, <2>3 DEF Part, KeepsAll
<1> QED  BY <1>1, <1>2

LEMMA PartTransitive ==
    ASSUME NEW r, NEW s, NEW t, Part(r, s), Part(s, t)
    PROVE  /\ Part(r, t)
           /\ \A a : KeepsAll(r, s, a) /\ KeepsAll(s, t, a) => KeepsAll(r, t, a)
BY DEF Part, KeepsAll

-----------------------------------------------------------------------------
(* Subjects. *)

\* What decides on an ASN that has no count.
Hinted(m, a) == \E hint \in m[a] : Eligible(hint)

\* A mapped ASN that is no glue and not too large is a subject also by the counts of
\* a part of the table, if it has a row there or a hint that lets it be one.
LEMMA SmallIsSubject ==
    ASSUME NEW s \in Snapshot, NEW t \in Snapshot, Part(s, t),
           NEW m, IsOrgMap(m), NEW a \in DOMAIN m \ Glue,
           Cardinality(Announced(t, a)) <= MaxPrefixes
    PROVE  /\ a \in DOMAIN Counts(s) => Counts(s)[a] \in 1..MaxPrefixes
           /\ Announced(s, a) # {} \/ Hinted(m, a) => a \in Subjects(m, Counts(s))
<1>1. /\ a \in DOMAIN Counts(s) => Counts(s)[a] = Cardinality(Announced(s, a)) /\ Counts(s)[a] \in Nat \ {0}
      /\ Cardinality(Announced(s, a)) \in Nat /\ Cardinality(Announced(t, a)) \in Nat
      /\ a \in DOMAIN Counts(s) <=> Announced(s, a) # {}
  BY AnnouncedFacts
<1>2. Cardinality(Announced(s, a)) <= Cardinality(Announced(t, a))
  BY PartAnnounced
<1>3. a \in DOMAIN Counts(s) => Counts(s)[a] \in 1..MaxPrefixes
  BY <1>1, <1>2, ContactDiffAssumption
<1>4. PICK hint \in m[a] : TRUE
  BY DEF IsOrgMap
<1>5. a \in DOMAIN Counts(s) => a \in Subjects(m, Counts(s))
  BY <1>3, <1>4 DEF Subjects, Eligible
<1>6. a \notin DOMAIN Counts(s) /\ Hinted(m, a) => a \in Subjects(m, Counts(s))
  BY DEF Subjects, Hinted
<1> QED  BY <1>1, <1>3, <1>5, <1>6

SubjectsOf(before, after, m) == Subjects(m, Larger(Counts(before), Counts(after)))

\* The same of the larger of two days' counts.
LEMMA SmallIsSubjectOf ==
    ASSUME NEW s \in Snapshot, NEW t \in Snapshot, Part(s, t),
           NEW s2 \in Snapshot, NEW t2 \in Snapshot, Part(s2, t2),
           NEW m, IsOrgMap(m), NEW a \in DOMAIN m \ Glue,
           Cardinality(Announced(t, a)) <= MaxPrefixes,
           Cardinality(Announced(t2, a)) <= MaxPrefixes,
           Announced(s2, a) # {} \/ Hinted(m, a)
    PROVE  a \in SubjectsOf(s, s2, m)
<1>1. /\ a \in DOMAIN Counts(s) => Counts(s)[a] \in 1..MaxPrefixes
      /\ a \in DOMAIN Counts(s2) => Counts(s2)[a] \in 1..MaxPrefixes
  BY SmallIsSubject
<1>2. a \in DOMAIN Counts(s2) <=> Announced(s2, a) # {}
  BY AnnouncedFacts
<1> DEFINE c == Larger(Counts(s), Counts(s2))
<1>3. a \in DOMAIN c => c[a] \in 1..MaxPrefixes
  BY <1>1 DEF Larger
<1>4. a \notin DOMAIN c => Hinted(m, a)
  BY <1>2 DEF Larger
<1>5. PICK hint \in m[a] : TRUE
  BY DEF IsOrgMap
<1> HIDE DEF c
<1>6. a \in Subjects(m, c)
  BY <1>3, <1>4, <1>5 DEF Subjects, Hinted, Eligible
<1> QED  BY <1>6 DEF SubjectsOf, c
-----------------------------------------------------------------------------
(* The events of a diff. *)

\* Each kind of event comes from its own part of diff_snapshots.
LEMMA EventsByKind ==
    ASSUME NEW before, NEW after, NEW m, NEW e \in Diff(before, after, m)
    PROVE  LET subjects == SubjectsOf(before, after, m)
           IN  /\ e.kind = "prefix_move" => e \in PrefixMoves(before, after, subjects)
               /\ e.kind = "upstream_converge" => e \in NewUpstreams(before, after, subjects, m)
               /\ e.kind = "footprint_step" => e \in FootprintSteps(before, after, subjects)
<1> DEFINE subjects == SubjectsOf(before, after, m)
<1>1. \/ e \in PrefixMoves(before, after, subjects)
      \/ e \in NewUpstreams(before, after, subjects, m)
      \/ e \in NewAdjacencies(before, after, subjects)
      \/ e \in FootprintSteps(before, after, subjects)
  BY DEF Diff, SubjectsOf
<1>2. e \in PrefixMoves(before, after, subjects) => e.kind = "prefix_move"
  BY DEF PrefixMoves, Event
<1>3. e \in NewUpstreams(before, after, subjects, m) => e.kind = "upstream_converge"
  BY DEF NewUpstreams, Event
<1>4. e \in NewAdjacencies(before, after, subjects) => e.kind = "new_adj"
  <2>1. ASSUME e \in NewAdjacencies(before, after, subjects)
        PROVE  \E f \in Asn \X Asn : e = Event("new_adj", f[1], f[2], None)
    BY <2>1 DEF NewAdjacencies
  <2> QED  BY <2>1 DEF Event
<1>5. e \in FootprintSteps(before, after, subjects) => e.kind = "footprint_step"
  BY DEF FootprintSteps, Event
<1> HIDE DEF subjects
<1> QED  BY <1>1, <1>2, <1>3, <1>4, <1>5 DEF subjects

\* A move between two parts is a move between the tables.
LEMMA DiffMovesReal ==
    ASSUME NEW before, NEW was, Part(before, was), NEW after, NEW is, Part(after, is),
           NEW m, NEW e \in Diff(before, after, m), e.kind = "prefix_move"
    PROVE  /\ e.prefix \in DOMAIN was /\ was[e.prefix].origin = e.a
           /\ e.prefix \in DOMAIN is /\ is[e.prefix].origin = e.b
           /\ e.a # e.b
<1> DEFINE subjects == SubjectsOf(before, after, m)
<1>1. e \in PrefixMoves(before, after, subjects)
  BY EventsByKind
<1>2. PICK p \in Moved(before, after) :
          e = Event("prefix_move", before[p].origin, after[p].origin, p)
  BY <1>1 DEF PrefixMoves
<1> QED  BY <1>2 DEF Moved, Part, Event

\* A subject whose rows both parts have.
Whole(before, was, after, is, m, a) ==
    /\ KeepsAll(before, was, a) /\ KeepsAll(after, is, a)
    /\ a \in DOMAIN m \ Glue
    /\ Announced(is, a) # {} \/ Hinted(m, a)
    /\ Cardinality(Announced(was, a)) <= MaxPrefixes
    /\ Cardinality(Announced(is, a)) <= MaxPrefixes

\* What is said of such a subject's upstreams and footprint is true of the tables.
LEMMA DiffChangesReal ==
    ASSUME NEW before \in Snapshot, NEW was \in Snapshot, Part(before, was),
           NEW after \in Snapshot, NEW is \in Snapshot, Part(after, is),
           NEW m, IsOrgMap(m), NEW e \in Diff(before, after, m),
           Whole(before, was, after, is, m, e.a)
    PROVE  /\ e.kind = "upstream_converge" =>
                 /\ <<e.a, e.b>> \in Upstreams(is, Asn)
                 /\ <<e.a, e.b>> \notin Upstreams(was, Asn)
           /\ e.kind = "footprint_step" =>
                 Abs(Cardinality(Announced(is, e.a)) - Cardinality(Announced(was, e.a))) >= AbsStep
<1> DEFINE subjects == SubjectsOf(before, after, m)
<1>1. e.a \in subjects
  BY PartAnnounced, SmallIsSubjectOf DEF Whole
<1>2. ASSUME e.kind = "upstream_converge"
      PROVE  /\ <<e.a, e.b>> \in Upstreams(is, Asn)
             /\ <<e.a, e.b>> \notin Upstreams(was, Asn)
  <2>1. e \in NewUpstreams(before, after, subjects, m)
    BY <1>2, EventsByKind
  <2>2. PICK u \in Upstreams(after, subjects) \ Upstreams(before, subjects) :
            e = Event("upstream_converge", u[1], u[2], None)
    BY <2>1 DEF NewUpstreams
  <2>3. PICK p \in DOMAIN after :
            /\ after[p].origin \in subjects /\ Upstream(after[p]) # None
            /\ u = <<after[p].origin, Upstream(after[p])>>
    BY <2>2 DEF Upstreams
  <2>4. e.a = u[1] /\ e.b = u[2] /\ u = <<e.a, e.b>>
    BY <2>2, <2>3 DEF Event
  <2>5. p \in DOMAIN is /\ is[p] = after[p] /\ is[p].origin \in Asn
    BY <2>3, SnapshotFacts DEF Part
  <2>6. u \in Upstreams(is, Asn)
    BY <2>3, <2>5 DEF Upstreams
  <2>7. ASSUME u \in Upstreams(was, Asn) PROVE FALSE
    <3>1. PICK q \in DOMAIN was :
              /\ Upstream(was[q]) # None
              /\ u = <<was[q].origin, Upstream(was[q])>>
      BY <2>7 DEF Upstreams
    <3>2. was[q].origin = e.a
      BY <3>1, <2>4
    <3>3. q \in DOMAIN before /\ before[q] = was[q]
      BY <3>2 DEF Whole, KeepsAll, Part
    <3>4. u \in Upstreams(before, subjects)
      BY <3>1, <3>2, <3>3, <1>1 DEF Upstreams
    <3> QED  BY <3>4, <2>2
  <2> QED  BY <2>4, <2>6, <2>7
<1>3. ASSUME e.kind = "footprint_step"
      PROVE  Abs(Cardinality(Announced(is, e.a)) - Cardinality(Announced(was, e.a))) >= AbsStep
  <2>1. e \in FootprintSteps(before, after, subjects)
    BY <1>3, EventsByKind
  <2>2. PICK a \in subjects :
            /\ e = Event("footprint_step", a, None, None)
            /\ Abs(Cardinality(Announced(after, a)) - Cardinality(Announced(before, a))) >= AbsStep
    BY <2>1 DEF FootprintSteps
  <2>3. e.a = a
    BY <2>2 DEF Event
  <2>4. Announced(after, e.a) = Announced(is, e.a) /\ Announced(before, e.a) = Announced(was, e.a)
    BY PartAnnounced DEF Whole
  <2> QED  BY <2>2, <2>3, <2>4
<1> QED  BY <1>2, <1>3

\* The prefixes that go from one of a pair to the other.
MovesOf(was, is, pair) == {p \in Moved(was, is) : {was[p].origin, is[p].origin} = pair}

\* Enough moves between two such subjects make their pair a signal.
LEMMA DiffMovesReported ==
    ASSUME NEW before \in Snapshot, NEW was \in Snapshot, Part(before, was),
           NEW after \in Snapshot, NEW is \in Snapshot, Part(after, is),
           NEW m, IsOrgMap(m), NEW a \in Asn, NEW b \in Asn,
           Whole(before, was, after, is, m, a), Whole(before, was, after, is, m, b),
           Clean({a, b}, m),
           Cardinality(MovesOf(was, is, {a, b})) >= MinMoves,
           NEW full \in BOOLEAN
    PROVE  {a, b} \in Signals(Diff(before, after, m), m, full)
<1> DEFINE subjects == SubjectsOf(before, after, m)
           events == Diff(before, after, m)
           real == MovesOf(was, is, {a, b})
           move(p) == Event("prefix_move", before[p].origin, after[p].origin, p)
           moves == {e \in events : e.kind = "prefix_move" /\ {e.a, e.b} = {a, b}}
<1>1. a \in subjects /\ b \in subjects
  BY PartAnnounced, SmallIsSubjectOf DEF Whole
<1>2. ASSUME NEW p \in real
      PROVE  /\ p \in Moved(before, after)
             /\ before[p].origin = was[p].origin /\ after[p].origin = is[p].origin
  <2>1. /\ p \in DOMAIN was \cap DOMAIN is /\ was[p].origin # is[p].origin
        /\ was[p].origin \in {a, b} /\ is[p].origin \in {a, b}
    BY DEF MovesOf, Moved
  <2>2. p \in DOMAIN before /\ p \in DOMAIN after
    BY <2>1 DEF Whole, KeepsAll
  <2> QED  BY <2>1, <2>2 DEF Part, Moved
<1>3. ASSUME NEW p \in real  PROVE move(p) \in moves
  <2>1. {before[p].origin, after[p].origin} = {a, b} /\ p \in Moved(before, after)
    BY <1>2 DEF MovesOf
  <2>2. {a, b} \cap subjects # {} /\ {a, b} \cap Glue = {}
    BY <1>1 DEF Whole
  <2>3. move(p) \in PrefixMoves(before, after, subjects)
    BY <2>1, <2>2 DEF PrefixMoves
  <2>4. move(p) \in events
    BY <2>3 DEF Diff, SubjectsOf
  <2>5. move(p).kind = "prefix_move" /\ {move(p).a, move(p).b} = {a, b}
    BY <2>1 DEF Event
  <2> QED  BY <2>4, <2>5
<1>4. IsFiniteSet(real) /\ real \subseteq Prefix
  <2>1. real \subseteq Prefix
    BY SnapshotFacts DEF MovesOf, Moved
  <2> QED  BY <2>1, FS_Subset, ContactDiffAssumption
<1>5. real # {}
  <2>1. Cardinality(real) >= MinMoves
    OBVIOUS
  <2> HIDE DEF real
  <2> QED  BY <2>1, FS_EmptySet, ContactDiffAssumption
<1>6. IsFiniteSet(moves)
  <2>1. moves \subseteq PrefixMoves(before, after, subjects)
    BY EventsByKind
  <2>2. IsFiniteSet(Moved(before, after))
    BY SnapshotFacts, FS_Subset DEF Moved
  <2>3. IsFiniteSet({move(p) : p \in Moved(before, after)})
    <3> DEFINE f == [p \in Moved(before, after) |-> move(p)]
    <3>1. f \in Surjection(Moved(before, after), {move(p) : p \in Moved(before, after)})
      BY DEF Surjection
    <3> HIDE DEF f
    <3> QED  BY <3>1, <2>2, FS_Surjection
  <2>4. PrefixMoves(before, after, subjects) \subseteq {move(p) : p \in Moved(before, after)}
    BY DEF PrefixMoves
  <2>5. moves \subseteq {move(p) : p \in Moved(before, after)}
    BY <2>1, <2>4
  <2> QED  BY <2>3, <2>5, FS_Subset
<1>7. Cardinality(moves) >= MinMoves
  <2> DEFINE g == [p \in real |-> move(p)]
  <2>1. g \in Injection(real, moves)
    <3>1. \A p \in real : g[p].prefix = p
      BY DEF Event
    <3>2. g \in [real -> moves]
      BY <1>3
    <3> HIDE DEF g
    <3> QED  BY <3>1, <3>2 DEF Injection, IsInjective
  <2> HIDE DEF g
  <2>2. Cardinality(real) <= Cardinality(moves)
    BY <2>1, <1>6, FS_Injection
  <2> QED  BY <2>2, <1>4, <1>6, FS_CardinalityType, ContactDiffAssumption
<1>8. PICK e \in moves : TRUE
  BY <1>3, <1>5
<1>9. e \in Sparse(events, full)
  BY <1>7, <1>8 DEF Sparse
<1>10. e.b \in Asn /\ e.a # e.b
  <2>1. e.a # e.b
    BY <1>8, DiffMovesReal
  <2> QED  BY <1>8, <2>1
<1>11. {a, b} \in Pairs(Sparse(events, full))
  BY <1>8, <1>9, <1>10, ContactDiffAssumption DEF Pairs
<1> QED  BY <1>11 DEF Signals
-----------------------------------------------------------------------------
(* The days. *)

\* The ASNs whose rows the file of a day must have.
Small(d) ==
    {a \in Asn \ Glue : /\ \A m \in maps : a \in DOMAIN m
                        /\ Cardinality(Announced(table[d], a)) <= MaxPrefixes
                        /\ a \notin narrowed[d]}

\* A part of a table that has every row of the given ASNs.
Faithful(s, t, S) == s \in Snapshot /\ Part(s, t) /\ \A a \in S : KeepsAll(s, t, a)

FilesOK == \A d \in Day : file[d] # None => Faithful(file[d], table[d], Small(d))

Inv == TypeOK /\ FilesOK /\ MovesAreReal /\ MovesAreReported /\ ChangesAreReal

LEMMA InitInv == Init => Inv
<1> SUFFICES ASSUME Init PROVE Inv
  OBVIOUS
<1>1. Reported = {}
  BY DEF Init, Reported
<1>2. TypeOK
  BY <1>1 DEF Init, TypeOK
<1>3. FilesOK
  BY DEF Init, FilesOK
<1> QED  BY <1>1, <1>2, <1>3 DEF Inv, MovesAreReal, MovesAreReported, ChangesAreReal

LEMMA FetchedFaithful ==
    ASSUME Inv, NEW d \in Day
    PROVE  Faithful(Fetched(d), table[d], Small(d))
<1>1. table[d] \in Snapshot
  BY DEF Inv, TypeOK
<1> QED  BY <1>1 DEF Inv, FilesOK, Fetched, Faithful, Part, KeepsAll

\* What a step does to the history: maps and hand-made gaps only grow.
Grows == maps \subseteq maps' /\ \A d \in Day : narrowed[d] \subseteq narrowed'[d]

LEMMA NarrowingGrows ==
    ASSUME Inv, NEW d \in Day, NEW focusing \in BOOLEAN, NEW extra \in Extras,
           Narrowing(d, focusing, extra), UNCHANGED maps
    PROVE  /\ Grows /\ narrowed' \in [Day -> SUBSET Asn]
           /\ ~focusing /\ extra # {} => Asn \ extra \subseteq narrowed'[d]
BY FocusDaysAssumption DEF Narrowing, Grows, Inv, TypeOK

\* The focus of a run is empty or has each of them that has a row or a good hint.
LEMMA FocusHas ==
    ASSUME Inv, NEW d \in Day, NEW focusing \in BOOLEAN, NEW extra \in Extras,
           Narrowing(d, focusing, extra), UNCHANGED <<table, maps>>
    PROVE  \A a \in Small(d)' :
              Announced(table[d], a) # {} \/ Hinted(orgs, a) =>
                  Focus(d, focusing, extra) = {} \/ a \in Focus(d, focusing, extra)
<1> SUFFICES ASSUME NEW a \in Small(d)', Announced(table[d], a) # {} \/ Hinted(orgs, a)
             PROVE  Focus(d, focusing, extra) = {} \/ a \in Focus(d, focusing, extra)
  OBVIOUS
<1>1. a \in Small(d) /\ a \notin narrowed'[d]
  BY NarrowingGrows DEF Small, Grows
<1>2. CASE focusing
  <2>1. Fetched(d) \in Snapshot /\ Part(Fetched(d), table[d]) /\ KeepsAll(Fetched(d), table[d], a)
    BY <1>1, FetchedFaithful DEF Faithful
  <2>2. table[d] \in Snapshot /\ IsOrgMap(orgs)
    BY FocusDaysAssumption DEF Inv, TypeOK
  <2>3. Announced(Fetched(d), a) = Announced(table[d], a)
    BY <2>1, <2>2, PartAnnounced
  <2>4. a \in DOMAIN orgs \ Glue /\ Cardinality(Announced(table[d], a)) <= MaxPrefixes
    BY <1>1 DEF Small, Inv, TypeOK
  <2>5. a \in Subjects(orgs, Counts(Fetched(d)))
    BY <2>1, <2>2, <2>3, <2>4, SmallIsSubject
  <2> QED  BY <1>2, <2>5 DEF Focus
<1>3. CASE ~focusing /\ extra # {}
  <2>1. a \in extra
    BY <1>1, <1>3, NarrowingGrows DEF Small
  <2> QED  BY <2>1 DEF Focus
<1>4. CASE ~focusing /\ extra = {}
  BY <1>4 DEF Focus
<1> QED  BY <1>2, <1>3, <1>4

\* Filtering loses no row of an ASN in focus, and none of one that has none.
LEMMA KeptFaithful ==
    ASSUME NEW s, NEW t \in Snapshot, NEW S, Faithful(s, t, S), NEW f,
           \A a \in S : Announced(t, a) # {} => f = {} \/ a \in f
    PROVE  Faithful(Kept(s, f), t, S)
<1>1. s \in Snapshot /\ Part(s, t) /\ \A a \in S : KeepsAll(s, t, a)
  BY DEF Faithful
<1>2. /\ Kept(s, f) \in Snapshot /\ Part(Kept(s, f), s)
      /\ \A a : f = {} \/ a \in f => KeepsAll(Kept(s, f), s, a)
  BY <1>1, KeptFacts
<1>3. Part(Kept(s, f), t)
  BY <1>1, <1>2, PartTransitive
<1>4. ASSUME NEW a \in S
      PROVE  KeepsAll(Kept(s, f), t, a)
  <2>1. CASE f = {} \/ a \in f
    BY <2>1, <1>1, <1>2, PartTransitive
  <2>2. CASE Announced(t, a) = {}
    BY <2>2, <1>3 DEF KeepsAll, Announced
  <2> QED  BY <2>1, <2>2
<1> QED  BY <1>2, <1>3, <1>4 DEF Faithful

\* The day's snapshot after the filter.
LEMMA AfterFaithful ==
    ASSUME Inv, NEW d \in Day, NEW focusing \in BOOLEAN, NEW extra \in Extras,
           Narrowing(d, focusing, extra), UNCHANGED <<table, maps>>
    PROVE  Faithful(Kept(Fetched(d), Focus(d, focusing, extra)), table[d], Small(d)')
<1>1. Small(d)' \subseteq Small(d)
  BY NarrowingGrows DEF Small, Grows
<1>2. Faithful(Fetched(d), table[d], Small(d)')
  BY <1>1, FetchedFaithful DEF Faithful
<1>3. table[d] \in Snapshot
  BY DEF Inv, TypeOK
<1> HIDE DEF Small
<1> QED  BY <1>2, <1>3, FocusHas, KeptFaithful

\* Both RunFails and Run leave the day's file faithful.
LEMMA FileStep ==
    ASSUME Inv, NEW d \in Day, NEW focusing \in BOOLEAN, NEW extra \in Extras,
           file' = [file EXCEPT ![d] = Kept(Fetched(d), Focus(d, focusing, extra))],
           Narrowing(d, focusing, extra), UNCHANGED <<table, maps>>
    PROVE  FilesOK' /\ file' \in [Day -> Snapshot \cup {None}]
<1> DEFINE after == Kept(Fetched(d), Focus(d, focusing, extra))
<1>1. Faithful(after, table[d], Small(d)')
  BY AfterFaithful
<1>2. file \in [Day -> Snapshot \cup {None}]
  BY DEF Inv, TypeOK
<1>3. \A q \in Day : Small(q)' \subseteq Small(q)
  BY NarrowingGrows DEF Small, Grows
<1> HIDE DEF after
<1>4. ASSUME NEW q \in Day, file'[q] # None
      PROVE  Faithful(file'[q], table[q], Small(q)')
  <2>1. CASE q = d
    BY <2>1, <1>1, <1>2 DEF after
  <2>2. CASE q # d
    <3>1. file'[q] = file[q] /\ Faithful(file[q], table[q], Small(q))
      BY <2>2, <1>2, <1>4 DEF Inv, FilesOK
    <3> QED  BY <3>1, <1>3 DEF Faithful
  <2> QED  BY <2>1, <2>2
<1>5. FilesOK'
  BY <1>4 DEF FilesOK
<1> QED  BY <1>1, <1>2, <1>5 DEF Faithful, after

\* As the history grows, fewer ASNs are steady and fewer pairs clean in every map.
LEMMA FewerSteady ==
    ASSUME UNCHANGED table, Grows, NEW a, NEW q \in Day, NEW d \in Day, Steady(a, q, d)'
    PROVE  Steady(a, q, d)
<1>1. \A m \in maps : m \in maps'
  BY DEF Grows
<1>2. a \notin narrowed[q] \cup narrowed[d]
  BY DEF Steady, Grows
<1> QED  BY <1>1, <1>2 DEF Steady

\* What was reported of a day stays right while the tables and its report stay.
LEMMA OldReports ==
    ASSUME Inv, UNCHANGED table, Grows, NEW g \in Reported, NEW q, q = report[g].prior
    PROVE  /\ \A a, b \in Asn :
                  /\ Steady(a, q, g)' /\ Steady(b, q, g)'
                  /\ \A m \in maps' : Clean({a, b}, m)
                  /\ Cardinality(RealMoves(q, g, {a, b})) >= MinMoves
                  => {a, b} \in report[g].signals
           /\ \A e \in report[g].events :
                  LET n(snap) == Cardinality(Announced(snap, e.a))
                  IN  Steady(e.a, q, g)' =>
                          /\ e.kind = "upstream_converge" =>
                                /\ <<e.a, e.b>> \in Upstreams(table[g], Asn)
                                /\ <<e.a, e.b>> \notin Upstreams(table[q], Asn)
                          /\ e.kind = "footprint_step" => Abs(n(table[g]) - n(table[q])) >= AbsStep
<1>1. g \in Day /\ q \in Day
  <2>1. g \in Day /\ q \in 1..g-1
    BY DEF Inv, TypeOK, Reported
  <2> QED  BY <2>1, FocusDaysAssumption DEF Day
<1>2. \A a : Steady(a, q, g)' => Steady(a, q, g)
  BY <1>1, FewerSteady
<1>3. \A m \in maps : m \in maps'
  BY DEF Grows
<1>4. ASSUME NEW a \in Asn, NEW b \in Asn, Steady(a, q, g)', Steady(b, q, g)',
             \A m \in maps' : Clean({a, b}, m),
             Cardinality(RealMoves(q, g, {a, b})) >= MinMoves
      PROVE  {a, b} \in report[g].signals
  <2>1. Steady(a, q, g) /\ Steady(b, q, g) /\ \A m \in maps : Clean({a, b}, m)
    BY <1>2, <1>3, <1>4
  <2> QED  BY <2>1, <1>4 DEF Inv, MovesAreReported
<1>5. ASSUME NEW e, e \in report[g].events, Steady(e.a, q, g)'
      PROVE  LET n(snap) == Cardinality(Announced(snap, e.a))
             IN  /\ e.kind = "upstream_converge" =>
                       /\ <<e.a, e.b>> \in Upstreams(table[g], Asn)
                       /\ <<e.a, e.b>> \notin Upstreams(table[q], Asn)
                 /\ e.kind = "footprint_step" => Abs(n(table[g]) - n(table[q])) >= AbsStep
  <2>1. Steady(e.a, q, g)
    BY <1>2, <1>5
  <2> QED  BY <2>1, <1>5 DEF Inv, ChangesAreReal
<1> QED  BY <1>4, <1>5

\* A step that leaves the reports alone.
LEMMA QuietStep ==
    ASSUME Inv, UNCHANGED <<table, report>>, Grows
    PROVE  MovesAreReal' /\ MovesAreReported' /\ ChangesAreReal'
<1>1. Reported' = Reported
  BY DEF Reported
<1>2. MovesAreReal'
  BY <1>1 DEF Inv, MovesAreReal
<1>3. \A q, d, pair : RealMoves(q, d, pair)' = RealMoves(q, d, pair)
  BY DEF RealMoves
<1>4. MovesAreReported'
  <2>1. ASSUME NEW g \in Reported, NEW q, q = report[g].prior, NEW a \in Asn, NEW b \in Asn,
               Steady(a, q, g)', Steady(b, q, g)', \A m \in maps' : Clean({a, b}, m),
               Cardinality(RealMoves(q, g, {a, b})) >= MinMoves
        PROVE  {a, b} \in report[g].signals
    BY <2>1, OldReports
  <2> QED  BY <1>1, <1>3, <2>1 DEF MovesAreReported, Steady
<1>5. ChangesAreReal'
  <2>1. ASSUME NEW g \in Reported, NEW q, q = report[g].prior,
               NEW e, e \in report[g].events, Steady(e.a, q, g)'
        PROVE  LET n(snap) == Cardinality(Announced(snap, e.a))
               IN  /\ e.kind = "upstream_converge" =>
                         /\ <<e.a, e.b>> \in Upstreams(table[g], Asn)
                         /\ <<e.a, e.b>> \notin Upstreams(table[q], Asn)
                   /\ e.kind = "footprint_step" => Abs(n(table[g]) - n(table[q])) >= AbsStep
    BY <2>1, OldReports
  <2> QED  BY <1>1, <2>1 DEF ChangesAreReal, Steady
<1> QED  BY <1>2, <1>4, <1>5

\* A run diffs two parts that have every row of the ASNs that are steady after it.
LEMMA RunParts ==
    ASSUME Inv, NEW d \in Day, NEW q \in Day, q # d, file[q] # None,
           NEW focusing \in BOOLEAN, NEW extra \in Extras,
           Narrowing(d, focusing, extra), UNCHANGED <<table, maps>>
    PROVE  LET f == Focus(d, focusing, extra)
               before == Kept(file[q], f)
               after == Kept(Fetched(d), f)
           IN  /\ before \in Snapshot /\ Part(before, table[q])
               /\ after \in Snapshot /\ Part(after, table[d])
               /\ \A a \in Asn :
                     Steady(a, q, d)' => Whole(before, table[q], after, table[d], orgs, a)
<1> DEFINE f == Focus(d, focusing, extra)
           before == Kept(file[q], f)
           after == Kept(Fetched(d), f)
<1>1. Faithful(file[q], table[q], Small(q)) /\ Faithful(after, table[d], Small(d)')
  BY AfterFaithful DEF Inv, FilesOK
<1>2. \A a \in Small(d)' :
          Announced(table[d], a) # {} \/ Hinted(orgs, a) => f = {} \/ a \in f
  BY FocusHas
<1> HIDE DEF f
<1>3. /\ before \in Snapshot /\ Part(before, file[q])
      /\ \A a : f = {} \/ a \in f => KeepsAll(before, file[q], a)
  BY <1>1, KeptFacts DEF Faithful
<1>4. Part(before, table[q])
  BY <1>1, <1>3, PartTransitive DEF Faithful
<1>5. ASSUME NEW a \in Asn, Steady(a, q, d)'
      PROVE  Whole(before, table[q], after, table[d], orgs, a)
  <2>1. Steady(a, q, d)
    BY <1>5, NarrowingGrows, FewerSteady
  <2>2. a \in Small(d)' /\ a \in Small(q)
    BY <1>5, <2>1 DEF Steady, Small
  <2>3. KeepsAll(after, table[d], a) /\ KeepsAll(file[q], table[q], a)
    BY <1>1, <2>2 DEF Faithful
  <2>4. orgs \in maps
    BY DEF Inv, TypeOK
  <2>5. /\ Announced(table[d], a) # {} \/ Hinted(orgs, a)
        /\ a \in DOMAIN orgs \ Glue
        /\ Cardinality(Announced(table[q], a)) <= MaxPrefixes
        /\ Cardinality(Announced(table[d], a)) <= MaxPrefixes
    BY <2>1, <2>4 DEF Steady, Hinted
  <2>6. KeepsAll(before, table[q], a)
    BY <1>1, <1>2, <1>3, <2>2, <2>3, <2>5, PartTransitive DEF Faithful
  <2> QED  BY <2>3, <2>5, <2>6 DEF Whole
<1> QED  BY <1>1, <1>3, <1>4, <1>5 DEF Faithful, f

LEMMA RunStep ==
    ASSUME Inv, NEW d \in Day, NEW focusing \in BOOLEAN, NEW extra \in Extras,
           NEW full \in BOOLEAN, Run(d, focusing, extra, full)
    PROVE  Inv'
<1> DEFINE f == Focus(d, focusing, extra)
           after == Kept(Fetched(d), f)
<1>1. PICK q \in Prior(d) :
          LET events == Diff(Kept(file[q], f), after, orgs)
          IN  report' = [report EXCEPT ![d] =
                 [prior |-> q, events |-> events, signals |-> Signals(events, orgs, full)]]
  BY DEF Run
<1> DEFINE before == Kept(file[q], f)
           events == Diff(before, after, orgs)
<1>2. q \in Day /\ q < d /\ q # d /\ file[q] # None /\ q \in 1..d-1
  BY FocusDaysAssumption DEF Prior, Day
<1>3. Narrowing(d, focusing, extra) /\ UNCHANGED <<table, orgs, maps>>
  BY DEF Run
<1>4. /\ before \in Snapshot /\ Part(before, table[q])
      /\ after \in Snapshot /\ Part(after, table[d])
      /\ \A a \in Asn :
            Steady(a, q, d)' => Whole(before, table[q], after, table[d], orgs, a)
  BY <1>2, <1>3, RunParts
<1>5. FilesOK' /\ file' \in [Day -> Snapshot \cup {None}]
  BY <1>3, FileStep DEF Run
<1>6. Grows /\ narrowed' \in [Day -> SUBSET Asn]
  BY <1>3, NarrowingGrows
<1>7. IsOrgMap(orgs) /\ table[q] \in Snapshot /\ table[d] \in Snapshot
  BY <1>2, FocusDaysAssumption DEF Inv, TypeOK
<1> HIDE DEF f, after, before, events
<1>8. report' = [report EXCEPT ![d] =
          [prior |-> q, events |-> events, signals |-> Signals(events, orgs, full)]]
  BY <1>1 DEF before, events
<1>9. /\ DOMAIN report' = Day
      /\ report'[d].prior = q /\ report'[d].events = events
      /\ report'[d].signals = Signals(events, orgs, full)
      /\ \A g \in Day : g # d => report'[g] = report[g]
      /\ \A g \in Reported' : g # d => g \in Reported
      /\ Reported' \subseteq Day
  BY <1>8 DEF Inv, TypeOK, Reported
<1>10. TypeOK'
  <2>1. Signals(events, orgs, full) \subseteq SUBSET Asn
    BY <1>7 DEF Signals, Clean, IsOrgMap
  <2>2. \A g \in Reported' : report'[g].prior \in 1..g-1 /\ report'[g].signals \subseteq SUBSET Asn
    BY <1>2, <1>9, <2>1 DEF Inv, TypeOK
  <2> QED  BY <1>3, <1>5, <1>6, <1>9, <2>2 DEF Inv, TypeOK
<1>11. MovesAreReal'
  <2>1. ASSUME NEW e \in events, e.kind = "prefix_move"
        PROVE  /\ e.prefix \in DOMAIN table[q] /\ table[q][e.prefix].origin = e.a
               /\ e.prefix \in DOMAIN table[d] /\ table[d][e.prefix].origin = e.b
               /\ e.a # e.b
    BY <2>1, <1>4, DiffMovesReal DEF events
  <2> QED  BY <2>1, <1>3, <1>9 DEF Inv, MovesAreReal
<1>12. MovesAreReported'
  <2>1. ASSUME NEW a \in Asn, NEW b \in Asn, Steady(a, q, d)', Steady(b, q, d)',
               \A m \in maps' : Clean({a, b}, m),
               Cardinality(RealMoves(q, d, {a, b})) >= MinMoves
        PROVE  {a, b} \in Signals(events, orgs, full)
    <3>1. Clean({a, b}, orgs)
      BY <2>1, <1>3 DEF Inv, TypeOK
    <3>2. RealMoves(q, d, {a, b}) = MovesOf(table[q], table[d], {a, b})
      BY DEF RealMoves, MovesOf
    <3> QED  BY <2>1, <3>1, <3>2, <1>4, <1>7, DiffMovesReported DEF events
  <2>2. \A g, h, pair : RealMoves(g, h, pair)' = RealMoves(g, h, pair)
    BY <1>3 DEF RealMoves
  <2>3. ASSUME NEW g \in Reported', NEW h, h = report'[g].prior,
               NEW a \in Asn, NEW b \in Asn, Steady(a, h, g)', Steady(b, h, g)',
               \A m \in maps' : Clean({a, b}, m),
               Cardinality(RealMoves(h, g, {a, b})) >= MinMoves
        PROVE  {a, b} \in report'[g].signals
    <3>1. CASE g = d
      BY <3>1, <2>1, <2>3, <1>9
    <3>2. CASE g # d
      <4>1. g \in Reported /\ report'[g] = report[g] /\ h = report[g].prior
        BY <3>2, <2>3, <1>9
      <4>2. {a, b} \in report[g].signals
        BY <4>1, <2>3, <1>3, <1>6, OldReports
      <4> QED  BY <4>1, <4>2
    <3> QED  BY <3>1, <3>2
  <2> QED  BY <2>2, <2>3 DEF MovesAreReported, Steady
<1>13. ChangesAreReal'
  <2>1. ASSUME NEW e, e \in events, Steady(e.a, q, d)'
        PROVE  LET n(snap) == Cardinality(Announced(snap, e.a))
               IN  /\ e.kind = "upstream_converge" =>
                         /\ <<e.a, e.b>> \in Upstreams(table[d], Asn)
                         /\ <<e.a, e.b>> \notin Upstreams(table[q], Asn)
                   /\ e.kind = "footprint_step" => Abs(n(table[d]) - n(table[q])) >= AbsStep
    <3>1. e.a \in Asn
      BY <2>1, <1>3, <1>7 DEF Steady, IsOrgMap, Inv, TypeOK
    <3> QED  BY <2>1, <3>1, <1>4, <1>7, DiffChangesReal DEF events
  <2>2. ASSUME NEW g \in Reported', NEW h, h = report'[g].prior,
               NEW e, e \in report'[g].events, Steady(e.a, h, g)'
        PROVE  LET n(snap) == Cardinality(Announced(snap, e.a))
               IN  /\ e.kind = "upstream_converge" =>
                         /\ <<e.a, e.b>> \in Upstreams(table[g], Asn)
                         /\ <<e.a, e.b>> \notin Upstreams(table[h], Asn)
                   /\ e.kind = "footprint_step" => Abs(n(table[g]) - n(table[h])) >= AbsStep
    <3>1. CASE g = d
      BY <3>1, <2>1, <2>2, <1>9
    <3>2. CASE g # d
      BY <3>2, <2>2, <1>3, <1>6, <1>9, OldReports
    <3> QED  BY <3>1, <3>2
  <2> QED  BY <2>2, <1>3 DEF ChangesAreReal, Steady
<1> QED  BY <1>5, <1>10, <1>11, <1>12, <1>13 DEF Inv

LEMMA NextInv == Inv /\ [Next]_vars => Inv'
<1> SUFFICES ASSUME Inv, [Next]_vars PROVE Inv'
  OBVIOUS
<1>1. CASE UNCHANGED vars
  <2>1. TypeOK' /\ FilesOK' /\ Grows /\ UNCHANGED <<table, report>>
    BY <1>1 DEF vars, Inv, TypeOK, Reported, FilesOK, Small, Grows
  <2> QED  BY <2>1, QuietStep DEF Inv
<1>2. CASE Remap
  <2>1. /\ UNCHANGED <<table, file, narrowed, report>>
        /\ orgs' \in OrgMaps /\ maps' = maps \cup {orgs'}
    BY <1>2 DEF Remap
  <2>2. TypeOK'
    BY <2>1 DEF Inv, TypeOK, Reported
  <2>3. Grows
    BY <2>1 DEF Grows
  <2>4. \A q \in Day : Small(q)' \subseteq Small(q)
    BY <2>1 DEF Small
  <2>5. FilesOK'
    BY <2>1, <2>4 DEF Inv, FilesOK, Faithful
  <2> QED  BY <2>1, <2>2, <2>3, <2>5, QuietStep DEF Inv
<1>3. ASSUME NEW d \in Day, NEW focusing \in BOOLEAN, NEW extra \in Extras,
             RunFails(d, focusing, extra)
      PROVE  Inv'
  <2>1. FilesOK' /\ file' \in [Day -> Snapshot \cup {None}]
    BY <1>3, FileStep DEF RunFails
  <2>2. UNCHANGED <<table, orgs, maps, report>>
    BY <1>3 DEF RunFails
  <2>3. Grows /\ narrowed' \in [Day -> SUBSET Asn]
    BY <1>3, NarrowingGrows DEF RunFails
  <2>4. TypeOK'
    BY <2>1, <2>2, <2>3 DEF Inv, TypeOK, Reported
  <2> QED  BY <2>1, <2>2, <2>3, <2>4, QuietStep DEF Inv
<1>4. ASSUME NEW d \in Day, NEW focusing \in BOOLEAN, NEW extra \in Extras,
             NEW full \in BOOLEAN, Run(d, focusing, extra, full)
      PROVE  Inv'
  BY <1>4, RunStep
<1> QED  BY <1>1, <1>2, <1>3, <1>4 DEF Next

\* All of it together: the files and the reports.
THEOREM Invariant == Spec => []Inv
BY InitInv, NextInv, PTL DEF Spec

-----------------------------------------------------------------------------
(* The theorems. *)

\* Every reachable state of the days, their files and reports is well typed; a diff's
\* prior is an earlier day (find_prior_snapshot).
THEOREM TypeCorrect == Spec => []TypeOK
<1>1. Inv => TypeOK
  BY DEF Inv
<1> QED  BY <1>1, Invariant, PTL

\* Every prefix_move of every day's last diff is a change of origin between the two
\* days' tables, whatever org maps, focus and reruns the files went through.
THEOREM MovesReal == Spec => []MovesAreReal
<1>1. Inv => MovesAreReal
  BY DEF Inv
<1> QED  BY <1>1, Invariant, PTL

\* Enough moves between two ASNs that stayed mapped, are neither glue nor too large and
\* were never left out by --focus-asns alone are always reported, except that an ASN
\* without a row on the later day is as its org's hint says (subject_asns,
\* filter_snapshot_focus, filter_sparse_events).
THEOREM MovesReported == Spec => []MovesAreReported
<1>1. Inv => MovesAreReported
  BY DEF Inv
<1> QED  BY <1>1, Invariant, PTL

\* New upstreams and footprint steps of such an ASN are those of the tables.
THEOREM ChangesReal == Spec => []ChangesAreReal
<1>1. Inv => ChangesAreReal
  BY DEF Inv
<1> QED  BY <1>1, Invariant, PTL
=============================================================================
