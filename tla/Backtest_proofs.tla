--------------------------- MODULE Backtest_proofs ---------------------------
(***************************************************************************)
(* Proofs about Backtest, for any calendar, archive, tables, windows and   *)
(* steps, and any number of runs, errors, failures and late dumps.         *)
(*                                                                         *)
(* The invariant has a part for each thing a run carries from one step to  *)
(* a later one.  FilesOK: a file is a part of the table of the day it was  *)
(* made from, and that day is at most three from the planned one (and the  *)
(* nearest with a dump, if nothing failed or came late).  WalkOK and       *)
(* UsedOK: what the search for a dump has tried, and what the samples so   *)
(* far used.  Agreed: the file of a sample is still the one the sample     *)
(* was, although files are reused across runs and overwritten by failing   *)
(* ones.  EventsOK: the events are those of the diffs done so far, each    *)
(* between the tables of two days.  ReportOK: the report scores them.      *)
(*                                                                         *)
(* SamplesInOrder is then about numbers only: two planned days and the     *)
(* nearest dumps of each, and the lemmas of the second part compare them.  *)
(***************************************************************************)
EXTENDS Backtest, FiniteSetTheorems, WellFoundedInduction, TLAPS

-----------------------------------------------------------------------------
(* The plan of a run. *)

\* The last step of a window is its last day or before it.
LEMMA LastStep ==
    ASSUME NEW days \in Nat \ {0}, NEW step \in Nat \ {0}
    PROVE  LET n == (days + step - 1) \div step
           IN  n \in Nat \ {0} /\ (n - 1) * step <= days - 1
<1> DEFINE m == days + step - 1
           n == m \div step
           r == m % step
<1>1. m \in Nat /\ m >= step
  OBVIOUS
<1>2. n \in Int /\ r \in 0..step - 1 /\ m = step * n + r
  <2> HIDE DEF m
  <2> QED  BY <1>1
<1>3. n \in Nat \ {0}
  <2> HIDE DEF m, n, r
  <2>1. ASSUME n <= 0 PROVE FALSE
    <3>1. step * n <= 0
      BY <1>2, <2>1
    <3> QED  BY <1>1, <1>2, <3>1
  <2> QED  BY <1>2, <2>1
<1>4. step * n <= m
  <2> HIDE DEF m, n, r
  <2> QED  BY <1>1, <1>2, <1>3
<1>5. (n - 1) * step = step * n - step
  <2> HIDE DEF m, n, r
  <2> QED  BY <1>3
<1> HIDE DEF n, r
<1> QED  BY <1>3, <1>4, <1>5 DEF n

\* A plan has a first day, goes forward, and keeps to the window.
LEMMA PlanFacts ==
    ASSUME NEW j \in Jobs
    PROVE  /\ Planned(j) \in Seq(Int) /\ Len(Planned(j)) \in Nat \ {0}
           /\ \A i, k \in 1..Len(Planned(j)) : i < k => Planned(j)[i] < Planned(j)[k]
           /\ \A i \in 1..Len(Planned(j)) :
                 Planned(j)[i] \in j.start..(j.start + j.days - 1)
<1> DEFINE n == (j.days + j.step - 1) \div j.step
           steps == [i \in 1..n |-> j.start + (i - 1) * j.step]
           last == j.start + j.days - 1
<1>1. /\ j.start \in Int /\ j.days \in Nat \ {0} /\ j.step \in Nat \ {0}
  BY BacktestAssumption
<1>2. n \in Nat \ {0} /\ (n - 1) * j.step <= j.days - 1
  BY <1>1, LastStep
<1>3. Planned(j) = IF steps[Len(steps)] = last THEN steps ELSE Append(steps, last)
  BY DEF Planned
<1> HIDE DEF n
<1>4. \A i \in 1..n : (i - 1) * j.step \in 0..(j.days - 1)
  <2> SUFFICES ASSUME NEW i \in 1..n PROVE (i - 1) * j.step \in 0..(j.days - 1)
    OBVIOUS
  <2>1. (n - i) * j.step >= 0 /\ (i - 1) * j.step >= 0
    BY <1>1, <1>2
  <2>2. (n - 1) * j.step = (n - i) * j.step + (i - 1) * j.step
    BY <1>1, <1>2
  <2>3. (n - i) * j.step \in Int /\ (i - 1) * j.step \in Int
    BY <1>1, <1>2
  <2> QED  BY <1>1, <1>2, <2>1, <2>2, <2>3
<1>5. \A i \in 1..n : steps[i] = j.start + (i - 1) * j.step /\ steps[i] \in j.start..last
  BY <1>1, <1>4
<1>6. \A i, k \in 1..n : i < k => steps[i] < steps[k]
  <2> SUFFICES ASSUME NEW i \in 1..n, NEW k \in 1..n, i < k PROVE steps[i] < steps[k]
    OBVIOUS
  <2>1. (k - 1) * j.step = (i - 1) * j.step + (k - i) * j.step
    BY <1>1, <1>2
  <2>2. (k - i) * j.step > 0 /\ (k - i) * j.step \in Int /\ (i - 1) * j.step \in Int
    BY <1>1, <1>2
  <2> QED  BY <1>1, <1>5, <2>1, <2>2
<1>7. steps \in Seq(Int) /\ Len(steps) = n /\ last \in Int
  BY <1>1, <1>2, <1>5
<1> HIDE DEF steps
<1>8. CASE steps[n] = last
  <2>1. Planned(j) = steps
    BY <1>3, <1>7, <1>8
  <2> QED  BY <1>2, <1>5, <1>6, <1>7, <2>1
<1>9. CASE steps[n] # last
  <2>1. Planned(j) = Append(steps, last)
    BY <1>3, <1>7, <1>9
  <2>2. /\ Planned(j) \in Seq(Int) /\ Len(Planned(j)) = n + 1
        /\ \A i \in 1..n : Planned(j)[i] = steps[i]
        /\ Planned(j)[n + 1] = last
    BY <1>2, <1>7, <2>1
  <2>3. \A i \in 1..n : steps[i] < last
    <3>1. steps[n] < last /\ steps[n] \in Int
      BY <1>1, <1>2, <1>5, <1>9
    <3> QED  BY <1>2, <1>5, <1>6, <1>7, <3>1
  <2>4. \A i \in 1..(n + 1) : i \in 1..n \/ i = n + 1
    BY <1>2
  <2>5. last \in j.start..last
    BY <1>1
  <2> QED  BY <1>2, <1>5, <1>6, <2>2, <2>3, <2>4, <2>5
<1> QED  BY <1>8, <1>9

-----------------------------------------------------------------------------
(* The nearest dump. *)

\* Of the dumps within three days of a day, the nearest, the earlier of two.
Best(day, dumps, found) ==
    /\ found \in dumps /\ found - day \in -3..3
    /\ \A d \in dumps : d - day \in -3..3 =>
          \/ Abs(found - day) < Abs(d - day)
          \/ Abs(found - day) = Abs(d - day) /\ found <= d

LEMMA DeltaFacts ==
    /\ Len(Delta) = 7
    /\ Delta[1] = 0 /\ Delta[2] = -1 /\ Delta[3] = 1 /\ Delta[4] = -2 /\ Delta[5] = 2
    /\ Delta[6] = -3 /\ Delta[7] = 3
    /\ \A k \in 1..7 : Delta[k] \in -3..3
    /\ \A d \in -3..3 : \E k \in 1..7 : d = Delta[k]
    /\ \A k, m \in 1..7 : k <= m =>
          \/ Abs(Delta[k]) < Abs(Delta[m])
          \/ Abs(Delta[k]) = Abs(Delta[m]) /\ Delta[k] <= Delta[m]
<1>1. /\ Len(Delta) = 7
      /\ Delta[1] = 0 /\ Delta[2] = -1 /\ Delta[3] = 1 /\ Delta[4] = -2 /\ Delta[5] = 2
      /\ Delta[6] = -3 /\ Delta[7] = 3
  BY DEF Delta
<1>2. \A k \in 1..7 : k = 1 \/ k = 2 \/ k = 3 \/ k = 4 \/ k = 5 \/ k = 6 \/ k = 7
  OBVIOUS
<1>3. \A k \in 1..7 : Delta[k] \in -3..3
  BY <1>1, <1>2
<1>4. \A d \in -3..3 : \E k \in 1..7 : d = Delta[k]
  <2> SUFFICES ASSUME NEW d \in -3..3 PROVE \E k \in 1..7 : d = Delta[k]
    OBVIOUS
  <2>1. d = 0 \/ d = -1 \/ d = 1 \/ d = -2 \/ d = 2 \/ d = -3 \/ d = 3
    OBVIOUS
  <2>2. {1, 2, 3, 4, 5, 6, 7} \subseteq 1..7
    OBVIOUS
  <2> QED  BY <1>1, <2>1, <2>2
<1>5. \A k, m \in 1..7 : k <= m =>
          \/ Abs(Delta[k]) < Abs(Delta[m])
          \/ Abs(Delta[k]) = Abs(Delta[m]) /\ Delta[k] <= Delta[m]
  BY <1>1, <1>2 DEF Abs
<1> QED  BY <1>1, <1>3, <1>4, <1>5

\* The walk over the neighbours ends at the nearest dump.
LEMMA WalkFindsBest ==
    ASSUME NEW day \in Int, NEW dumps \in SUBSET Int, NEW k \in 1..Len(Delta),
           day + Delta[k] \in dumps,
           \A m \in 1..(k - 1) : day + Delta[m] \notin dumps
    PROVE  Best(day, dumps, day + Delta[k])
<1>1. k \in 1..7 /\ Delta[k] \in -3..3 /\ (day + Delta[k]) - day = Delta[k]
  BY DeltaFacts
<1>2. ASSUME NEW d \in dumps, d - day \in -3..3
      PROVE  \/ Abs(Delta[k]) < Abs(d - day)
             \/ Abs(Delta[k]) = Abs(d - day) /\ day + Delta[k] <= d
  <2>1. PICK m \in 1..7 : d - day = Delta[m]
    BY <1>2, DeltaFacts
  <2>2. d = day + Delta[m] /\ Delta[m] \in Int
    BY <2>1, DeltaFacts
  <2>3. k <= m
    BY <1>1, <2>2
  <2>4. \/ Abs(Delta[k]) < Abs(Delta[m])
        \/ Abs(Delta[k]) = Abs(Delta[m]) /\ Delta[k] <= Delta[m]
    BY <1>1, <2>3, DeltaFacts
  <2>5. Delta[k] <= Delta[m] => day + Delta[k] <= d
    BY <1>1, <2>2
  <2> QED  BY <2>1, <2>4, <2>5
<1> QED  BY <1>1, <1>2 DEF Best

\* Later days have no earlier nearest dumps.
LEMMA BestInOrder ==
    ASSUME NEW dumps \in SUBSET Int, NEW c \in Int, NEW d \in Int, c < d, NEW x, NEW y,
           Best(c, dumps, x), Best(d, dumps, y)
    PROVE  x <= y
<1>1. x \in Int /\ y \in Int /\ x - c \in -3..3 /\ y - d \in -3..3
  BY DEF Best
<1>2. \/ ~(y - c \in -3..3)
      \/ Abs(x - c) < Abs(y - c)
      \/ Abs(x - c) = Abs(y - c) /\ x <= y
  BY DEF Best
<1>3. \/ ~(x - d \in -3..3)
      \/ Abs(y - d) < Abs(x - d)
      \/ Abs(y - d) = Abs(x - d) /\ y <= x
  BY DEF Best
<1> QED  BY <1>1, <1>2, <1>3 DEF Abs

-----------------------------------------------------------------------------
(* The inductive invariant. *)

Part(s, t) == DOMAIN s \subseteq DOMAIN t /\ \A p \in DOMAIN s : s[p] = t[p]

\* A part with every row of what is in focus, and of nothing else.
Filtered(s, t, focus) ==
    /\ Part(s, t)
    /\ \A p \in DOMAIN t : p \in DOMAIN s <=> focus = {} \/ t[p].origin \in focus

\* A file has rows of the dump it is from; all that its focus keeps, unless the
\* download was cut short.
IsFile(tables, f) ==
    /\ f.used \in Calendar /\ f.focus \subseteq Asn
    /\ Part(f.rows, tables[f.used])
    /\ f.complete => Filtered(f.rows, tables[f.used], f.focus)

\* No fetch has failed yet, and no dump has come late.
Steady == errors = 0 /\ late = 0

\* What a walk from a day finds.
Found(day, found, dumps, steady) ==
    /\ found \in Calendar /\ found - day \in -3..3
    /\ steady => Best(day, dumps, found)

FilesOK ==
    /\ DOMAIN file = PlannedDay
    /\ \A d \in PlannedDay :
          \/ file[d] \in {None, Torn}
          \/ IsFile(table, file[d]) /\ Found(d, file[d].used, archive, Steady)

\* The scalars; what has been read of the plan; the neighbours tried so far.
WalkOK ==
    /\ table \in Tables /\ archive \subseteq Calendar
    /\ job \in Jobs \cup {None} /\ stage \in Stage
    /\ try \in 1..Len(Delta) + 1
    /\ runs \in 0..MaxRuns /\ errors \in 0..MaxErrors /\ failures \in 0..MaxFailures
    /\ late \in 0..MaxLate
    /\ used \in Seq(Calendar \cup {Torn})
    /\ used # <<>> => job \in Jobs /\ Len(used) <= Samples
    /\ stage # "idle" => job \in Jobs /\ at \in 1..Samples
    /\ stage = "sample" => Len(used) = at - 1
    /\ stage = "diff" => Len(used) = Samples
    /\ (Steady /\ stage = "sample") => \A m \in 1..(try - 1) : Target + Delta[m] \notin archive

UsedOK ==
    \A i \in 1..Len(used) : used[i] # Torn =>
                     Found(Planned(job)[i], used[i], archive, Steady)

\* A sample of a run and its file.
Agrees(tables, f, day) ==
    \/ f = Torn /\ day = Torn
    \/ IsFile(tables, f) /\ day = f.used

\* A run goes on with the files its samples were, and so does the report until the
\* operator removes them.
Agreed ==
    (stage # "idle" \/ report # None) =>
        \A i \in 1..Len(used) :
            \/ stage = "idle" /\ Of(i) = None
            \/ Agrees(table, Of(i), used[i])

\* What an event says, wherever the run has stopped.
Told(tables, j, x) ==
    LET e == x.event
    IN  /\ x.time \in (j.start - 3)..(j.start + j.days + 2)
        /\ e.a \in Asn
        /\ e.kind = "footprint_step" => e.b = None
        /\ e.kind # "footprint_step" => e.b \in Asn /\ e.a # e.b
        /\ e.kind = "prefix_move" =>
              /\ e.prefix \in DOMAIN tables[x.before] \cap DOMAIN tables[x.time]
              /\ tables[x.before][e.prefix].origin = e.a
              /\ tables[x.time][e.prefix].origin = e.b

\* The pairs of samples diffed so far.
Diffed == IF stage = "diff" THEN at - 1 ELSE Samples - 1

There(i) == Of(i) # None /\ Of(i + 1) # None

EventsOK ==
    /\ events # {} => job \in Jobs
    /\ \A x \in events : Told(table, job, x)
    /\ stage = "sample" => events = {}
    /\ (stage = "diff" \/ report # None) =>
          /\ \A i \in 1..Diffed : There(i) => DiffOf(Of(i), Of(i + 1)) \subseteq events
          /\ \A x \in events : \E i \in 1..Diffed :
                There(i) => x \in DiffOf(Of(i), Of(i + 1))

ReportOK ==
    report # None =>
        /\ stage = "idle" /\ job \in Jobs /\ Len(used) = Samples
        /\ report = [c \in Scoped(job) |-> Score(events, c)]

Inv == FilesOK /\ WalkOK /\ UsedOK /\ Agreed /\ EventsOK /\ ReportOK

-----------------------------------------------------------------------------
(* Sets of days. *)

\* A set within an interval has a first and a last member.
LEMMA FirstAndLast ==
    ASSUME NEW lo \in Int, NEW hi \in Int, NEW S \in SUBSET (lo..hi), S # {}
    PROVE  /\ \E x \in S : \A y \in S : x <= y
           /\ \E x \in S : \A y \in S : y <= x
<1> DEFINE less == OpToRel(<, Nat)
<1>1. \E x \in S : \A y \in S : x <= y
  <2> DEFINE ages == {n \in Nat : lo + n \in S}
  <2>1. \A x \in S : x - lo \in Nat /\ lo + (x - lo) = x
    OBVIOUS
  <2>2. ages # {} /\ ages \subseteq Nat
    BY <2>1
  <2>3. PICK n \in ages : \A m \in ages : ~(<<m, n>> \in less)
    <3> HIDE DEF ages
    <3> QED  BY <2>2, NatLessThanWellFounded, WFMin
  <2>4. \A m \in ages : n <= m
    <3> SUFFICES ASSUME NEW m \in ages, m < n PROVE FALSE
      OBVIOUS
    <3>1. <<m, n>> \in less
      BY DEF OpToRel
    <3> QED  BY <2>3, <3>1
  <2>5. lo + n \in S /\ n \in Nat
    OBVIOUS
  <2>6. \A y \in S : lo + n <= y
    BY <2>1, <2>4
  <2> QED  BY <2>5, <2>6
<1>2. \E x \in S : \A y \in S : y <= x
  <2> DEFINE ages == {n \in Nat : hi - n \in S}
  <2>1. \A x \in S : hi - x \in Nat /\ hi - (hi - x) = x
    OBVIOUS
  <2>2. ages # {} /\ ages \subseteq Nat
    BY <2>1
  <2>3. PICK n \in ages : \A m \in ages : ~(<<m, n>> \in less)
    <3> HIDE DEF ages
    <3> QED  BY <2>2, NatLessThanWellFounded, WFMin
  <2>4. \A m \in ages : n <= m
    <3> SUFFICES ASSUME NEW m \in ages, m < n PROVE FALSE
      OBVIOUS
    <3>1. <<m, n>> \in less
      BY DEF OpToRel
    <3> QED  BY <2>3, <3>1
  <2>5. hi - n \in S /\ n \in Nat
    OBVIOUS
  <2>6. ASSUME NEW y \in S PROVE y <= hi - n
    <3>1. n <= hi - y
      BY <2>1, <2>4
    <3> QED  BY <2>5, <3>1
  <2> QED  BY <2>5, <2>6
<1> QED  BY <1>1, <1>2

-----------------------------------------------------------------------------
(* Snapshots. *)

IsSnapshot(s) ==
    /\ DOMAIN s \subseteq Prefix
    /\ \A p \in DOMAIN s : s[p].origin \in Asn /\ s[p].path \in Seq(Asn)

LEMMA TableFacts ==
    ASSUME NEW t \in Tables, NEW d \in Calendar
    PROVE  IsSnapshot(t[d])
BY BacktestAssumption DEF IsSnapshot

LEMMA PartFacts ==
    ASSUME NEW s, NEW t, Part(s, t), IsSnapshot(t)
    PROVE  IsSnapshot(s)
BY DEF IsSnapshot, Part

LEMMA AnnouncedFacts ==
    ASSUME NEW s, IsSnapshot(s), NEW a
    PROVE  /\ IsFiniteSet(Announced(s, a)) /\ Cardinality(Announced(s, a)) \in Nat
           /\ a \in DOMAIN Counts(s) =>
                 Counts(s)[a] = Cardinality(Announced(s, a)) /\ Counts(s)[a] \in Nat \ {0}
<1>1. IsFiniteSet(Announced(s, a))
  <2>1. Announced(s, a) \in SUBSET Prefix
    BY DEF Announced, IsSnapshot
  <2> QED  BY <2>1, FS_Subset, ContactDiffAssumption
<1>2. Cardinality(Announced(s, a)) \in Nat
  BY <1>1, FS_CardinalityType
<1>3. Announced(s, a) # {} => Cardinality(Announced(s, a)) # 0
  BY <1>1, FS_EmptySet
<1>4. a \in DOMAIN Counts(s) => Announced(s, a) # {}
  BY DEF Counts, Announced
<1>5. a \in DOMAIN Counts(s) => Counts(s)[a] = Cardinality(Announced(s, a))
  BY DEF Counts
<1> QED  BY <1>1, <1>2, <1>3, <1>4, <1>5

LEMMA LastOfFacts ==
    ASSUME NEW n \in Nat, NEW S \in SUBSET (1..n), S # {}
    PROVE  LastOf(S) \in S
<1>1. \E i \in S : \A j \in S : j <= i
  <2>1. 1 \in Int /\ n \in Int
    OBVIOUS
  <2> QED  BY <2>1, FirstAndLast
<1> QED  BY <1>1 DEF LastOf

\* The other ASN nearest to the origin is an ASN of the path and not the origin.
LEMMA UpstreamFacts ==
    ASSUME NEW obs, obs.path \in Seq(Asn), Upstream(obs) # None
    PROVE  Upstream(obs) \in Asn /\ Upstream(obs) # obs.origin
<1> DEFINE places == {i \in 1..Len(obs.path) : obs.path[i] = obs.origin}
           others == {i \in 1..Len(obs.path) :
                         obs.path[i] # obs.origin /\ \E j \in places : i < j}
<1>1. others # {} /\ Upstream(obs) = obs.path[LastOf(others)]
  BY DEF Upstream
<1>2. others \in SUBSET (1..Len(obs.path)) /\ Len(obs.path) \in Nat
  OBVIOUS
<1>3. LastOf(others) \in others
  <2> HIDE DEF others
  <2> QED  BY <1>1, <1>2, LastOfFacts
<1>4. LastOf(others) \in 1..Len(obs.path) /\ obs.path[LastOf(others)] # obs.origin
  <2> DEFINE i == LastOf(others)
  <2>1. i \in others
    BY <1>3
  <2> HIDE DEF i
  <2> QED  BY <2>1 DEF i
<1> HIDE DEF others
<1> QED  BY <1>1, <1>4

-----------------------------------------------------------------------------
(* The events of a diff. *)

SubjectsOf(before, after) == Subjects(Orgs, Larger(Counts(before), Counts(after)))

\* Each kind of event comes from its own part of diff_snapshots.
LEMMA EventsByKind ==
    ASSUME NEW before, NEW after, NEW e \in Diff(before, after, Orgs)
    PROVE  LET subjects == SubjectsOf(before, after)
           IN  \/ e.kind = "prefix_move" /\ e \in PrefixMoves(before, after, subjects)
               \/ /\ e.kind = "upstream_converge"
                  /\ e \in NewUpstreams(before, after, subjects, Orgs)
               \/ e.kind = "new_adj" /\ e \in NewAdjacencies(before, after, subjects)
               \/ e.kind = "footprint_step" /\ e \in FootprintSteps(before, after, subjects)
<1> DEFINE subjects == SubjectsOf(before, after)
<1>1. \/ e \in PrefixMoves(before, after, subjects)
      \/ e \in NewUpstreams(before, after, subjects, Orgs)
      \/ e \in NewAdjacencies(before, after, subjects)
      \/ e \in FootprintSteps(before, after, subjects)
  BY DEF Diff, SubjectsOf
<1>2. e \in PrefixMoves(before, after, subjects) => e.kind = "prefix_move"
  BY DEF PrefixMoves, Event
<1>3. e \in NewUpstreams(before, after, subjects, Orgs) => e.kind = "upstream_converge"
  BY DEF NewUpstreams, Event
<1>4. e \in NewAdjacencies(before, after, subjects) => e.kind = "new_adj"
  <2>1. ASSUME e \in NewAdjacencies(before, after, subjects)
        PROVE  \E f \in Asn \X Asn : e = Event("new_adj", f[1], f[2], None)
    BY <2>1 DEF NewAdjacencies
  <2> QED  BY <2>1 DEF Event
<1>5. e \in FootprintSteps(before, after, subjects) => e.kind = "footprint_step"
  BY DEF FootprintSteps, Event
<1> HIDE DEF subjects
<1> QED  BY <1>1, <1>2, <1>3, <1>4, <1>5 DEF subjects

\* The two ends of an event: two ASNs, but for a step of one ASN's footprint.
LEMMA DiffEnds ==
    ASSUME NEW before, IsSnapshot(before), NEW after, IsSnapshot(after),
           NEW e \in Diff(before, after, Orgs)
    PROVE  /\ e.a \in Asn
           /\ e.kind = "footprint_step" => e.b = None
           /\ e.kind # "footprint_step" => e.b \in Asn /\ e.a # e.b
           /\ e.kind = "prefix_move" =>
                 /\ e.prefix \in DOMAIN before \cap DOMAIN after
                 /\ before[e.prefix].origin = e.a /\ after[e.prefix].origin = e.b
<1> DEFINE subjects == SubjectsOf(before, after)
<1>1. CASE e.kind = "prefix_move" /\ e \in PrefixMoves(before, after, subjects)
  <2>1. PICK p \in Moved(before, after) :
            e = Event("prefix_move", before[p].origin, after[p].origin, p)
    BY <1>1 DEF PrefixMoves
  <2> QED  BY <2>1 DEF Moved, Event, IsSnapshot
<1>2. CASE /\ e.kind = "upstream_converge"
           /\ e \in NewUpstreams(before, after, subjects, Orgs)
  <2>1. PICK u \in Upstreams(after, subjects) : e = Event("upstream_converge", u[1], u[2], None)
    BY <1>2 DEF NewUpstreams
  <2>2. PICK p \in DOMAIN after :
            /\ Upstream(after[p]) # None
            /\ u = <<after[p].origin, Upstream(after[p])>>
    BY <2>1 DEF Upstreams
  <2>3. after[p].origin \in Asn /\ after[p].path \in Seq(Asn)
    BY DEF IsSnapshot
  <2>4. Upstream(after[p]) \in Asn /\ Upstream(after[p]) # after[p].origin
    BY <2>2, <2>3, UpstreamFacts
  <2>5. e.a = after[p].origin /\ e.b = Upstream(after[p])
    BY <2>1, <2>2 DEF Event
  <2> QED  BY <1>2, <2>3, <2>4, <2>5
<1>3. CASE e.kind = "new_adj" /\ e \in NewAdjacencies(before, after, subjects)
  <2>1. PICK f \in Asn \X Asn : f[1] < f[2] /\ e = Event("new_adj", f[1], f[2], None)
    BY <1>3 DEF NewAdjacencies
  <2>2. f[1] \in Asn /\ f[2] \in Asn /\ f[1] # f[2]
    <3>1. f[1] \in Asn /\ f[2] \in Asn
      OBVIOUS
    <3>2. f[1] \in Nat /\ f[2] \in Nat
      BY <3>1, ContactDiffAssumption
    <3> QED  BY <2>1, <3>1, <3>2
  <2>3. e.a = f[1] /\ e.b = f[2]
    BY <2>1 DEF Event
  <2> QED  BY <1>3, <2>2, <2>3
<1>4. CASE e.kind = "footprint_step" /\ e \in FootprintSteps(before, after, subjects)
  <2>1. PICK a \in subjects : e = Event("footprint_step", a, None, None)
    BY <1>4 DEF FootprintSteps
  <2>2. subjects \subseteq DOMAIN Orgs
    BY DEF Subjects, SubjectsOf
  <2>3. e.a = a /\ e.b = None /\ a \in Asn
    BY <2>1, <2>2, BacktestAssumption DEF Event, IsOrgMap
  <2> QED  BY <1>4, <2>3
<1> QED  BY <1>1, <1>2, <1>3, <1>4, EventsByKind

\* A mapped ASN that is no glue, is small in both tables and has a row in a part of one
\* of them is a subject of the diff of the parts: no hint is asked.
LEMMA SmallIsSubject ==
    ASSUME NEW s, NEW t, IsSnapshot(t), Part(s, t),
           NEW s2, NEW t2, IsSnapshot(t2), Part(s2, t2),
           NEW a \in DOMAIN Orgs \ Glue,
           Cardinality(Announced(t, a)) <= MaxPrefixes,
           Cardinality(Announced(t2, a)) <= MaxPrefixes,
           NEW p \in DOMAIN s, s[p].origin = a
    PROVE  a \in SubjectsOf(s, s2)
<1>1. ASSUME NEW x, NEW y, IsSnapshot(y), Part(x, y),
             Cardinality(Announced(y, a)) <= MaxPrefixes
      PROVE  a \in DOMAIN Counts(x) => Counts(x)[a] \in 1..MaxPrefixes
  <2>1. IsSnapshot(x)
    BY <1>1, PartFacts
  <2>2. /\ a \in DOMAIN Counts(x) =>
              Counts(x)[a] = Cardinality(Announced(x, a)) /\ Counts(x)[a] \in Nat \ {0}
        /\ Cardinality(Announced(x, a)) \in Nat /\ Cardinality(Announced(y, a)) \in Nat
        /\ IsFiniteSet(Announced(y, a))
    BY <1>1, <2>1, AnnouncedFacts
  <2>3. Announced(x, a) \in SUBSET Announced(y, a)
    BY <1>1 DEF Announced, Part
  <2>4. Cardinality(Announced(x, a)) <= Cardinality(Announced(y, a))
    BY <2>2, <2>3, FS_Subset
  <2> QED  BY <1>1, <2>2, <2>4, ContactDiffAssumption
<1>2. a \in DOMAIN Counts(s) => Counts(s)[a] \in 1..MaxPrefixes
  BY <1>1
<1>3. a \in DOMAIN Counts(s2) => Counts(s2)[a] \in 1..MaxPrefixes
  BY <1>1
<1> DEFINE c == Larger(Counts(s), Counts(s2))
<1>4. a \in DOMAIN c /\ c[a] \in 1..MaxPrefixes
  <2>1. a \in DOMAIN Counts(s)
    BY DEF Counts
  <2> QED  BY <1>2, <1>3, <2>1 DEF Larger
<1>5. PICK hint \in Orgs[a] : TRUE
  BY BacktestAssumption DEF IsOrgMap
<1> HIDE DEF c
<1>6. a \in Subjects(Orgs, c)
  BY <1>4, <1>5 DEF Subjects, Eligible
<1> QED  BY <1>6 DEF SubjectsOf, c

\* A move that both parts have, between two such ASNs, is found.
LEMMA DiffFindsMove ==
    ASSUME NEW before, NEW was, IsSnapshot(was), Part(before, was),
           NEW after, NEW is, IsSnapshot(is), Part(after, is),
           NEW p \in Moved(was, is), p \in DOMAIN before, p \in DOMAIN after,
           was[p].origin \in DOMAIN Orgs \ Glue, is[p].origin \in DOMAIN Orgs \ Glue,
           Cardinality(Announced(was, was[p].origin)) <= MaxPrefixes,
           Cardinality(Announced(is, was[p].origin)) <= MaxPrefixes
    PROVE  Event("prefix_move", was[p].origin, is[p].origin, p) \in Diff(before, after, Orgs)
<1> DEFINE subjects == SubjectsOf(before, after)
<1>1. was[p].origin \in subjects
  <2>1. before[p].origin = was[p].origin
    BY DEF Part
  <2> QED  BY <2>1, SmallIsSubject
<1>2. before[p] = was[p] /\ after[p] = is[p]
  BY DEF Part
<1>3. p \in Moved(before, after)
  BY <1>2 DEF Moved
<1> HIDE DEF subjects
<1>4. Event("prefix_move", was[p].origin, is[p].origin, p) \in PrefixMoves(before, after, subjects)
  BY <1>1, <1>2, <1>3 DEF PrefixMoves
<1> QED  BY <1>4 DEF Diff, SubjectsOf, subjects

\* Between two tables filtered for the same focus, what is said of upstreams and
\* footprints is true of the tables.
LEMMA DiffChangesReal ==
    ASSUME NEW before, NEW was, NEW after, NEW is, IsSnapshot(was), IsSnapshot(is), NEW focus,
           Filtered(before, was, focus), Filtered(after, is, focus),
           NEW e \in Diff(before, after, Orgs)
    PROVE  /\ e.kind = "upstream_converge" =>
                 /\ <<e.a, e.b>> \in Upstreams(is, Asn)
                 /\ <<e.a, e.b>> \notin Upstreams(was, Asn)
           /\ e.kind = "footprint_step" =>
                 Abs(Cardinality(Announced(is, e.a)) - Cardinality(Announced(was, e.a))) >= AbsStep
<1> DEFINE subjects == SubjectsOf(before, after)
<1>1. ASSUME e.kind = "upstream_converge"
      PROVE  /\ <<e.a, e.b>> \in Upstreams(is, Asn)
             /\ <<e.a, e.b>> \notin Upstreams(was, Asn)
  <2>1. e \in NewUpstreams(before, after, subjects, Orgs)
    BY <1>1, EventsByKind
  <2>2. PICK u \in Upstreams(after, subjects) \ Upstreams(before, subjects) :
            e = Event("upstream_converge", u[1], u[2], None)
    BY <2>1 DEF NewUpstreams
  <2>3. PICK p \in DOMAIN after :
            /\ after[p].origin \in subjects /\ Upstream(after[p]) # None
            /\ u = <<after[p].origin, Upstream(after[p])>>
    BY <2>2 DEF Upstreams
  <2>4. e.a = after[p].origin /\ u = <<e.a, e.b>>
    BY <2>2, <2>3 DEF Event
  <2>5. p \in DOMAIN is /\ is[p] = after[p] /\ is[p].origin \in Asn
    BY <2>3 DEF Filtered, Part, IsSnapshot
  <2>6. u \in Upstreams(is, Asn)
    BY <2>3, <2>5 DEF Upstreams
  <2>7. ASSUME u \in Upstreams(was, Asn) PROVE FALSE
    <3>1. PICK q \in DOMAIN was :
              /\ Upstream(was[q]) # None
              /\ u = <<was[q].origin, Upstream(was[q])>>
      BY <2>7 DEF Upstreams
    <3>2. was[q].origin = e.a
      BY <3>1, <2>4
    <3>3. focus = {} \/ e.a \in focus
      BY <2>4, <2>5 DEF Filtered
    <3>4. q \in DOMAIN before /\ before[q] = was[q]
      BY <3>2, <3>3 DEF Filtered, Part
    <3>5. u \in Upstreams(before, subjects)
      BY <2>3, <2>4, <3>1, <3>2, <3>4 DEF Upstreams
    <3> QED  BY <2>2, <3>5
  <2> QED  BY <2>4, <2>6, <2>7
<1>2. ASSUME e.kind = "footprint_step"
      PROVE  Abs(Cardinality(Announced(is, e.a)) - Cardinality(Announced(was, e.a))) >= AbsStep
  <2>1. e \in FootprintSteps(before, after, subjects)
    BY <1>2, EventsByKind
  <2>2. PICK a \in (DOMAIN Counts(before) \cup DOMAIN Counts(after)) \cap subjects :
            /\ e = Event("footprint_step", a, None, None)
            /\ Abs(Cardinality(Announced(after, a)) - Cardinality(Announced(before, a))) >= AbsStep
    BY <2>1 DEF FootprintSteps
  <2>3. e.a = a
    BY <2>2 DEF Event
  <2>4. focus = {} \/ a \in focus
    <3>1. \/ \E p \in DOMAIN before : before[p].origin = a
          \/ \E p \in DOMAIN after : after[p].origin = a
      BY <2>2 DEF Counts
    <3> QED  BY <3>1 DEF Filtered, Part
  <2>5. Announced(after, a) = Announced(is, a) /\ Announced(before, a) = Announced(was, a)
    BY <2>4 DEF Announced, Filtered, Part
  <2> QED  BY <2>2, <2>3, <2>5
<1> QED  BY <1>1, <1>2

-----------------------------------------------------------------------------
(* The files. *)

LEMMA PlannedDays ==
    /\ PlannedDay \subseteq Int
    /\ \A j \in Jobs : \A i \in 1..Len(Planned(j)) :
          Planned(j)[i] \in PlannedDay /\ Planned(j)[i] \in Int
<1>1. \A j \in Jobs : DOMAIN Planned(j) = 1..Len(Planned(j))
  BY PlanFacts
<1>2. \A j \in Jobs : \A i \in 1..Len(Planned(j)) : Planned(j)[i] \in Int
  BY PlanFacts
<1> QED  BY <1>1, <1>2 DEF PlannedDay

LEMMA KeptFacts ==
    ASSUME NEW s, NEW t, Part(s, t), NEW f
    PROVE  /\ Part(Kept(s, f), t)
           /\ \A p \in DOMAIN s : p \in DOMAIN Kept(s, f) <=> f = {} \/ s[p].origin \in f
BY DEF Kept, Focused, Part

LEMMA FocusFacts ==
    ASSUME NEW j \in Jobs
    PROVE  FocusOf(j) \subseteq Asn
BY BacktestAssumption DEF FocusOf

-----------------------------------------------------------------------------
(* The invariant is inductive. *)

LEMMA InitInv == Init => Inv
<1> SUFFICES ASSUME Init PROVE Inv
  OBVIOUS
<1>1. FilesOK
  BY DEF Init, FilesOK
<1>2. WalkOK
  <2>1. table \in Tables /\ archive \subseteq Calendar
    BY BacktestAssumption DEF Init
  <2>2. 1 \in 1..Len(Delta) + 1
    BY DeltaFacts
  <2>3. used = <<>> /\ used \in Seq(Calendar \cup {Torn})
    BY DEF Init
  <2> QED  BY <2>1, <2>2, <2>3, BacktestAssumption DEF Init, WalkOK, Stage
<1>3. UsedOK
  BY DEF Init, UsedOK
<1>4. Agreed
  BY DEF Init, Agreed
<1>5. EventsOK
  BY DEF Init, EventsOK
<1>6. ReportOK
  BY DEF Init, ReportOK
<1> QED  BY <1>1, <1>2, <1>3, <1>4, <1>5, <1>6 DEF Inv

\* A dump that comes late can be nearer than the one found.
LEMMA PublishStep ==
    ASSUME Inv, NEW d \in Calendar, Publish(d)
    PROVE  Inv'
<1> USE DEF Inv
<1>1. /\ archive' = archive \cup {d} /\ late' = late + 1 /\ late < MaxLate
      /\ UNCHANGED <<table, file, job, stage, at, try, used, events, report, runs, errors,
                     failures>>
  BY DEF Publish
<1>2. late' \in 0..MaxLate /\ ~Steady'
  BY <1>1, BacktestAssumption DEF WalkOK, Steady
<1>3. FilesOK'
  BY <1>1, <1>2 DEF FilesOK, Found
<1>4. WalkOK'
  BY <1>1, <1>2 DEF WalkOK, Samples
<1>5. UsedOK'
  BY <1>1, <1>2 DEF UsedOK, Found
<1>6. Agreed' /\ EventsOK' /\ ReportOK'
  BY <1>1 DEF Agreed, EventsOK, ReportOK, Of, Samples, Diffed, There
<1> QED  BY <1>3, <1>4, <1>5, <1>6

\* The report speaks of files that are removed afterwards.
LEMMA DeleteStep ==
    ASSUME Inv, NEW d \in PlannedDay, Delete(d)
    PROVE  Inv'
<1> USE DEF Inv
<1>1. /\ file' = [file EXCEPT ![d] = None] /\ stage = "idle"
      /\ UNCHANGED <<table, archive, job, stage, at, try, used, events, report, runs, errors,
                     failures, late>>
  BY DEF Delete
<1>2. DOMAIN file' = PlannedDay /\ \A c \in PlannedDay : file'[c] = file[c] \/ file'[c] = None
  BY <1>1 DEF FilesOK
<1>3. FilesOK'
  BY <1>1, <1>2 DEF FilesOK, Steady
<1>4. WalkOK' /\ UsedOK' /\ ReportOK'
  BY <1>1 DEF WalkOK, UsedOK, ReportOK, Samples, Steady
<1>5. ASSUME report # None, NEW i \in 1..Samples
      PROVE  Of(i)' = Of(i) \/ Of(i)' = None
  <2>1. Planned(job)[i] \in PlannedDay
    BY <1>5, PlannedDays DEF ReportOK, Samples
  <2> QED  BY <1>1, <1>2, <2>1 DEF Of
<1>6. Agreed'
  BY <1>1, <1>5 DEF Agreed, ReportOK
<1>7. EventsOK'
  <2>1. ASSUME report # None
        PROVE  /\ \A i \in 1..Diffed : There(i)' => DiffOf(Of(i), Of(i + 1))' \subseteq events
               /\ \A x \in events : \E i \in 1..Diffed :
                     There(i)' => x \in DiffOf(Of(i), Of(i + 1))'
    <3>1. Samples \in Nat \ {0}
      BY <2>1, PlanFacts DEF ReportOK, Samples
    <3>2. \A i \in 1..Diffed : i \in 1..Samples /\ i + 1 \in 1..Samples
      BY <1>1, <3>1 DEF Diffed
    <3>3. \A i \in 1..Diffed :
              There(i)' => There(i) /\ DiffOf(Of(i), Of(i + 1))' = DiffOf(Of(i), Of(i + 1))
      <4> SUFFICES ASSUME NEW i \in 1..Diffed, There(i)'
                   PROVE  There(i) /\ DiffOf(Of(i), Of(i + 1))' = DiffOf(Of(i), Of(i + 1))
        OBVIOUS
      <4>1. Of(i)' = Of(i) /\ Of(i + 1)' = Of(i + 1)
        BY <1>5, <2>1, <3>2 DEF There
      <4> QED  BY <4>1 DEF There, DiffOf
    <3> QED  BY <1>1, <2>1, <3>3 DEF EventsOK
  <2>2. Diffed' = Diffed
    BY <1>1 DEF Diffed, Samples
  <2> QED  BY <1>1, <2>1, <2>2 DEF EventsOK
<1> QED  BY <1>3, <1>4, <1>6, <1>7

LEMMA StartStep ==
    ASSUME Inv, NEW j \in Jobs, Start(j)
    PROVE  Inv'
<1> USE DEF Inv
<1>1. /\ stage = "idle" /\ runs < MaxRuns /\ runs' = runs + 1
      /\ job' = j /\ stage' = "sample" /\ at' = 1 /\ try' = 1
      /\ used' = <<>> /\ events' = {} /\ report' = None
      /\ UNCHANGED <<table, archive, file, errors, failures, late>>
  BY DEF Start
<1>2. FilesOK'
  BY <1>1 DEF FilesOK, Steady
<1>3. WalkOK'
  <2>1. Samples' \in Nat \ {0}
    BY <1>1, PlanFacts DEF Samples
  <2>2. runs' \in 0..MaxRuns /\ 1 \in 1..Len(Delta) + 1
    BY <1>1, BacktestAssumption, DeltaFacts DEF WalkOK
  <2>3. used' \in Seq(Calendar \cup {Torn}) /\ Len(used') = 0
    BY <1>1
  <2> QED  BY <1>1, <2>1, <2>2, <2>3 DEF WalkOK, Stage
<1>4. UsedOK' /\ Agreed'
  BY <1>1 DEF UsedOK, Agreed
<1>5. EventsOK' /\ ReportOK'
  BY <1>1 DEF EventsOK, ReportOK
<1> QED  BY <1>2, <1>3, <1>4, <1>5

\* What holds while samples are taken.
LEMMA SamplingFacts ==
    ASSUME Inv, stage = "sample"
    PROVE  /\ job \in Jobs /\ Samples \in Nat \ {0} /\ at \in 1..Samples
           /\ Target \in PlannedDay /\ Target \in Int
           /\ used \in Seq(Calendar \cup {Torn}) /\ Len(used) = at - 1
           /\ events = {} /\ report = None
           /\ \A i \in 1..(at - 1) : /\ Planned(job)[i] \in PlannedDay
                                     /\ Planned(job)[i] # Target
<1> USE DEF Inv
<1>1. job \in Jobs /\ at \in 1..Samples /\ Len(used) = at - 1 /\ used \in Seq(Calendar \cup {Torn})
  BY DEF WalkOK
<1>2. Samples \in Nat \ {0}
  BY <1>1, PlanFacts DEF Samples
<1>3. Target \in PlannedDay /\ Target \in Int
  BY <1>1, PlannedDays DEF Samples, Target
<1>4. events = {} /\ report = None
  BY DEF EventsOK, ReportOK
<1>5. ASSUME NEW i \in 1..(at - 1)
      PROVE  Planned(job)[i] \in PlannedDay /\ Planned(job)[i] # Target
  <2>1. i \in 1..Samples /\ i < at
    BY <1>1, <1>2
  <2>2. Planned(job)[i] < Target /\ Planned(job)[i] \in Int /\ Planned(job)[i] \in PlannedDay
    BY <1>1, <2>1, PlanFacts, PlannedDays DEF Samples, Target
  <2> QED  BY <1>3, <2>2
<1> QED  BY <1>1, <1>2, <1>3, <1>4, <1>5

\* The sample is taken, from a file that was there or that has been written.
LEMMA SampledStep ==
    ASSUME Inv, stage = "sample", NEW day, Sampled(day),
           DOMAIN file' = PlannedDay,
           \A d \in PlannedDay \ {Target} : file'[d] = file[d],
           \/ file'[Target] = Torn /\ day = Torn
           \/ /\ IsFile(table, file'[Target]) /\ day = file'[Target].used
              /\ Found(Target, day, archive, Steady),
           failures' \in 0..MaxFailures,
           UNCHANGED <<table, archive, job, events, report, runs, errors, late>>
    PROVE  Inv'
<1> USE DEF Inv
<1>1. /\ job \in Jobs /\ Samples \in Nat \ {0} /\ at \in 1..Samples
      /\ Target \in PlannedDay /\ Target \in Int
      /\ used \in Seq(Calendar \cup {Torn}) /\ Len(used) = at - 1
      /\ events = {} /\ report = None
      /\ \A i \in 1..(at - 1) : Planned(job)[i] \in PlannedDay /\ Planned(job)[i] # Target
  BY SamplingFacts
<1>2. /\ used' = Append(used, day) /\ try' = 1
      /\ \/ at < Samples /\ at' = at + 1 /\ stage' = "sample"
         \/ at >= Samples /\ at' = 1 /\ stage' = "diff"
  BY <1>1 DEF Sampled
<1>3. day \in Calendar \cup {Torn}
  BY DEF Found
<1>4. /\ used' \in Seq(Calendar \cup {Torn}) /\ Len(used') = at
      /\ \A i \in 1..(at - 1) : used'[i] = used[i]
      /\ used'[at] = day
  BY <1>1, <1>2, <1>3
<1>5. Steady' = Steady /\ Samples' = Samples
  BY DEF Steady, Samples
<1>6. FilesOK'
  <2>1. \A d \in PlannedDay \ {Target} :
            \/ file'[d] \in {None, Torn}
            \/ IsFile(table', file'[d]) /\ Found(d, file'[d].used, archive', Steady')
    BY <1>5 DEF FilesOK
  <2>2. \/ file'[Target] = Torn
        \/ IsFile(table', file'[Target]) /\ Found(Target, file'[Target].used, archive', Steady')
    BY <1>5
  <2> QED  BY <2>1, <2>2 DEF FilesOK
<1>7. WalkOK'
  <2>1. 1 \in 1..Len(Delta) + 1
    BY DeltaFacts
  <2>2. at' \in 1..Samples /\ stage' \in Stage
    BY <1>1, <1>2 DEF Stage
  <2>3. stage' = "sample" => Len(used') = at' - 1
    BY <1>1, <1>2, <1>4
  <2>4. stage' = "diff" => Len(used') = Samples
    BY <1>1, <1>2, <1>4
  <2>5. Len(used') <= Samples
    BY <1>1, <1>4
  <2>6. \A m \in 1..(try' - 1) : Target' + Delta[m] \notin archive'
    BY <1>2
  <2>7. /\ table' \in Tables /\ archive' \subseteq Calendar /\ job' \in Jobs /\ late' \in 0..MaxLate
        /\ runs' \in 0..MaxRuns /\ errors' \in 0..MaxErrors /\ try' \in 1..Len(Delta) + 1
    BY <1>1, <1>2, <2>1 DEF WalkOK
  <2> QED  BY <1>4, <1>5, <2>2, <2>3, <2>4, <2>5, <2>6, <2>7 DEF WalkOK
<1>8. \A i \in 1..at : i \in 1..(at - 1) \/ i = at
  BY <1>1
<1>9. UsedOK'
  <2>1. \A i \in 1..(at - 1) :
            used'[i] # Torn => Found(Planned(job')[i], used'[i], archive', Steady')
    BY <1>1, <1>4, <1>5 DEF UsedOK
  <2>2. used'[at] # Torn => Found(Planned(job')[at], used'[at], archive', Steady')
    BY <1>4, <1>5 DEF Target
  <2> QED  BY <1>4, <1>8, <2>1, <2>2 DEF UsedOK
<1>10. Agreed'
  <2>1. \A i \in 1..(at - 1) : Agrees(table', file'[Planned(job')[i]], used'[i])
    BY <1>1, <1>4 DEF Agreed, Of
  <2>2. Agrees(table', file'[Planned(job')[at]], used'[at])
    BY <1>4 DEF Agrees, Target
  <2> QED  BY <1>4, <1>8, <2>1, <2>2 DEF Agreed, Of
<1>11. EventsOK' /\ ReportOK'
  BY <1>1, <1>2 DEF EventsOK, ReportOK, Diffed
<1> QED  BY <1>6, <1>7, <1>9, <1>10, <1>11

LEMMA ReuseStep ==
    ASSUME Inv, Reuse
    PROVE  Inv'
<1> USE DEF Inv
<1>1. stage = "sample" /\ file[Target] # None
  BY DEF Reuse
<1>2. Target \in PlannedDay
  BY <1>1, SamplingFacts
<1>3. CASE file[Target] = Torn
  <2>1. Sampled(Torn)
    BY <1>3 DEF Reuse
  <2> QED  BY <1>1, <1>3, <2>1, SampledStep DEF Reuse, FilesOK, WalkOK
<1>4. CASE file[Target] # Torn
  <2>1. Sampled(file[Target].used)
    BY <1>4 DEF Reuse
  <2>2. IsFile(table, file[Target]) /\ Found(Target, file[Target].used, archive, Steady)
    BY <1>1, <1>2, <1>4 DEF FilesOK
  <2>3. /\ file' = file /\ failures' \in 0..MaxFailures /\ DOMAIN file = PlannedDay
        /\ UNCHANGED <<table, archive, job, events, report, runs, errors, late>>
    BY DEF Reuse, FilesOK, WalkOK
  <2> QED  BY <1>1, <2>1, <2>2, <2>3, SampledStep
<1> QED  BY <1>3, <1>4

\* The dump the walk has come to.
LEMMA TriedFacts ==
    ASSUME Inv, Fetching, Tried \in archive
    PROVE  /\ Tried \in Calendar
           /\ Found(Target, Tried, archive, Steady)
<1> USE DEF Inv
<1>1. try \in 1..Len(Delta) /\ stage = "sample"
  BY DeltaFacts DEF Fetching, WalkOK
<1>2. Target \in Int /\ archive \in SUBSET Int /\ Tried \in Calendar
  BY <1>1, SamplingFacts, BacktestAssumption DEF WalkOK
<1>3. Tried - Target = Delta[try] /\ Delta[try] \in -3..3
  BY <1>1, <1>2, DeltaFacts DEF Tried
<1>4. Steady => Best(Target, archive, Tried)
  <2>1. Steady => \A m \in 1..(try - 1) : Target + Delta[m] \notin archive
    BY <1>1 DEF WalkOK
  <2> QED  BY <1>1, <1>2, <2>1, WalkFindsBest DEF Tried
<1> QED  BY <1>2, <1>3, <1>4 DEF Found

LEMMA MissStep ==
    ASSUME Inv, Miss
    PROVE  Inv'
<1> USE DEF Inv
<1>1. /\ stage = "sample" /\ try <= Len(Delta) /\ try' = try + 1
      /\ \/ Tried \notin archive /\ errors' = errors
         \/ errors < MaxErrors /\ errors' = errors + 1
      /\ UNCHANGED <<table, archive, file, job, stage, at, used, events, report, runs, failures,
                     late>>
  BY DEF Miss, Fetching
<1>2. errors \in Nat /\ errors' \in 0..MaxErrors /\ (Steady' => Steady /\ Tried \notin archive)
  BY <1>1, BacktestAssumption DEF WalkOK, Steady
<1>3. FilesOK' /\ UsedOK'
  BY <1>1, <1>2 DEF FilesOK, UsedOK, Found
<1>4. WalkOK'
  <2>1. try \in Nat /\ try' \in 1..Len(Delta) + 1
    BY <1>1, DeltaFacts DEF WalkOK
  <2>2. Steady' => \A m \in 1..(try' - 1) : Target + Delta[m] \notin archive
    <3>1. \A m \in 1..(try' - 1) : m \in 1..(try - 1) \/ m = try
      BY <1>1, <2>1
    <3> QED  BY <1>1, <1>2, <3>1 DEF WalkOK, Tried
  <2>3. Target' = Target
    BY <1>1 DEF Target
  <2> QED  BY <1>1, <1>2, <2>1, <2>2, <2>3 DEF WalkOK, Samples
<1>5. Agreed' /\ EventsOK' /\ ReportOK'
  BY <1>1 DEF Agreed, EventsOK, ReportOK, Of, Samples, Diffed, There
<1> QED  BY <1>3, <1>4, <1>5

\* Whatever part of the dump has been read, its file is one of the dump.
LEMMA WrittenFacts ==
    ASSUME Inv, Fetching, Tried \in archive, NEW read, Part(read, table[Tried]), NEW complete,
           complete => read = table[Tried]
    PROVE  LET f == SnapshotFile(Kept(read, FocusOf(job)), complete)
           IN  IsFile(table, f) /\ f.used = Tried
<1> DEFINE focus == FocusOf(job)
           f == SnapshotFile(Kept(read, focus), complete)
<1>1. f.used = Tried /\ f.focus = focus /\ f.rows = Kept(read, focus) /\ f.complete = complete
  BY DEF SnapshotFile
<1>2. Tried \in Calendar
  BY TriedFacts
<1>3. focus \subseteq Asn
  BY SamplingFacts, FocusFacts DEF Fetching
<1> HIDE DEF focus
<1>4. Part(Kept(read, focus), table[Tried])
  BY KeptFacts
<1>5. complete => Filtered(Kept(read, focus), table[Tried], focus)
  BY <1>4, KeptFacts DEF Filtered
<1> HIDE DEF f
<1>6. IsFile(table, f)
  BY <1>1, <1>2, <1>3, <1>4, <1>5 DEF IsFile
<1> QED  BY <1>1, <1>6 DEF f, focus

LEMMA FetchStep ==
    ASSUME Inv, Fetch
    PROVE  Inv'
<1> USE DEF Inv
<1> DEFINE f == SnapshotFile(Kept(table[Tried], FocusOf(job)), TRUE)
<1>1. /\ Fetching /\ stage = "sample" /\ Tried \in archive
      /\ file' = [file EXCEPT ![Target] = f] /\ Sampled(Tried)
      /\ UNCHANGED <<table, archive, job, events, report, runs, errors, failures, late>>
  BY DEF Fetch, Fetching
<1>2. IsFile(table, f) /\ f.used = Tried
  <2>1. Part(table[Tried], table[Tried])
    BY DEF Part
  <2> QED  BY <1>1, <2>1, WrittenFacts
<1>3. Found(Target, Tried, archive, Steady)
  BY <1>1, TriedFacts
<1> HIDE DEF f
<1>4. /\ DOMAIN file' = PlannedDay /\ file'[Target] = f
      /\ \A d \in PlannedDay \ {Target} : file'[d] = file[d]
  BY <1>1, SamplingFacts DEF FilesOK
<1>5. failures' \in 0..MaxFailures
  BY <1>1 DEF WalkOK
<1> QED  BY <1>1, <1>2, <1>3, <1>4, <1>5, SampledStep

LEMMA FetchShortStep ==
    ASSUME Inv, FetchShort
    PROVE  Inv'
<1> USE DEF Inv
<1>1. /\ Fetching /\ stage = "sample" /\ Tried \in archive /\ Sampled(Tried)
      /\ failures < MaxFailures /\ failures' = failures + 1
      /\ UNCHANGED <<table, archive, job, events, report, runs, errors, late>>
  BY DEF FetchShort, Fetching
<1>2. PICK S \in SUBSET DOMAIN table[Tried] :
          file' = [file EXCEPT ![Target] =
                      SnapshotFile(Kept([p \in S |-> table[Tried][p]], FocusOf(job)), FALSE)]
  BY DEF FetchShort
<1> DEFINE read == [p \in S |-> table[Tried][p]]
           f == SnapshotFile(Kept(read, FocusOf(job)), FALSE)
<1>3. IsFile(table, f) /\ f.used = Tried
  <2>1. Part(read, table[Tried])
    BY DEF Part
  <2> HIDE DEF read
  <2> QED  BY <1>1, <2>1, WrittenFacts
<1>4. Found(Target, Tried, archive, Steady)
  BY <1>1, TriedFacts
<1>5. file' = [file EXCEPT ![Target] = f]
  BY <1>2
<1> HIDE DEF f
<1>6. /\ DOMAIN file' = PlannedDay /\ file'[Target] = f
      /\ \A d \in PlannedDay \ {Target} : file'[d] = file[d]
  BY <1>1, <1>5, SamplingFacts DEF FilesOK
<1>7. failures' \in 0..MaxFailures
  BY <1>1, BacktestAssumption DEF WalkOK
<1> QED  BY <1>1, <1>3, <1>4, <1>6, <1>7, SampledStep

LEMMA FetchTornStep ==
    ASSUME Inv, FetchTorn
    PROVE  Inv'
<1> USE DEF Inv
<1>1. /\ stage = "sample" /\ Sampled(Torn) /\ file' = [file EXCEPT ![Target] = Torn]
      /\ failures < MaxFailures /\ failures' = failures + 1
      /\ UNCHANGED <<table, archive, job, events, report, runs, errors, late>>
  BY DEF FetchTorn, Fetching
<1>2. /\ DOMAIN file' = PlannedDay /\ file'[Target] = Torn
      /\ \A d \in PlannedDay \ {Target} : file'[d] = file[d]
  BY <1>1, SamplingFacts DEF FilesOK
<1>3. failures' \in 0..MaxFailures
  BY <1>1, BacktestAssumption DEF WalkOK
<1> QED  BY <1>1, <1>2, <1>3, SampledStep

\* A run that ends early leaves its files, its samples and its events, and no report.
LEMMA BailStep ==
    ASSUME Inv, stage # "idle", Bail, failures' \in 0..MaxFailures,
           UNCHANGED <<table, archive, file, runs, errors, late>>
    PROVE  Inv'
<1> USE DEF Inv
<1>1. stage' = "idle" /\ UNCHANGED <<job, at, try, used, events, report>> /\ report = None
  BY DEF Bail, ReportOK
<1>2. FilesOK' /\ UsedOK'
  BY <1>1 DEF FilesOK, UsedOK, Steady
<1>3. WalkOK'
  BY <1>1 DEF WalkOK, Samples, Stage
<1>4. Agreed' /\ EventsOK' /\ ReportOK'
  BY <1>1 DEF Agreed, EventsOK, ReportOK
<1> QED  BY <1>2, <1>3, <1>4

-----------------------------------------------------------------------------
(* The diffs and the report. *)

\* What holds while the samples are diffed.
LEMMA DiffingFacts ==
    ASSUME Inv, stage = "diff"
    PROVE  /\ job \in Jobs /\ Samples \in Nat \ {0} /\ at \in 1..Samples /\ report = None
           /\ Len(used) = Samples
           /\ \A i \in 1..Samples :
                 /\ Agrees(table, Of(i), used[i])
                 /\ used[i] # Torn =>
                       used[i] \in Calendar /\ used[i] \in (job.start - 3)..(job.start + job.days + 2)
<1> USE DEF Inv
<1>1. job \in Jobs /\ at \in 1..Samples /\ report = None /\ Len(used) = Samples
  BY DEF WalkOK, ReportOK
<1>2. Samples \in Nat \ {0}
  BY <1>1, PlanFacts DEF Samples
<1>3. ASSUME NEW i \in 1..Samples, used[i] # Torn
      PROVE  used[i] \in Calendar /\ used[i] \in (job.start - 3)..(job.start + job.days + 2)
  <2>1. used[i] \in Calendar /\ used[i] - Planned(job)[i] \in -3..3
    BY <1>1, <1>3 DEF UsedOK, Found
  <2>2. Planned(job)[i] \in job.start..(job.start + job.days - 1)
    BY <1>1, PlanFacts DEF Samples
  <2>3. used[i] \in Int /\ job.start \in Int /\ job.days \in Int
    <3>1. used[i] \in Int
      BY <2>1, BacktestAssumption
    <3>2. job.start \in Int /\ job.days \in Int
      BY <1>1, BacktestAssumption
    <3> QED  BY <3>1, <3>2
  <2> QED  BY <2>1, <2>2, <2>3
<1>4. \A i \in 1..Samples : Agrees(table, Of(i), used[i])
  BY <1>1 DEF Agreed
<1> QED  BY <1>1, <1>2, <1>3, <1>4

\* An event of two files is about the tables of their days.
LEMMA DiffTold ==
    ASSUME NEW t \in Tables, NEW j, NEW before, IsFile(t, before), NEW after, IsFile(t, after),
           after.used \in (j.start - 3)..(j.start + j.days + 2),
           NEW x \in DiffOf(before, after)
    PROVE  Told(t, j, x)
<1>1. PICK e \in Diff(before.rows, after.rows, Orgs) :
          x = [before |-> before.used, time |-> after.used, event |-> e]
  BY DEF DiffOf
<1>2. /\ IsSnapshot(t[before.used]) /\ Part(before.rows, t[before.used])
      /\ IsSnapshot(t[after.used]) /\ Part(after.rows, t[after.used])
  BY TableFacts DEF IsFile
<1>3. IsSnapshot(before.rows) /\ IsSnapshot(after.rows)
  BY <1>2, PartFacts
<1>4. /\ e.a \in Asn
      /\ e.kind = "footprint_step" => e.b = None
      /\ e.kind # "footprint_step" => e.b \in Asn /\ e.a # e.b
      /\ e.kind = "prefix_move" =>
            /\ e.prefix \in DOMAIN before.rows \cap DOMAIN after.rows
            /\ before.rows[e.prefix].origin = e.a /\ after.rows[e.prefix].origin = e.b
  BY <1>3, DiffEnds
<1>5. x.event = e /\ x.before = before.used /\ x.time = after.used
  BY <1>1
<1>6. e.kind = "prefix_move" =>
          /\ e.prefix \in DOMAIN t[x.before] \cap DOMAIN t[x.time]
          /\ t[x.before][e.prefix].origin = e.a
          /\ t[x.time][e.prefix].origin = e.b
  BY <1>2, <1>4, <1>5 DEF Part
<1> QED  BY <1>4, <1>5, <1>6 DEF Told

LEMMA DiffStep ==
    ASSUME Inv, DiffNext
    PROVE  Inv'
<1> USE DEF Inv
<1>1. /\ stage = "diff" /\ at < Samples
      /\ UNCHANGED <<table, archive, file, runs, errors, failures, late>>
  BY DEF DiffNext
<1>2. CASE Bail
  BY <1>1, <1>2, BailStep DEF WalkOK
<1>3. CASE /\ Torn \notin {Of(at), Of(at + 1)}
           /\ events' = events \cup DiffOf(Of(at), Of(at + 1))
           /\ at' = at + 1
           /\ UNCHANGED <<job, stage, try, used, report>>
  <2>1. /\ job \in Jobs /\ Samples \in Nat \ {0} /\ at \in 1..Samples /\ report = None
        /\ at + 1 \in 1..Samples /\ Len(used) = Samples
    BY <1>1, DiffingFacts
  <2>2. /\ IsFile(table, Of(at)) /\ IsFile(table, Of(at + 1))
        /\ Of(at + 1).used \in (job.start - 3)..(job.start + job.days + 2)
    <3>1. Agrees(table, Of(at), used[at]) /\ Agrees(table, Of(at + 1), used[at + 1])
      BY <1>1, <2>1, DiffingFacts
    <3>2. IsFile(table, Of(at)) /\ IsFile(table, Of(at + 1)) /\ used[at + 1] = Of(at + 1).used
      BY <1>3, <3>1 DEF Agrees
    <3>3. used[at + 1] # Torn
      BY <3>2, BacktestAssumption DEF IsFile
    <3> QED  BY <1>1, <2>1, <3>2, <3>3, DiffingFacts
  <2>3. Samples' = Samples /\ Steady' = Steady
    BY <1>1, <1>3 DEF Samples, Steady
  <2>4. FilesOK' /\ UsedOK' /\ Agreed' /\ ReportOK'
    BY <1>1, <1>3, <2>1, <2>3 DEF FilesOK, UsedOK, Agreed, ReportOK, Of
  <2>5. WalkOK'
    BY <1>1, <1>3, <2>1, <2>3 DEF WalkOK
  <2>6. \A i : Of(i)' = Of(i) /\ There(i)' = There(i)
    BY <1>1, <1>3 DEF Of, There
  <2>7. EventsOK'
    <3>1. \A x \in events' : Told(table, job, x)
      BY <1>3, <2>1, <2>2, DiffTold DEF EventsOK, WalkOK
    <3>2. Diffed = at - 1 /\ Diffed' = at /\ \A i \in 1..at : i \in 1..(at - 1) \/ i = at
      BY <1>1, <1>3, <2>1 DEF Diffed
    <3>3. \A i \in 1..at : There(i) => DiffOf(Of(i), Of(i + 1)) \subseteq events'
      BY <1>1, <1>3, <3>2 DEF EventsOK
    <3>4. \A x \in events' : \E i \in 1..at : There(i) => x \in DiffOf(Of(i), Of(i + 1))
      <4> SUFFICES ASSUME NEW x \in events'
                   PROVE  \E i \in 1..at : There(i) => x \in DiffOf(Of(i), Of(i + 1))
        OBVIOUS
      <4>1. CASE x \in events
        <5>1. PICK i \in 1..(at - 1) : There(i) => x \in DiffOf(Of(i), Of(i + 1))
          BY <1>1, <3>2, <4>1 DEF EventsOK
        <5>2. i \in 1..at
          BY <2>1
        <5> QED  BY <5>1, <5>2
      <4>2. CASE x \in DiffOf(Of(at), Of(at + 1))
        <5>1. at \in 1..at
          BY <2>1
        <5> QED  BY <4>2, <5>1
      <4> QED  BY <1>3, <4>1, <4>2
    <3> HIDE DEF Inv
    <3>5. \A i : DiffOf(Of(i), Of(i + 1))' = DiffOf(Of(i), Of(i + 1))
      BY <2>6 DEF DiffOf
    <3> QED  BY <1>1, <1>3, <2>1, <2>6, <3>1, <3>2, <3>3, <3>4, <3>5 DEF EventsOK
  <2> QED  BY <2>4, <2>5, <2>7
<1> QED  BY <1>2, <1>3 DEF DiffNext

LEMMA ReportStep ==
    ASSUME Inv, WriteReport
    PROVE  Inv'
<1> USE DEF Inv
<1>1. /\ stage = "diff" /\ at = Samples /\ stage' = "idle"
      /\ report' = [c \in Scoped(job) |-> Score(events, c)]
      /\ UNCHANGED <<table, archive, file, job, at, try, used, events, runs, errors, failures,
                     late>>
  BY DEF WriteReport
<1>2. job \in Jobs /\ Samples \in Nat \ {0} /\ Len(used) = Samples
  BY <1>1, DiffingFacts
<1>3. Samples' = Samples /\ Steady' = Steady /\ Diffed' = Diffed
  BY <1>1 DEF Samples, Steady, Diffed
<1>4. FilesOK' /\ UsedOK'
  BY <1>1, <1>3 DEF FilesOK, UsedOK
<1>5. WalkOK'
  BY <1>1, <1>2, <1>3 DEF WalkOK, Stage
<1>6. Agreed'
  BY <1>1 DEF Agreed, Of
<1>7. EventsOK'
  BY <1>1, <1>2, <1>3 DEF EventsOK, There, Of, DiffOf
<1>8. ReportOK'
  <2>1. report' = [c \in Scoped(job') |-> Score(events', c)]
    BY <1>1
  <2> QED  BY <1>1, <1>2, <1>3, <2>1 DEF ReportOK
<1> QED  BY <1>4, <1>5, <1>6, <1>7, <1>8

LEMMA NextInv == Inv /\ [Next]_vars => Inv'
<1> SUFFICES ASSUME Inv, [Next]_vars PROVE Inv'
  OBVIOUS
<1>1. CASE UNCHANGED vars
  <2>1. UNCHANGED <<table, archive, file, job, stage, at, try, used, events, report, runs, errors,
                    failures, late>>
    BY <1>1 DEF vars
  <2>2. FilesOK' /\ UsedOK' /\ WalkOK'
    BY <2>1 DEF Inv, FilesOK, UsedOK, WalkOK, Steady, Samples, Target
  <2>3. Agreed' /\ ReportOK' /\ EventsOK'
    BY <2>1 DEF Inv, Agreed, ReportOK, EventsOK, Samples, Diffed, There, Of, DiffOf
  <2> QED  BY <2>2, <2>3 DEF Inv
<1>2. CASE \E d \in Calendar : Publish(d)
  BY <1>2, PublishStep
<1>3. CASE \E d \in PlannedDay : Delete(d)
  BY <1>3, DeleteStep
<1>4. CASE \E j \in Jobs : Start(j)
  BY <1>4, StartStep
<1>5. CASE GiveUp
  BY <1>5, BailStep DEF GiveUp, Inv, WalkOK
<1>6. CASE Die
  <2>1. failures' \in 0..MaxFailures
    BY <1>6, BacktestAssumption DEF Die, Inv, WalkOK
  <2> QED  BY <1>6, <2>1, BailStep DEF Die
<1>7. CASE Reuse \/ Miss \/ Fetch \/ FetchShort \/ FetchTorn \/ DiffNext \/ WriteReport
  BY <1>7, ReuseStep, MissStep, FetchStep, FetchShortStep, FetchTornStep, DiffStep, ReportStep
<1> QED  BY <1>1, <1>2, <1>3, <1>4, <1>5, <1>6, <1>7 DEF Next

LEMMA AlwaysInv == Spec => []Inv
<1> QED  BY InitInv, NextInv, PTL DEF Spec

-----------------------------------------------------------------------------
(* The scores. *)

\* What of an event the scores read.
Scored(lo, hi, x) ==
    /\ x.time \in lo..hi /\ x.event.a \in Asn
    /\ x.event.kind = "footprint_step" => x.event.b = None
    /\ x.event.kind # "footprint_step" => x.event.b \in Asn /\ x.event.a # x.event.b

LEMMA FirstAndLastTimes ==
    ASSUME NEW lo \in Int, NEW hi \in Int, NEW F, F # {}, \A x \in F : x.time \in lo..hi
    PROVE  /\ First(F) \in Times(F) /\ \A x \in F : First(F) <= x.time
           /\ Last(F) \in Times(F) /\ \A x \in F : x.time <= Last(F)
           /\ Times(F) \subseteq lo..hi
<1>1. Times(F) \in SUBSET (lo..hi) /\ Times(F) # {}
  BY DEF Times
<1>2. /\ \E x \in Times(F) : \A y \in Times(F) : x <= y
      /\ \E x \in Times(F) : \A y \in Times(F) : y <= x
  BY <1>1, FirstAndLast
<1>3. First(F) \in Times(F) /\ \A u \in Times(F) : First(F) <= u
  BY <1>2 DEF First
<1>4. Last(F) \in Times(F) /\ \A u \in Times(F) : u <= Last(F)
  BY <1>2 DEF Last
<1>5. \A x \in F : x.time \in Times(F)
  BY DEF Times
<1> QED  BY <1>1, <1>3, <1>4, <1>5

\* An event in the window of a case is a feature of its pair that meets the window.
LEMMA EventIsFeature ==
    ASSUME NEW lo \in Int, NEW hi \in Int, NEW E, \A x \in E : Scored(lo, hi, x),
           NEW c, c.first \in Int, c.last \in Int, c.kind # "footprint_step",
           NEW x \in E, EventMatches(x, c)
    PROVE  \E pair \in PairsOf(E) : FeatureMatches(E, pair, c)
<1> DEFINE pair == {x.event.a, x.event.b}
           F == OfPair(E, pair)
<1>1. /\ x.event.kind = c.kind /\ Inside(x.time, c) /\ x.time \in lo..hi
      /\ x.event.b \in Asn /\ x.event.a # x.event.b
      /\ IF c.b # None THEN pair = {c.a, c.b} ELSE x.event.a = c.a
  BY DEF EventMatches, Scored
<1>2. x \in F /\ \A y \in F : y.time \in lo..hi
  BY <1>1 DEF OfPair, Scored
<1>3. pair \in PairsOf(E)
  BY <1>1, ContactDiffAssumption DEF PairsOf, Pairs
<1>4. IF c.b # None THEN pair = {c.a, c.b} ELSE c.a \in pair
  BY <1>1
<1>5. x.time \in DaysWith(F, c.kind)
  <2> HIDE DEF F
  <2> QED  BY <1>1, <1>2 DEF DaysWith, Times
<1> HIDE DEF F, pair
<1>6. Overlaps(F, c)
  <2>1. First(F) <= x.time /\ x.time <= Last(F) /\ Times(F) \subseteq lo..hi
        /\ First(F) \in Times(F) /\ Last(F) \in Times(F)
    BY <1>2, FirstAndLastTimes
  <2>2. First(F) \in Int /\ Last(F) \in Int /\ x.time \in Int
    BY <1>1, <2>1
  <2> QED  BY <1>1, <2>1, <2>2 DEF Overlaps, Inside
<1>7. FeatureMatches(E, pair, c)
  BY <1>4, <1>5, <1>6 DEF FeatureMatches, F
<1> QED  BY <1>3, <1>7

\* Where the span of a feature enters the window.
Entry(F, c) == IF First(F) < c.first THEN c.first ELSE First(F)

\* The contacts of a case with two ends, and the first of them.
Timed(K, F, c) ==
    /\ First(F) \in Int /\ Last(F) \in Int
    /\ First(F) \in Times(F) /\ Last(F) \in Times(F)
    /\ \A x \in F : First(F) <= x.time /\ x.time <= Last(F) /\ x.time \in Int
    /\ K = (IF Overlaps(F, c) THEN {Entry(F, c)} ELSE {}) \cup {t \in Times(F) : Inside(t, c)}
    /\ K \subseteq Int
    /\ K # {} => MinOf(K) \in K /\ \A t \in K : MinOf(K) <= t

LEMMA ContactsFacts ==
    ASSUME NEW lo \in Int, NEW hi \in Int, NEW E, \A x \in E : Scored(lo, hi, x),
           NEW c, c.first \in Int, c.last \in Int, c.b # None, OfPair(E, {c.a, c.b}) # {}
    PROVE  Timed(Contacts(E, c), OfPair(E, {c.a, c.b}), c)
<1> DEFINE F == OfPair(E, {c.a, c.b})
           start == Entry(F, c)
           K == Contacts(E, c)
           low == IF lo < c.first THEN lo ELSE c.first
           high == IF hi < c.first THEN c.first ELSE hi
<1>1. \A x \in F : x.time \in lo..hi
  BY DEF OfPair, Scored
<1>2. /\ First(F) \in Times(F) /\ \A x \in F : First(F) <= x.time
      /\ Last(F) \in Times(F) /\ \A x \in F : x.time <= Last(F)
      /\ Times(F) \subseteq lo..hi
  BY <1>1, FirstAndLastTimes
<1>3. K = (IF Overlaps(F, c) THEN {start} ELSE {}) \cup {t \in Times(F) : Inside(t, c)}
  BY DEF Contacts, Entry
<1> HIDE DEF F
<1>4. First(F) \in lo..hi /\ Last(F) \in lo..hi
  BY <1>2
<1>5. low \in Int /\ high \in Int /\ start \in low..high /\ lo..hi \subseteq low..high
  BY <1>4 DEF Entry
<1> HIDE DEF K, start, low, high
<1>6. K \in SUBSET (low..high)
  BY <1>2, <1>3, <1>5
<1>7. K \subseteq Int
  BY <1>5, <1>6
<1>8. K # {} => MinOf(K) \in K /\ \A t \in K : MinOf(K) <= t
  <2> SUFFICES ASSUME K # {} PROVE MinOf(K) \in K /\ \A t \in K : MinOf(K) <= t
    OBVIOUS
  <2>1. \E t \in K : \A u \in K : t <= u
    BY <1>5, <1>6, FirstAndLast
  <2> QED  BY <2>1 DEF MinOf
<1>9. \A x \in F : First(F) <= x.time /\ x.time <= Last(F) /\ x.time \in Int
  <2>1. \A x \in F : x.time \in Int
    BY <1>1
  <2> QED  BY <1>2, <2>1
<1>10. First(F) \in Int /\ Last(F) \in Int
  BY <1>4
<1> QED  BY <1>2, <1>3, <1>7, <1>8, <1>9, <1>10 DEF Timed, F, K, start

\* What ScoresAgree says of one case.
Agree(E, c, row) ==
    LET pair == OfPair(E, {c.a, c.b})
        within == {x \in pair : Inside(x.time, c)}
        earlier == {x \in pair : x.time < c.first}
        later == {x \in pair : x.time > c.last}
    IN  /\ (row.event /\ c.kind # "footprint_step") => row.feature
        /\ (row.event /\ c.b # None) => row.contact
        /\ (c.b # None /\ within # {}) =>
              /\ row.contact /\ row.lead >= c.announce - First(within)
              /\ earlier = {} => row.lead = c.announce - First(within)
        /\ (row.contact /\ within = {}) => earlier # {} /\ later # {}

LEMMA ScoreFacts ==
    ASSUME NEW lo \in Int, NEW hi \in Int, NEW E, \A x \in E : Scored(lo, hi, x),
           NEW c, c.first \in Int, c.last \in Int, c.announce \in Int,
           c.a \in Asn, c.b \in Asn \cup {None}
    PROVE  Agree(E, c, Score(E, c))
<1> DEFINE F == OfPair(E, {c.a, c.b})
           within == {x \in F : Inside(x.time, c)}
           earlier == {x \in F : x.time < c.first}
           later == {x \in F : x.time > c.last}
           K == Contacts(E, c)
           row == Score(E, c)
<1>1. /\ row.event <=> \E x \in E : EventMatches(x, c)
      /\ row.feature <=> \E pair \in PairsOf(E) : FeatureMatches(E, pair, c)
      /\ row.contact <=> K # {}
      /\ row.lead = IF K = {} THEN None ELSE c.announce - MinOf(K)
  BY DEF Score
<1> HIDE DEF row
<1>2. (row.event /\ c.kind # "footprint_step") => row.feature
  BY <1>1, EventIsFeature
<1>3. c.b # None /\ within # {} => K # {}
  BY DEF Contacts, Times
<1>4. (row.event /\ c.b # None) => row.contact
  <2> SUFFICES ASSUME row.event, c.b # None PROVE within # {}
    BY <1>1, <1>3
  <2>1. PICK x \in E : EventMatches(x, c)
    BY <1>1
  <2>2. {x.event.a, x.event.b} = {c.a, c.b} /\ Inside(x.time, c)
    BY <2>1 DEF EventMatches
  <2>3. x.event.b # None
    BY <2>2, ContactDiffAssumption
  <2>4. x.event.a # x.event.b
    BY <2>3 DEF Scored
  <2> QED  BY <2>2, <2>4 DEF OfPair
<1>5. (c.b # None /\ within # {}) =>
          /\ row.contact /\ row.lead >= c.announce - First(within)
          /\ earlier = {} => row.lead = c.announce - First(within)
  <2> SUFFICES ASSUME c.b # None, within # {}
               PROVE  /\ row.contact /\ row.lead >= c.announce - First(within)
                      /\ earlier = {} => row.lead = c.announce - First(within)
    OBVIOUS
  <2>1. F # {} /\ K # {} /\ row.contact /\ row.lead = c.announce - MinOf(K)
    BY <1>1, <1>3
  <2>2. /\ First(F) \in Int /\ First(F) \in Times(F)
        /\ \A x \in F : First(F) <= x.time /\ x.time \in Int
        /\ K = (IF Overlaps(F, c) THEN {Entry(F, c)} ELSE {})
                 \cup {t \in Times(F) : Inside(t, c)}
        /\ K \subseteq Int /\ MinOf(K) \in K /\ \A t \in K : MinOf(K) <= t
    <3>1. Timed(K, F, c)
      BY <2>1, ContactsFacts
    <3> HIDE DEF K, F
    <3> QED  BY <2>1, <3>1 DEF Timed
  <2>3. /\ First(within) \in Times(within)
        /\ \A x \in within : First(within) <= x.time
        /\ Times(within) \subseteq lo..hi
    <3>1. \A x \in within : x.time \in lo..hi
      BY DEF OfPair, Scored
    <3> HIDE DEF within
    <3> QED  BY <3>1, FirstAndLastTimes
  <2>4. Times(within) \subseteq Times(F) /\ \A t \in Times(within) : Inside(t, c)
    BY DEF Times
  <2>5. First(within) \in K /\ First(within) \in Int
    BY <2>2, <2>3, <2>4
  <2>6. row.lead >= c.announce - First(within)
    <3>1. MinOf(K) <= First(within) /\ MinOf(K) \in Int
      BY <2>2, <2>5
    <3> HIDE DEF K, within
    <3> QED  BY <2>1, <2>5, <3>1
  <2>7. ASSUME earlier = {} PROVE row.lead = c.announce - First(within)
    <3>1. \A t \in Times(F) : t \in Int /\ t >= c.first
      <4>1. \A x \in F : ~(x.time < c.first)
        BY <2>7
      <4> HIDE DEF F
      <4> QED  BY <2>2, <4>1 DEF Times
    <3>2. \A t \in Times(F) : Inside(t, c) => t \in Times(within)
      BY DEF Times
    <3>3. \A t \in Times(within) : First(within) <= t
      BY <2>3 DEF Times
    <3>4. Overlaps(F, c) => Entry(F, c) \in Times(within)
      <4>1. c.first <= First(F)
        BY <2>2, <3>1
      <4>2. Entry(F, c) = First(F)
        BY <2>2, <4>1 DEF Entry
      <4>3. Overlaps(F, c) => Inside(First(F), c)
        BY <4>1 DEF Overlaps, Inside
      <4> QED  BY <2>2, <3>2, <4>2, <4>3
    <3>5. \A t \in K : First(within) <= t
      <4> HIDE DEF K, within, F
      <4> QED  BY <2>2, <3>2, <3>3, <3>4
    <3>6. First(within) <= MinOf(K) /\ MinOf(K) <= First(within) /\ MinOf(K) \in Int
      BY <2>2, <2>5, <3>5
    <3> HIDE DEF K, within
    <3> QED  BY <2>1, <2>5, <3>6
  <2> QED  BY <2>1, <2>6, <2>7
<1>6. (row.contact /\ within = {}) => earlier # {} /\ later # {}
  <2> SUFFICES ASSUME K # {}, within = {} PROVE earlier # {} /\ later # {}
    BY <1>1
  <2>1. c.b # None /\ F # {}
    BY DEF Contacts
  <2>2. /\ First(F) \in Int /\ Last(F) \in Int
        /\ First(F) \in Times(F) /\ Last(F) \in Times(F)
        /\ Overlaps(F, c) \/ {t \in Times(F) : Inside(t, c)} # {}
    <3>1. Timed(K, F, c)
      BY <2>1, ContactsFacts
    <3> HIDE DEF K, F
    <3> QED  BY <3>1 DEF Timed
  <2>3. \A t \in Times(F) : ~Inside(t, c)
    BY <2>2 DEF Times
  <2>4. First(F) <= c.last /\ c.first <= Last(F)
    BY <2>2, <2>3 DEF Overlaps
  <2>5. First(F) < c.first /\ Last(F) > c.last
    BY <2>2, <2>3, <2>4 DEF Inside
  <2> QED  BY <2>2, <2>5 DEF Times
<1> QED  BY <1>2, <1>4, <1>5, <1>6 DEF Agree, row

-----------------------------------------------------------------------------
(* The properties. *)

\* Type correctness.
THEOREM TypeCorrect == Spec => []TypeOK
<1>1. Inv => TypeOK
  <2> SUFFICES ASSUME Inv PROVE TypeOK
    OBVIOUS
  <2>1. \A d \in PlannedDay :
            file[d] \notin {None, Torn} =>
                /\ file[d].used \in Calendar /\ file[d].focus \subseteq Asn
                /\ DOMAIN file[d].rows \subseteq Prefix
    <3> SUFFICES ASSUME NEW d \in PlannedDay, file[d] \notin {None, Torn}
                 PROVE  /\ file[d].used \in Calendar /\ file[d].focus \subseteq Asn
                        /\ DOMAIN file[d].rows \subseteq Prefix
      OBVIOUS
    <3>1. IsFile(table, file[d])
      BY DEF Inv, FilesOK
    <3>2. IsSnapshot(table[file[d].used])
      BY <3>1, TableFacts DEF IsFile, Inv, WalkOK
    <3> QED  BY <3>1, <3>2 DEF IsFile, IsSnapshot, Part
  <2>2. \A i \in DOMAIN used : used[i] \in Calendar \cup {Torn}
    BY DEF Inv, WalkOK
  <2> QED  BY <2>1, <2>2 DEF Inv, WalkOK, FilesOK, TypeOK
<1> QED  BY <1>1, AlwaysInv, PTL

\* The samples of a run never go back in time, whatever runs over other windows have left
\* and wherever any of them has stopped, unless a fetch has failed or a dump has come
\* late; samples a week apart never do.
THEOREM SamplesInOrderTheorem == Spec => []SamplesInOrder
<1>1. Inv => SamplesInOrder
  <2> SUFFICES ASSUME Inv, NEW i \in DOMAIN used, NEW k \in DOMAIN used, i < k,
                      Torn \notin {used[i], used[k]}
               PROVE  /\ (errors = 0 /\ late = 0) => used[i] <= used[k]
                      /\ Planned(job)[k] - Planned(job)[i] > 6 => used[i] < used[k]
    BY DEF SamplesInOrder
  <2>1. i \in 1..Len(used) /\ k \in 1..Len(used)
    BY DEF Inv, WalkOK
  <2>2. job \in Jobs /\ i \in 1..Samples /\ k \in 1..Samples
    <3>1. used # <<>>
      BY <2>1
    <3>2. job \in Jobs /\ Len(used) <= Samples /\ Len(used) \in Nat
      BY <3>1 DEF Inv, WalkOK
    <3>3. Samples \in Nat
      BY <3>2, PlanFacts DEF Samples
    <3> QED  BY <2>1, <3>2, <3>3
  <2>3. /\ Found(Planned(job)[i], used[i], archive, Steady)
        /\ Found(Planned(job)[k], used[k], archive, Steady)
    BY <2>1 DEF Inv, UsedOK
  <2>4. /\ Planned(job)[i] \in Int /\ Planned(job)[k] \in Int
        /\ Planned(job)[i] < Planned(job)[k]
    BY <2>2, PlanFacts, PlannedDays DEF Samples
  <2>5. used[i] \in Int /\ used[k] \in Int /\ archive \in SUBSET Int
    BY <2>3, BacktestAssumption DEF Found, Inv, WalkOK
  <2>6. ASSUME errors = 0 /\ late = 0 PROVE used[i] <= used[k]
    BY <2>3, <2>4, <2>5, <2>6, BestInOrder DEF Found, Steady
  <2>7. ASSUME Planned(job)[k] - Planned(job)[i] > 6 PROVE used[i] < used[k]
    <3>1. used[i] - Planned(job)[i] \in -3..3 /\ used[k] - Planned(job)[k] \in -3..3
      BY <2>3 DEF Found
    <3> QED  BY <2>4, <2>5, <2>7, <3>1
  <2> QED  BY <2>6, <2>7
<1> QED  BY <1>1, AlwaysInv, PTL

\* What a report's run has diffed.
LEMMA ReportedFacts ==
    ASSUME Inv, report # None
    PROVE  /\ job \in Jobs /\ Samples \in Nat \ {0} /\ Diffed = Samples - 1
           /\ \A i \in 1..Samples :
                 Of(i) \notin {None, Torn} => IsFile(table, Of(i)) /\ used[i] = Of(i).used
<1>1. /\ job \in Jobs /\ stage = "idle" /\ Len(used) = Samples
  BY DEF Inv, ReportOK
<1>2. Samples \in Nat \ {0}
  BY <1>1, PlanFacts DEF Samples
<1>3. Diffed = Samples - 1
  BY <1>1 DEF Diffed
<1>4. \A i \in 1..Samples : Of(i) = None \/ Agrees(table, Of(i), used[i])
  BY <1>1 DEF Inv, Agreed
<1> QED  BY <1>1, <1>2, <1>3, <1>4 DEF Agrees

\* A torn file is never scored; short and foreign files invent no moves; every move between
\* two ASNs both files were filtered for is reported; and with whole files of one focus
\* upstreams and footprints are those of the tables.
THEOREM EventsAreExactTheorem == Spec => []EventsAreExact
<1>1. Inv => MovesAreReal
  BY DEF Inv, EventsOK, Told, MovesAreReal, Was, Is
<1>2. Inv => MovesAreFound
  <2> SUFFICES ASSUME Inv, report # None, NEW i \in 1..Samples - 1, Whole(i), Whole(i + 1),
                      NEW p \in Moved(table[used[i]], table[used[i + 1]]),
                      LET a == table[used[i]][p].origin
                          b == table[used[i + 1]][p].origin
                      IN  /\ Within(i, {a, b}) /\ Within(i + 1, {a, b})
                          /\ Fits(a, i) /\ Fits(b, i)
               PROVE  \E x \in events :
                          /\ x.before = used[i] /\ x.time = used[i + 1]
                          /\ x.event = Event("prefix_move", table[used[i]][p].origin,
                                             table[used[i + 1]][p].origin, p)
    BY DEF MovesAreFound
  <2> DEFINE was == table[used[i]]
             is == table[used[i + 1]]
             e == Event("prefix_move", was[p].origin, is[p].origin, p)
             x == [before |-> used[i], time |-> used[i + 1], event |-> e]
  <2>1. /\ Samples \in Nat \ {0} /\ Diffed = Samples - 1
        /\ i \in 1..Samples /\ i + 1 \in 1..Samples /\ i \in 1..Diffed
    BY ReportedFacts
  <2>2. /\ IsFile(table, Of(i)) /\ used[i] = Of(i).used /\ Of(i).complete
        /\ IsFile(table, Of(i + 1)) /\ used[i + 1] = Of(i + 1).used /\ Of(i + 1).complete
        /\ There(i)
    BY <2>1, ReportedFacts DEF Whole, There
  <2>3. /\ Filtered(Of(i).rows, was, Of(i).focus) /\ Part(Of(i).rows, was)
        /\ Filtered(Of(i + 1).rows, is, Of(i + 1).focus) /\ Part(Of(i + 1).rows, is)
        /\ IsSnapshot(was) /\ IsSnapshot(is)
    BY <2>2, TableFacts DEF IsFile, Inv, WalkOK
  <2>4. /\ Of(i).focus = {} \/ was[p].origin \in Of(i).focus
        /\ Of(i + 1).focus = {} \/ is[p].origin \in Of(i + 1).focus
        /\ was[p].origin \in DOMAIN Orgs \ Glue /\ is[p].origin \in DOMAIN Orgs \ Glue
        /\ Cardinality(Announced(was, was[p].origin)) <= MaxPrefixes
        /\ Cardinality(Announced(is, was[p].origin)) <= MaxPrefixes
    BY DEF Within, Fits
  <2>5. p \in DOMAIN Of(i).rows /\ p \in DOMAIN Of(i + 1).rows
    BY <2>3, <2>4 DEF Filtered, Moved
  <2>6. e \in Diff(Of(i).rows, Of(i + 1).rows, Orgs)
    <3> HIDE DEF was, is
    <3> QED  BY <2>3, <2>4, <2>5, DiffFindsMove DEF was, is
  <2> HIDE DEF e
  <2>7. x \in DiffOf(Of(i), Of(i + 1))
    BY <2>2, <2>6 DEF DiffOf
  <2>8. x \in events
    BY <2>1, <2>2, <2>7 DEF Inv, EventsOK
  <2>9. x.before = used[i] /\ x.time = used[i + 1] /\ x.event = e
    OBVIOUS
  <2> QED  BY <2>8, <2>9 DEF e
<1>3. Inv => ChangesAreReal
  <2> SUFFICES ASSUME Inv, report # None,
                      \A i, k \in 1..Samples : Whole(i) /\ Of(i).focus = Of(k).focus,
                      NEW x \in events
               PROVE  /\ x.event.kind = "upstream_converge" =>
                            /\ <<x.event.a, x.event.b>> \in Upstreams(Is(x), Asn)
                            /\ <<x.event.a, x.event.b>> \notin Upstreams(Was(x), Asn)
                      /\ x.event.kind = "footprint_step" =>
                            Abs(Cardinality(Announced(Is(x), x.event.a))
                                - Cardinality(Announced(Was(x), x.event.a))) >= AbsStep
    BY DEF ChangesAreReal
  <2>1. Samples \in Nat \ {0} /\ Diffed = Samples - 1
    BY ReportedFacts
  <2>2. PICK i \in 1..Diffed : There(i) => x \in DiffOf(Of(i), Of(i + 1))
    BY DEF Inv, EventsOK
  <2>3. i \in 1..Samples /\ i + 1 \in 1..Samples
    BY <2>1
  <2>4. /\ IsFile(table, Of(i)) /\ Of(i).complete
        /\ IsFile(table, Of(i + 1)) /\ Of(i + 1).complete
        /\ Of(i + 1).focus = Of(i).focus /\ There(i)
    BY <2>3, ReportedFacts DEF Whole, There
  <2>5. PICK e \in Diff(Of(i).rows, Of(i + 1).rows, Orgs) :
            x = [before |-> Of(i).used, time |-> Of(i + 1).used, event |-> e]
    BY <2>2, <2>4 DEF DiffOf
  <2>6. x.event = e /\ Was(x) = table[Of(i).used] /\ Is(x) = table[Of(i + 1).used]
    BY <2>5 DEF Was, Is
  <2>7. /\ Filtered(Of(i).rows, Was(x), Of(i).focus)
        /\ Filtered(Of(i + 1).rows, Is(x), Of(i).focus)
        /\ IsSnapshot(Was(x)) /\ IsSnapshot(Is(x))
    BY <2>4, <2>6, TableFacts DEF IsFile, Inv, WalkOK
  <2> QED  BY <2>6, <2>7, DiffChangesReal
<1> QED  BY <1>1, <1>2, <1>3, AlwaysInv, PTL DEF EventsAreExact

\* The hits by event, by feature and by contact of one case never contradict each other,
\* and neither does the lead.
THEOREM ScoresAgreeTheorem == Spec => []ScoresAgree
<1>1. Inv => ScoresAgree
  <2> SUFFICES ASSUME Inv, report # None, NEW c \in DOMAIN report
               PROVE  Agree(events, c, report[c])
    BY DEF ScoresAgree, Agree
  <2>1. job \in Jobs /\ c \in Scoped(job) /\ report[c] = Score(events, c)
    BY DEF Inv, ReportOK
  <2>2. c \in job.cases
    BY <2>1 DEF Scoped
  <2>3. /\ c.a \in Asn /\ c.b \in Asn \cup {None}
        /\ {c.first, c.last, c.announce} \subseteq Int
        /\ job.start \in Int /\ job.days \in Nat \ {0}
    BY <2>1, <2>2, BacktestAssumption
  <2>4. c.first \in Int /\ c.last \in Int /\ c.announce \in Int
    BY <2>3
  <2> DEFINE lo == job.start - 3
             hi == job.start + job.days + 2
  <2>5. lo \in Int /\ hi \in Int
    BY <2>3
  <2>6. \A x \in events : Scored(lo, hi, x)
    BY DEF Inv, EventsOK, Told, Scored
  <2> HIDE DEF lo, hi
  <2> QED  BY <2>1, <2>3, <2>4, <2>5, <2>6, ScoreFacts
<1> QED  BY <1>1, AlwaysInv, PTL
=============================================================================
