------------------------ MODULE CyberAnalyze_proofs ------------------------
(***************************************************************************)
(* Proofs about CyberAnalyze: the trie answers as the set of ROAs would,   *)
(* and the alerts are those of the announcements that deserve one.         *)
(***************************************************************************)
EXTENDS CyberAnalyze, TLAPS

\* The trie holds, at every net, all ROAs of that net.
TrieHoldsRoas ==
    /\ DOMAIN trie = {r.net : r \in roas}
    /\ \A n \in DOMAIN trie : trie[n] = {r \in roas : r.net = n}

\* While ROAs are read, nothing has been validated.
NothingYet ==
    stage = "roas" => /\ \A k \in Key : rib[k] = Absent
                      /\ heard = <<>> /\ walk = Absent /\ alerts = <<>>

\* The hops of a path that a walk has behind it, from the origin on.
Walked(w, path) == {i \in 1..Len(path) - 1 : i >= w.at}

\* A hop that goes sideways or down, and one that goes sideways or up.
Off(path, i) == HopAt(path, i) \in {"peer", "down"}
Back(path, i) == HopAt(path, i) \in {"peer", "up"}

\* What the phase and the flags of a walk say of the hops behind it.
WalkOf(w, path) ==
    /\ w.at <= Len(path)
    /\ w.leak => Leak(path)
    /\ w.incomplete => \E i \in 1..Len(path) - 1 : HopAt(path, i) = "none"
    /\ ~w.leak =>
          /\ w.phase = "up" => \A i \in Walked(w, path) : ~Off(path, i)
          /\ w.phase # "up" => \E i \in Walked(w, path) : Off(path, i)
          /\ \A i, j \in Walked(w, path) : ~(j < i /\ Off(path, i) /\ Back(path, j))

\* The walk is one over the path of the last update, an announcement.
Walking ==
    walk # Absent => /\ heard # <<>> /\ ~Last.withdrawn
                     /\ WalkOf(walk, Last.path)

Inv == TypeOK /\ TrieHoldsRoas /\ NothingYet /\ Walking /\ RovIsExact /\ AlertsAreExact

-----------------------------------------------------------------------------
(* The trie. *)

\* Under its invariant the trie validates as the set of ROAs does
\* (RoasTrie::validate).
LEMMA TrieExact ==
    ASSUME TypeOK, TrieHoldsRoas, NEW p \in Net, NEW origin
    PROVE  Validate(p, origin) = Rov(p, origin)
<1> DEFINE covering == {r \in roas : Covers(r.net, p)}
<1>1. Matches(p) = {} <=> covering = {}
  BY DEF Matches, TrieHoldsRoas
<1>2. (\E n \in Matches(p) : \E r \in trie[n] :
          r.origin = origin /\ Len(p) >= Len(r.net) /\ Len(p) <= r.max /\ Covers(r.net, p))
      <=> \E r \in covering : r.origin = origin /\ Len(p) <= r.max
  <2>1. ASSUME NEW n \in Matches(p), NEW r \in trie[n],
               r.origin = origin, Len(p) <= r.max, Covers(r.net, p)
        PROVE  r \in covering
    BY <2>1 DEF Matches, TrieHoldsRoas
  <2>2. ASSUME NEW r \in covering
        PROVE  r.net \in Matches(p) /\ r \in trie[r.net] /\ Len(p) >= Len(r.net)
    BY <2>2, CyberAnalyzeAssumption DEF TypeOK, Matches, TrieHoldsRoas, Covers
  <2> QED  BY <2>1, <2>2
<1> HIDE DEF covering
<1>3. Rov(p, origin) =
        IF origin = Absent \/ covering = {} THEN "unknown"
        ELSE IF \E r \in covering : r.origin = origin /\ Len(p) <= r.max
             THEN "valid" ELSE "invalid"
  BY DEF Rov, covering
<1> QED  BY <1>1, <1>2, <1>3 DEF Validate

\* One more ROA keeps the invariant (RoasTrie::insert).
LEMMA LoadKeepsTrie ==
    ASSUME TypeOK, TrieHoldsRoas, NEW r \in Roa, LoadRoa(r)
    PROVE  TrieHoldsRoas' /\ DOMAIN trie' \subseteq Net
           /\ \A n \in DOMAIN trie' : trie'[n] \subseteq Roa
<1>1. roas' = roas \cup {r} /\ trie' = Inserted(trie, r)
  BY DEF LoadRoa
<1>2. DOMAIN trie' = DOMAIN trie \cup {r.net}
  BY <1>1 DEF Inserted
<1>3. \A n \in DOMAIN trie' : trie'[n] = {s \in roas' : s.net = n}
  <2> SUFFICES ASSUME NEW n \in DOMAIN trie'
               PROVE  trie'[n] = {s \in roas \cup {r} : s.net = n}
    BY <1>1
  <2>1. CASE n # r.net
    <3>1. n \in DOMAIN trie /\ trie'[n] = trie[n]
      BY <1>1, <1>2, <2>1 DEF Inserted
    <3> QED  BY <3>1, <2>1 DEF TrieHoldsRoas
  <2>2. CASE n = r.net /\ n \in DOMAIN trie
    <3>1. trie'[n] = trie[n] \cup {r}
      BY <1>1, <1>2, <2>2 DEF Inserted
    <3> QED  BY <3>1, <2>2 DEF TrieHoldsRoas
  <2>3. CASE n = r.net /\ n \notin DOMAIN trie
    <3>1. trie'[n] = {r}
      BY <1>1, <1>2, <2>3 DEF Inserted
    <3> QED  BY <3>1, <2>3 DEF TrieHoldsRoas
  <2> QED  BY <2>1, <2>2, <2>3
<1>4. DOMAIN trie' = {s.net : s \in roas'}
  BY <1>1, <1>2 DEF TrieHoldsRoas
<1>5. TrieHoldsRoas'
  BY <1>3, <1>4 DEF TrieHoldsRoas
<1>6. roas' \subseteq Roa
  BY <1>1 DEF TypeOK
<1> QED  BY <1>3, <1>4, <1>5, <1>6, CyberAnalyzeAssumption

-----------------------------------------------------------------------------
(* The walk. *)

LEMMA HopKinds ==
    ASSUME NEW path, NEW i
    PROVE  HopAt(path, i) \in {"same", "up", "peer", "down", "none"}
BY DEF HopAt, Relationship

\* A walk begins with no hop behind it.
LEMMA WalkBegins ==
    ASSUME NEW path \in Seq(Asn)
    PROVE  WalkOf([at |-> Len(path), phase |-> "up", incomplete |-> FALSE, leak |-> FALSE], path)
BY DEF WalkOf, Walked

\* One turn of the loop of check_as_path keeps the walk what it should be.
LEMMA WalkGoesOn ==
    ASSUME NEW path \in Seq(Asn), NEW w \in Walk, WalkOf(w, path), ~w.leak, w.at > 1
    PROVE  LET v == [Stepped(w, HopAt(path, w.at - 1)) EXCEPT !.at = w.at - 1]
           IN  v \in Walk /\ WalkOf(v, path)
<1> DEFINE k == w.at - 1
           hop == HopAt(path, k)
           v == [Stepped(w, hop) EXCEPT !.at = k]
<1>1. w.at \in Nat /\ k \in Nat /\ k \in 1..Len(path) - 1 /\ w.at <= Len(path)
  BY DEF Walk, WalkOf
<1>2. Walked(v, path) = Walked(w, path) \cup {k} /\ v.at = k /\ v \in Walk
  <2>1. Stepped(w, hop) \in Walk
    BY HopKinds DEF Stepped, Walk, Phase
  <2>2. v \in Walk /\ v.at = k
    BY <2>1, <1>1 DEF Walk
  <2> HIDE DEF v, k
  <2>3. {i \in 1..Len(path) - 1 : i >= k} = {i \in 1..Len(path) - 1 : i >= w.at} \cup {k}
    BY <1>1 DEF k
  <2> QED  BY <2>2, <2>3 DEF Walked
<1>3. hop \in {"same", "up", "peer", "down", "none"}
  BY HopKinds
<1>4. \A i \in Walked(w, path) : k < i /\ i \in 1..Len(path) - 1
  BY <1>1 DEF Walked
<1>5. v.incomplete => \E i \in 1..Len(path) - 1 : HopAt(path, i) = "none"
  BY <1>1, <1>3 DEF Stepped, WalkOf, Walk
<1>6. v.leak => w.phase # "up" /\ hop \in {"peer", "up"}
  BY <1>3 DEF Stepped, Walk
<1>7. v.leak => Leak(path)
  BY <1>1, <1>4, <1>6 DEF WalkOf, Off, Back, Leak
<1>8. ASSUME ~v.leak
      PROVE  /\ v.phase = "up" => \A i \in Walked(v, path) : ~Off(path, i)
             /\ v.phase # "up" => \E i \in Walked(v, path) : Off(path, i)
             /\ \A i, j \in Walked(v, path) : ~(j < i /\ Off(path, i) /\ Back(path, j))
  <2>1. w.phase # "up" => hop \notin {"peer", "up"}
    BY <1>3, <1>8 DEF Stepped, Walk
  <2>2. v.phase = "up" <=> w.phase = "up" /\ hop \notin {"peer", "down"}
    BY <1>3, <1>8 DEF Stepped, Walk, Phase
  <2>3. Off(path, k) <=> hop \in {"peer", "down"}
    BY DEF Off
  <2>4. Back(path, k) <=> hop \in {"peer", "up"}
    BY DEF Back
  <2> HIDE DEF v, hop, k
  <2>5. \A i, j \in Walked(v, path) : ~(j < i /\ Off(path, i) /\ Back(path, j))
    <3> SUFFICES ASSUME NEW i \in Walked(v, path), NEW j \in Walked(v, path),
                        j < i, Off(path, i), Back(path, j)
                 PROVE  FALSE
      OBVIOUS
    <3>1. i \in Walked(w, path)
      <4> SUFFICES ASSUME i = k PROVE FALSE
        BY <1>2
      <4> QED  BY <1>1, <1>2, <1>4 DEF Walked
    <3>2. j \notin Walked(w, path)
      BY <3>1 DEF WalkOf
    <3>3. j = k /\ w.phase # "up"
      BY <1>2, <3>1, <3>2 DEF WalkOf
    <3> QED  BY <2>1, <2>4, <3>3
  <2> QED  BY <1>2, <2>2, <2>3, <2>5 DEF WalkOf
<1>9. WalkOf(v, path)
  <2> HIDE DEF v, k
  <2> QED  BY <1>1, <1>2, <1>5, <1>7, <1>8 DEF WalkOf
<1> QED  BY <1>2, <1>9

\* At the end of a walk its flag says whether the path is a leak.
LEMMA WalkEnds ==
    ASSUME NEW path \in Seq(Asn), NEW w \in Walk, WalkOf(w, path), w.leak \/ w.at <= 1
    PROVE  w.leak <=> Leak(path)
<1> SUFFICES ASSUME ~w.leak, Leak(path) PROVE FALSE
  BY DEF WalkOf
<1>1. PICK i, j \in 1..Len(path) - 1 : j < i /\ Off(path, i) /\ Back(path, j)
  BY DEF Leak, Off, Back
<1>2. i \in Walked(w, path) /\ j \in Walked(w, path)
  BY <1>1 DEF Walked, Walk
<1> QED  BY <1>1, <1>2 DEF WalkOf

\* A path of one ASN alone, prepended or not, is no leak and has no unknown hop.
LEMMA ShortIsNoLeak ==
    ASSUME NEW path \in Seq(Asn), TooShort(path)
    PROVE  ~Leak(path)
<1>1. \A i \in 1..Len(path) - 1 : HopAt(path, i) = "same"
  BY DEF TooShort, HopAt
<1> QED  BY <1>1 DEF Leak

-----------------------------------------------------------------------------
(* The invariant. *)

LEMMA InitInv == Init => Inv
<1> SUFFICES ASSUME Init PROVE Inv
  OBVIOUS
<1>1. TypeOK
  BY CyberAnalyzeAssumption DEF Init, TypeOK
<1>2. TrieHoldsRoas /\ NothingYet /\ Walking
  BY DEF Init, TrieHoldsRoas, NothingYet, Walking
<1>3. RovIsExact /\ AlertsAreExact
  BY DEF Init, RovIsExact, AlertsAreExact
<1> QED  BY <1>1, <1>2, <1>3 DEF Inv

\* What an element leaves in the Rib is validated with the ROAs of now.
LEMMA RibStaysExact ==
    ASSUME Inv, NEW e \in Element, rib' = RibAfter(e), roas' = roas
    PROVE  RovIsExact' /\ rib' \in [Key -> RouteState \cup {Absent}]
<1> DEFINE new == [origin |-> Origin(e), rpki |-> Validate(e.prefix, Origin(e))]
<1>1. e.prefix \in Net /\ <<e.prefix, e.peer>> \in Key
  BY CyberAnalyzeAssumption DEF Key, Peer
<1>2. Validate(e.prefix, Origin(e)) = Rov(e.prefix, Origin(e))
  BY <1>1, TrieExact DEF Inv
<1>3. Origin(e) \in Asn \cup {Absent}
  BY CyberAnalyzeAssumption DEF Origin
<1>4. new \in RouteState
  BY <1>3 DEF RouteState, Validate
<1>5. rib' = [rib EXCEPT ![<<e.prefix, e.peer>>] = IF e.withdrawn THEN Absent ELSE new]
  BY DEF RibAfter
<1>6. rib \in [Key -> RouteState \cup {Absent}]
  BY DEF Inv, TypeOK
<1>7. new.rpki = Rov(e.prefix, new.origin)
  BY <1>2
<1> HIDE DEF new
<1>8. ASSUME NEW k \in Key, rib'[k] # Absent
      PROVE  rib'[k].rpki = Rov(k[1], rib'[k].origin)
  <2>1. CASE k = <<e.prefix, e.peer>>
    <3>1. rib'[k] = new /\ k[1] = e.prefix
      BY <1>5, <1>6, <1>8, <2>1
    <3> QED  BY <1>7, <3>1
  <2>2. CASE k # <<e.prefix, e.peer>>
    BY <1>5, <1>6, <1>8, <2>2 DEF Inv, RovIsExact
  <2> QED  BY <2>1, <2>2
<1>9. \A p, o : Rov(p, o)' = Rov(p, o)
  BY DEF Rov
<1> QED  BY <1>1, <1>4, <1>5, <1>6, <1>8, <1>9 DEF RovIsExact

LEMMA StepInv == Inv /\ [Next]_vars => Inv'
<1> SUFFICES ASSUME Inv, [Next]_vars PROVE Inv'
  OBVIOUS
<1> USE DEF Inv
<1>0. heard \in Seq(Element) /\ Len(heard) \in Nat /\ alerts \in Seq(Alert)
  BY DEF TypeOK
<1>1. ASSUME NEW r \in Roa, LoadRoa(r) PROVE Inv'
  <2>1. heard = <<>> /\ walk = Absent /\ alerts = <<>> /\ \A k \in Key : rib[k] = Absent
    BY <1>1 DEF LoadRoa, NothingYet
  <2>2. UNCHANGED <<stage, rib, loaded, heard, walk, alerts>> /\ roas' = roas \cup {r}
    BY <1>1 DEF LoadRoa
  <2>3. TypeOK' /\ TrieHoldsRoas'
    BY <1>1, <2>2, LoadKeepsTrie DEF TypeOK
  <2>4. NothingYet' /\ Walking' /\ RovIsExact'
    BY <2>1, <2>2 DEF NothingYet, Walking, RovIsExact
  <2>5. AlertsAreExact'
    BY <2>1, <2>2 DEF AlertsAreExact
  <2> QED  BY <2>3, <2>4, <2>5
\* Steps that only move the stage.
<1>2. ASSUME UNCHANGED <<roas, trie, rib, loaded, heard, walk, alerts>>,
             stage' \in {"dump", "updates", "done", "failed"}
      PROVE  Inv'
  <2>1. TypeOK' /\ TrieHoldsRoas' /\ NothingYet'
    BY <1>2 DEF TypeOK, TrieHoldsRoas, NothingYet
  <2>2. Walking' /\ RovIsExact'
    BY <1>2 DEF Walking, Last, RovIsExact, Rov
  <2>3. AlertsAreExact'
    BY <1>2 DEF AlertsAreExact, Judged, Alarming, Rov
  <2> QED  BY <2>1, <2>2, <2>3
<1>3. CASE Plan \/ DumpLoaded \/ Finish \/ Fail
  BY <1>2, <1>3 DEF Plan, DumpLoaded, Finish, Fail
<1>4. ASSUME NEW e \in Element, LoadElement(e) PROVE Inv'
  <2>1. /\ UNCHANGED <<stage, roas, trie, heard, walk, alerts>> /\ rib' = RibAfter(e)
        /\ stage = "dump" /\ loaded' = loaded + 1 /\ loaded < MaxElements
    BY <1>4 DEF LoadElement
  <2>2. RovIsExact' /\ rib' \in [Key -> RouteState \cup {Absent}]
    BY <2>1, RibStaysExact
  <2>3. TypeOK' /\ TrieHoldsRoas' /\ NothingYet'
    <3>1. loaded' \in 0..MaxElements
      BY <2>1, CyberAnalyzeAssumption DEF TypeOK
    <3>2. TypeOK'
      BY <2>1, <2>2, <3>1 DEF TypeOK
    <3> QED  BY <2>1, <3>2 DEF TrieHoldsRoas, NothingYet
  <2>4. Walking'
    BY <2>1 DEF Walking, Last
  <2>5. AlertsAreExact'
    BY <2>1 DEF AlertsAreExact, Judged, Alarming, Rov
  <2> QED  BY <2>2, <2>3, <2>4, <2>5
<1>5. ASSUME NEW e \in Element, Update(e) PROVE Inv'
  <2> PICK n \in Nat : n = Len(heard)
    BY <1>0
  <2> DEFINE w == [at |-> Len(e.path), phase |-> "up", incomplete |-> FALSE, leak |-> FALSE]
  <2>1. /\ UNCHANGED <<stage, roas, trie, loaded, alerts>> /\ rib' = RibAfter(e)
        /\ stage = "updates" /\ walk = Absent
        /\ n < Cap /\ n < MaxUpdates /\ heard' = Append(heard, e)
        /\ walk' = IF e.withdrawn THEN Absent ELSE w
    BY <1>5 DEF Update, More
  <2>2. RovIsExact' /\ rib' \in [Key -> RouteState \cup {Absent}]
    BY <2>1, RibStaysExact
  <2>3. e.path \in Seq(Asn) /\ e.withdrawn \in BOOLEAN
    BY CyberAnalyzeAssumption
  <2>4. w \in Walk /\ WalkOf(w, e.path) /\ w # Absent
    <3>1. w \in Walk
      BY <2>3 DEF Walk, Phase
    <3>2. WalkOf(w, e.path)
      BY <2>3, WalkBegins
    <3> HIDE DEF w
    <3> QED  BY <3>1, <3>2, CyberAnalyzeAssumption
  <2> HIDE DEF w
  <2>5. /\ heard' \in Seq(Element) /\ Len(heard') = n + 1
        /\ heard'[n + 1] = e /\ \A i \in 1..n : heard'[i] = heard[i]
    BY <1>0, <2>1
  <2>6. TypeOK'
    BY <1>0, <2>1, <2>2, <2>4, <2>5, CyberAnalyzeAssumption DEF TypeOK
  <2>7. TrieHoldsRoas' /\ NothingYet'
    BY <2>1 DEF TrieHoldsRoas, NothingYet
  <2>8. Last' = e /\ heard' # <<>>
    BY <1>0, <2>5 DEF Last
  <2>9. Walking'
    BY <2>1, <2>4, <2>8 DEF Walking
  <2>10. AlertsAreExact'
    <3>1. \A x : Alarming(x)' = Alarming(x)
      BY <2>1 DEF Alarming, Rov
    <3>2. \A i \in 1..n : Judged(i) /\ Judged(i)'
      BY <1>0, <2>1, <2>5 DEF Judged
    <3>3. ~(Judged(n + 1)' /\ Alarming(e))
      BY <1>0, <2>1, <2>3, <2>4, <2>5 DEF Judged, Alarming
    <3>4. {i \in 1..Len(heard) : Judged(i) /\ Alarming(heard[i])}'
            = {i \in 1..Len(heard) : Judged(i) /\ Alarming(heard[i])}
      <4> SUFFICES ASSUME NEW i
                   PROVE  (i \in 1..Len(heard) /\ Judged(i) /\ Alarming(heard[i]))'
                          <=> i \in 1..Len(heard) /\ Judged(i) /\ Alarming(heard[i])
        OBVIOUS
      <4>1. CASE i \in 1..n
        BY <1>0, <2>5, <3>1, <3>2, <4>1
      <4>2. CASE i = n + 1
        BY <1>0, <2>5, <3>1, <3>3, <4>2
      <4>3. CASE i \notin 1..n /\ i # n + 1
        BY <1>0, <2>5, <4>3
      <4> QED  BY <4>1, <4>2, <4>3
    <3>5. \A m \in 1..Len(alerts) : alerts[m].update \in 1..n
      BY DEF AlertsAreExact
    <3>6. \A j \in 1..Len(alerts) : heard'[alerts[j].update] = heard[alerts[j].update]
      BY <2>5, <3>5
    <3>7. \A p, o : Rov(p, o)' = Rov(p, o)
      BY <2>1 DEF Rov
    <3>8. alerts' = alerts
      BY <2>1
    <3> QED  BY <3>4, <3>6, <3>7, <3>8 DEF AlertsAreExact
  <2> QED  BY <2>2, <2>6, <2>7, <2>9, <2>10
<1>6. CASE Hop
  <2> DEFINE v == [Stepped(walk, HopAt(Last.path, walk.at - 1)) EXCEPT !.at = walk.at - 1]
  <2>1. /\ UNCHANGED <<stage, roas, trie, rib, loaded, heard, alerts>>
        /\ walk # Absent /\ ~walk.leak /\ walk.at > 1 /\ walk' = v
    BY <1>6 DEF Hop
  <2>2. Last \in Element /\ Last.path \in Seq(Asn)
    BY <1>0, <2>1, CyberAnalyzeAssumption DEF Walking, Last
  <2>3. walk \in Walk
    BY <2>1 DEF TypeOK
  <2>4. v \in Walk /\ WalkOf(v, Last.path)
    BY <2>1, <2>2, <2>3, WalkGoesOn DEF Walking
  <2> HIDE DEF v
  <2>5. walk' # Absent
    BY <2>1, <2>4, CyberAnalyzeAssumption
  <2>6. TypeOK' /\ TrieHoldsRoas' /\ NothingYet'
    BY <2>1, <2>4 DEF TypeOK, TrieHoldsRoas, NothingYet
  <2>7. Walking'
    BY <2>1, <2>4 DEF Walking, Last
  <2>8. RovIsExact'
    BY <2>1 DEF RovIsExact, Rov
  <2>9. AlertsAreExact'
    BY <2>1, <2>5 DEF AlertsAreExact, Judged, Alarming, Rov
  <2> QED  BY <2>6, <2>7, <2>8, <2>9
<1>7. CASE Judge
  <2> DEFINE n == Len(heard)
             state == Validate(Last.prefix, Origin(Last))
             alert == [update |-> n, rpki |-> state, verdict |-> Verdict]
             wrong == state = "invalid" \/ Verdict = "leak_suspected"
  <2>1. /\ UNCHANGED <<stage, roas, trie, rib, loaded, heard>>
        /\ walk # Absent /\ (walk.leak \/ walk.at <= 1) /\ walk' = Absent
        /\ alerts' = IF wrong THEN Append(alerts, alert) ELSE alerts
    BY <1>7 DEF Judge
  <2>2. Last \in Element /\ Last.path \in Seq(Asn) /\ Last.prefix \in Net /\ n > 0
        /\ Last = heard[n] /\ ~Last.withdrawn
    BY <1>0, <2>1, CyberAnalyzeAssumption DEF Walking, Last
  <2>3. walk \in Walk
    BY <2>1 DEF TypeOK
  <2>4. walk.leak <=> Leak(Last.path)
    BY <2>1, <2>2, <2>3, WalkEnds DEF Walking
  <2>5. Verdict = "leak_suspected" <=> Leak(Last.path)
    BY <2>2, <2>4, ShortIsNoLeak DEF Verdict
  <2>6. Verdict = "incomplete" =>
            \E i \in 1..Len(Last.path) - 1 : HopAt(Last.path, i) = "none"
    BY <2>1 DEF Verdict, Walking, WalkOf
  <2>7. state = Rov(Last.prefix, Origin(Last))
    BY <2>2, TrieExact
  <2>8. wrong <=> Alarming(Last)
    BY <2>2, <2>5, <2>7 DEF Alarming
  <2>9. alert \in Alert
    BY <1>0 DEF Alert, Verdict, Validate
  <2>10. TypeOK' /\ TrieHoldsRoas' /\ NothingYet'
    <3>1. alerts' \in Seq(Alert)
      BY <1>0, <2>1, <2>9
    <3>2. stage # "roas"
      BY <2>1 DEF NothingYet
    <3> QED  BY <2>1, <3>1, <3>2 DEF TypeOK, TrieHoldsRoas, NothingYet
  <2>11. Walking' /\ RovIsExact'
    BY <2>1 DEF Walking, RovIsExact, Rov
  <2>12. AlertsAreExact'
    <3> DEFINE m == Len(alerts)
    <3>1. \A x : Alarming(x)' = Alarming(x)
      BY <2>1 DEF Alarming, Rov
    <3>2. {i \in 1..Len(heard') : Judged(i)' /\ Alarming(heard'[i])}
            = {i \in 1..n : Judged(i) /\ Alarming(heard[i])}
                \cup (IF wrong THEN {n} ELSE {})
      <4>1. \A i \in 1..n : (Judged(i) <=> i # n) /\ Judged(i)'
        BY <1>0, <2>1 DEF Judged
      <4> HIDE DEF wrong
      <4> QED  BY <1>0, <2>1, <2>2, <2>8, <4>1
    <3>3. \A j \in 1..m : alerts[j].update \in 1..n /\ alerts[j].update < n
      BY <1>0, <2>1 DEF AlertsAreExact, Judged
    <3>4. CASE ~wrong
      BY <2>1, <3>1, <3>2, <3>4 DEF AlertsAreExact, Rov
    <3>5. CASE wrong
      <4>1. /\ Len(alerts') = m + 1 /\ alerts'[m + 1] = alert
            /\ \A j \in 1..m : alerts'[j] = alerts[j]
        BY <1>0, <2>1, <3>5
      <4>2. \A j : j \in 1..m + 1 <=> j \in 1..m \/ j = m + 1
        BY <1>0
      <4>3. alert.update = n /\ alert.rpki = state /\ alert.verdict = Verdict
        OBVIOUS
      <4> HIDE DEF alert, wrong, state
      <4>4. {alerts'[j].update : j \in 1..Len(alerts')}
              = {alerts[j].update : j \in 1..m} \cup {n}
        BY <4>1, <4>2, <4>3
      <4>5. \A i, j \in 1..Len(alerts') : i < j => alerts'[i].update < alerts'[j].update
        <5> SUFFICES ASSUME NEW i \in 1..m + 1, NEW j \in 1..m + 1, i < j
                     PROVE  alerts'[i].update < alerts'[j].update
          BY <4>1
        <5>1. i \in 1..m /\ alerts'[i] = alerts[i]
          BY <1>0, <4>1
        <5>2. CASE j \in 1..m
          BY <4>1, <5>1, <5>2 DEF AlertsAreExact
        <5>3. CASE j = m + 1
          BY <3>3, <4>1, <4>3, <5>1, <5>3
        <5> QED  BY <4>2, <5>2, <5>3
      <4>6. ASSUME NEW j \in 1..Len(alerts')
            PROVE  LET e == heard[alerts'[j].update]
                   IN  /\ alerts'[j].verdict = "leak_suspected" <=> Leak(e.path)
                       /\ alerts'[j].verdict = "incomplete" =>
                             \E i \in 1..Len(e.path) - 1 : HopAt(e.path, i) = "none"
                       /\ alerts'[j].rpki = Rov(e.prefix, Origin(e))
        <5>1. CASE j \in 1..m
          BY <4>1, <5>1 DEF AlertsAreExact
        <5>2. CASE j = m + 1
          BY <2>2, <2>5, <2>6, <2>7, <4>1, <4>3, <5>2
        <5> QED  BY <4>1, <4>2, <5>1, <5>2
      <4>7. {alerts'[j].update : j \in 1..Len(alerts')}
              = {i \in 1..Len(heard') : Judged(i)' /\ Alarming(heard'[i])}
        BY <3>2, <3>5, <4>4 DEF AlertsAreExact
      <4>8. \A p, o : Rov(p, o)' = Rov(p, o)
        BY <2>1 DEF Rov
      <4> QED  BY <2>1, <3>1, <4>5, <4>6, <4>7, <4>8 DEF AlertsAreExact
    <3> QED  BY <3>4, <3>5
  <2> QED  BY <2>10, <2>11, <2>12
<1>8. CASE UNCHANGED vars
  <2>1. UNCHANGED <<stage, roas, trie, rib, loaded, heard, walk, alerts>>
    BY <1>8 DEF vars
  <2>2. TypeOK' /\ TrieHoldsRoas' /\ NothingYet'
    BY <2>1 DEF TypeOK, TrieHoldsRoas, NothingYet
  <2>3. Walking' /\ RovIsExact'
    BY <2>1 DEF Walking, Last, RovIsExact, Rov
  <2>4. AlertsAreExact'
    BY <2>1 DEF AlertsAreExact, Judged, Alarming, Rov
  <2> QED  BY <2>2, <2>3, <2>4
<1> QED  BY <1>1, <1>3, <1>4, <1>5, <1>6, <1>7, <1>8 DEF Next

THEOREM Invariant == Spec => []Inv
<1> QED  BY InitInv, StepInv, PTL DEF Spec

\* Every reachable state is well typed, and no more updates are read than the cap
\* allows (cyber.rs:54, 58, 119, 124).
THEOREM TypeCorrect == Spec => []TypeOK
<1>1. Inv => TypeOK
  BY DEF Inv
<1> QED  BY Invariant, <1>1, PTL

\* For any ROAs in any order and any elements, the origin state of every route the
\* Rib holds is that of RFC 6811 over the set of ROAs (RoasTrie::validate).
THEOREM RovCorrect == Spec => []RovIsExact
<1>1. Inv => RovIsExact
  BY DEF Inv
<1> QED  BY Invariant, <1>1, PTL

\* For any relationships between ASNs and paths of any length, exactly the judged
\* announcements that are invalid or leaks have an alert (check_as_path, maybe_alert).
THEOREM AlertsCorrect == Spec => []AlertsAreExact
<1>1. Inv => AlertsAreExact
  BY DEF Inv
<1> QED  BY Invariant, <1>1, PTL
=============================================================================
