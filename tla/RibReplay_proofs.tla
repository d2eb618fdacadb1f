-------------------------- MODULE RibReplay_proofs --------------------------
(***************************************************************************)
(* Proofs about RibReplay, for any sessions, prefixes, routes, caps and    *)
(* any number of updates.                                                  *)
(*                                                                         *)
(* RebuiltIsTable rests on what the collector guarantees (Archive: the     *)
(* last update archived for a session and prefix is its present route, and *)
(* what was not updated is as in the dump) and on what holds after every   *)
(* update applied (Replayed: where no later update is to come, the Rib has *)
(* the present route).  SnapshotIsLongest rests on Considered: the peer    *)
(* preferred so far beats every peer looked at so far.                     *)
(***************************************************************************)
EXTENDS RibReplay, FiniteSetTheorems, TLAPS

-----------------------------------------------------------------------------
(* The Rib. *)

\* The routes a Rib holds.
RoutesOf(r) == {e \in Prefix \X Peer : At(r, e[1], e[2]) # Absent}

\* A Rib whose counters agree with its trie.
RibOK(r) ==
    /\ DOMAIN r = {"trie", "prefixes", "routes"}
    /\ IsTrie(r.trie)
    /\ \A p \in DOMAIN r.trie : DOMAIN r.trie[p] # {}
    /\ r.prefixes = Cardinality(DOMAIN r.trie)
    /\ r.routes = Cardinality(RoutesOf(r))

LEMMA PeersFinite == IsFiniteSet(Peer) /\ IsFiniteSet(Prefix \X Peer)
<1>1. IsFiniteSet(Peer)
  <2> DEFINE f == [s \in Session |-> PeerAsn[s]]
  <2>1. f \in Surjection(Session, Peer)
    BY DEF Peer, Surjection
  <2> HIDE DEF f
  <2> QED  BY <2>1, FS_Surjection, RibReplayAssumption
<1> QED  BY <1>1, FS_Product, RibReplayAssumption

LEMMA RibFinite ==
    ASSUME NEW r, RibOK(r)
    PROVE  /\ IsFiniteSet(DOMAIN r.trie) /\ r.prefixes \in Nat
           /\ IsFiniteSet(RoutesOf(r)) /\ r.routes \in Nat
<1>1. DOMAIN r.trie \subseteq Prefix /\ RoutesOf(r) \subseteq Prefix \X Peer
  BY DEF RibOK, IsTrie, RoutesOf
<1>2. IsFiniteSet(DOMAIN r.trie) /\ IsFiniteSet(RoutesOf(r))
  BY <1>1, PeersFinite, FS_Subset, RibReplayAssumption
<1> QED  BY <1>2, FS_CardinalityType DEF RibOK

LEMMA EmptyRibOK == RibOK(EmptyRib) /\ \A p \in Prefix, a \in Peer : At(EmptyRib, p, a) = Absent
<1>1. \A p \in Prefix, a \in Peer : At(EmptyRib, p, a) = Absent
  BY DEF At, EmptyRib, Nothing
<1>2. RoutesOf(EmptyRib) = {}
  BY <1>1 DEF RoutesOf
<1>3. DOMAIN EmptyRib.trie = {}
  BY DEF EmptyRib, Nothing
<1>4. IsTrie(EmptyRib.trie)
  BY DEF EmptyRib, Nothing, IsTrie
<1> QED  BY <1>1, <1>2, <1>3, <1>4, FS_EmptySet DEF RibOK, EmptyRib

\* announce replaces one peer's route for one prefix and touches no other.
LEMMA AnnouncedAt ==
    ASSUME NEW r, RibOK(r), NEW p \in Prefix, NEW a \in Peer, NEW route \in Route
    PROVE  /\ IsTrie(Announced(r, p, a, route).trie)
           /\ \A q \in DOMAIN Announced(r, p, a, route).trie :
                  DOMAIN Announced(r, p, a, route).trie[q] # {}
           /\ DOMAIN Announced(r, p, a, route).trie = DOMAIN r.trie \cup {p}
           /\ \A q \in Prefix, b \in Peer :
                  At(Announced(r, p, a, route), q, b) =
                      IF q = p /\ b = a THEN route ELSE At(r, q, b)
<1> DEFINE peers == IF p \in DOMAIN r.trie THEN r.trie[p] ELSE Nothing
           n == Put(peers, a, route)
           t == Put(r.trie, p, n)
<1>1. Announced(r, p, a, route).trie = t
  BY DEF Announced
<1>2. /\ DOMAIN peers \subseteq Peer /\ peers \in [DOMAIN peers -> Route]
      /\ p \in DOMAIN r.trie => peers = r.trie[p]
      /\ p \notin DOMAIN r.trie => DOMAIN peers = {}
  BY DEF RibOK, IsTrie, Nothing
<1> HIDE DEF peers
<1>3. /\ DOMAIN n = DOMAIN peers \cup {a} /\ n \in [DOMAIN n -> Route]
      /\ n[a] = route /\ \A b \in DOMAIN peers : b # a => n[b] = peers[b]
  BY <1>2 DEF Put
<1> HIDE DEF n
<1>4. /\ DOMAIN t = DOMAIN r.trie \cup {p} /\ t[p] = n
      /\ \A q \in DOMAIN r.trie : q # p => t[q] = r.trie[q]
  BY DEF Put
<1> HIDE DEF t
<1>5. IsTrie(t) /\ \A q \in DOMAIN t : DOMAIN t[q] # {}
  BY <1>2, <1>3, <1>4 DEF RibOK, IsTrie
<1>6. ASSUME NEW q \in Prefix, NEW b \in Peer
      PROVE  At(Announced(r, p, a, route), q, b) =
                 IF q = p /\ b = a THEN route ELSE At(r, q, b)
  <2>1. CASE q = p
    BY <2>1, <1>1, <1>2, <1>3, <1>4 DEF At
  <2>2. CASE q # p
    BY <2>2, <1>1, <1>4 DEF At
  <2> QED  BY <2>1, <2>2
<1> QED  BY <1>1, <1>4, <1>5, <1>6

\* announce keeps the counters.
LEMMA AnnouncedOK ==
    ASSUME NEW r, RibOK(r), NEW p \in Prefix, NEW a \in Peer, NEW route \in Route
    PROVE  RibOK(Announced(r, p, a, route))
<1> DEFINE n == Announced(r, p, a, route)
<1>1. /\ IsTrie(n.trie) /\ \A q \in DOMAIN n.trie : DOMAIN n.trie[q] # {}
      /\ DOMAIN n.trie = DOMAIN r.trie \cup {p}
      /\ \A q \in Prefix, b \in Peer :
             At(n, q, b) = IF q = p /\ b = a THEN route ELSE At(r, q, b)
  BY AnnouncedAt
<1>2. /\ DOMAIN n = {"trie", "prefixes", "routes"}
      /\ n.prefixes = IF p \in DOMAIN r.trie THEN r.prefixes ELSE r.prefixes + 1
      /\ n.routes = IF At(r, p, a) # Absent THEN r.routes ELSE r.routes + 1
  <2>1. At(r, p, a) # Absent <=> p \in DOMAIN r.trie /\ a \in DOMAIN r.trie[p]
    BY RibReplayAssumption DEF At, RibOK, IsTrie
  <2> QED  BY <2>1 DEF Announced, Nothing
<1> HIDE DEF n
<1>f. /\ IsFiniteSet(DOMAIN r.trie) /\ r.prefixes \in Nat
      /\ IsFiniteSet(RoutesOf(r)) /\ r.routes \in Nat
      /\ r.prefixes = Cardinality(DOMAIN r.trie)
      /\ r.routes = Cardinality(RoutesOf(r))
  BY RibFinite DEF RibOK
<1>3. n.prefixes = Cardinality(DOMAIN n.trie)
  BY <1>1, <1>2, <1>f, FS_AddElement
<1>4. RoutesOf(n) = RoutesOf(r) \cup {<<p, a>>}
  <2>1. route # Absent
    BY RibReplayAssumption
  <2> QED  BY <2>1, <1>1 DEF RoutesOf
<1>5. <<p, a>> \in RoutesOf(r) <=> At(r, p, a) # Absent
  BY DEF RoutesOf
<1>6. n.routes = Cardinality(RoutesOf(n))
  <2>1. <<p, a>> \in RoutesOf(r) => RoutesOf(n) = RoutesOf(r)
    BY <1>4
  <2>2. <<p, a>> \notin RoutesOf(r) => Cardinality(RoutesOf(n)) = r.routes + 1
    <3> DEFINE S == RoutesOf(r)  e == <<p, a>>
    <3>1. IsFiniteSet(S) /\ r.routes = Cardinality(S) /\ RoutesOf(n) = S \cup {e}
      BY <1>4, <1>f
    <3> HIDE DEF S, e
    <3>2. e \notin S => Cardinality(S \cup {e}) = Cardinality(S) + 1
      BY <3>1, FS_AddElement
    <3> QED  BY <3>1, <3>2 DEF S, e
  <2> QED  BY <1>2, <1>5, <1>f, <2>1, <2>2
<1> QED  BY <1>1, <1>2, <1>3, <1>6 DEF RibOK, n

\* withdraw removes one peer's route for one prefix and touches no other.
LEMMA WithdrawnAt ==
    ASSUME NEW r, NEW p \in Prefix, NEW a \in Peer, NEW q \in Prefix, NEW b \in Peer
    PROVE  At(Withdrawn(r, p, a), q, b) = IF q = p /\ b = a THEN Absent ELSE At(r, q, b)
<1> DEFINE w == Withdrawn(r, p, a)
<1>1. CASE ~(p \in DOMAIN r.trie /\ a \in DOMAIN r.trie[p])
  <2>1. w = r
    BY <1>1 DEF Withdrawn
  <2>2. At(r, p, a) = Absent
    BY <1>1 DEF At
  <2> QED  BY <2>1, <2>2
<1>2. CASE p \in DOMAIN r.trie /\ a \in DOMAIN r.trie[p] /\ DOMAIN r.trie[p] = {a}
  <2>1. w.trie = Drop(r.trie, p)
    BY <1>2 DEF Withdrawn
  <2>2. DOMAIN w.trie = DOMAIN r.trie \ {p} /\ \A x \in DOMAIN w.trie : w.trie[x] = r.trie[x]
    BY <2>1 DEF Drop
  <2> QED  BY <1>2, <2>2 DEF At
<1>3. CASE p \in DOMAIN r.trie /\ a \in DOMAIN r.trie[p] /\ DOMAIN r.trie[p] # {a}
  <2> DEFINE n == Drop(r.trie[p], a)
  <2>1. w.trie = Put(r.trie, p, n)
    BY <1>3 DEF Withdrawn
  <2>2. DOMAIN n = DOMAIN r.trie[p] \ {a} /\ \A y \in DOMAIN n : n[y] = r.trie[p][y]
    BY DEF Drop
  <2> HIDE DEF n
  <2>3. /\ DOMAIN w.trie = DOMAIN r.trie /\ w.trie[p] = n
        /\ \A x \in DOMAIN r.trie : x # p => w.trie[x] = r.trie[x]
    BY <1>3, <2>1 DEF Put
  <2> HIDE DEF w
  <2>4. At(w, q, b) = IF q = p /\ b = a THEN Absent ELSE At(r, q, b)
    BY <1>3, <2>2, <2>3 DEF At
  <2> QED  BY <2>4 DEF w
<1> QED  BY <1>1, <1>2, <1>3

\* The trie it leaves has no empty prefix.
LEMMA WithdrawnTrie ==
    ASSUME NEW r, RibOK(r), NEW p \in DOMAIN r.trie, NEW a \in DOMAIN r.trie[p]
    PROVE  /\ IsTrie(Withdrawn(r, p, a).trie)
           /\ \A q \in DOMAIN Withdrawn(r, p, a).trie : DOMAIN Withdrawn(r, p, a).trie[q] # {}
           /\ DOMAIN r.trie[p] = {a} => DOMAIN Withdrawn(r, p, a).trie = DOMAIN r.trie \ {p}
           /\ DOMAIN r.trie[p] # {a} => DOMAIN Withdrawn(r, p, a).trie = DOMAIN r.trie
<1> DEFINE w == Withdrawn(r, p, a)
<1>1. CASE DOMAIN r.trie[p] = {a}
  <2>1. w.trie = Drop(r.trie, p)
    BY <1>1 DEF Withdrawn
  <2>2. DOMAIN w.trie = DOMAIN r.trie \ {p} /\ \A q \in DOMAIN w.trie : w.trie[q] = r.trie[q]
    BY <2>1 DEF Drop
  <2> HIDE DEF w
  <2>3. IsTrie(w.trie) /\ \A q \in DOMAIN w.trie : DOMAIN w.trie[q] # {}
    BY <2>2 DEF RibOK, IsTrie
  <2> QED  BY <1>1, <2>2, <2>3 DEF w
<1>2. CASE DOMAIN r.trie[p] # {a}
  <2> DEFINE n == Drop(r.trie[p], a)
  <2>1. w.trie = Put(r.trie, p, n)
    BY <1>2 DEF Withdrawn
  <2>2. /\ DOMAIN n = DOMAIN r.trie[p] \ {a} /\ DOMAIN n # {}
        /\ n \in [DOMAIN n -> Route]
    BY <1>2 DEF Drop, RibOK, IsTrie
  <2> HIDE DEF n
  <2>3. /\ DOMAIN w.trie = DOMAIN r.trie /\ w.trie[p] = n
        /\ \A q \in DOMAIN r.trie : q # p => w.trie[q] = r.trie[q]
    BY <2>1 DEF Put
  <2> HIDE DEF w
  <2>4. IsTrie(w.trie) /\ \A q \in DOMAIN w.trie : DOMAIN w.trie[q] # {}
    BY <2>2, <2>3 DEF RibOK, IsTrie
  <2> QED  BY <1>2, <2>3, <2>4 DEF w
<1> QED  BY <1>1, <1>2

\* withdraw keeps the counters.
LEMMA WithdrawnOK ==
    ASSUME NEW r, RibOK(r), NEW p \in Prefix, NEW a \in Peer
    PROVE  RibOK(Withdrawn(r, p, a))
<1> DEFINE w == Withdrawn(r, p, a)
<1>1. CASE ~(p \in DOMAIN r.trie /\ a \in DOMAIN r.trie[p])
  BY <1>1 DEF Withdrawn
<1>2. CASE p \in DOMAIN r.trie /\ a \in DOMAIN r.trie[p]
  <2>1. /\ IsTrie(w.trie) /\ \A q \in DOMAIN w.trie : DOMAIN w.trie[q] # {}
        /\ DOMAIN w.trie = IF DOMAIN r.trie[p] = {a}
                           THEN DOMAIN r.trie \ {p} ELSE DOMAIN r.trie
        /\ \A q \in Prefix, b \in Peer :
               At(w, q, b) = IF q = p /\ b = a THEN Absent ELSE At(r, q, b)
    <3>1. /\ IsTrie(w.trie) /\ \A q \in DOMAIN w.trie : DOMAIN w.trie[q] # {}
          /\ DOMAIN r.trie[p] = {a} => DOMAIN w.trie = DOMAIN r.trie \ {p}
          /\ DOMAIN r.trie[p] # {a} => DOMAIN w.trie = DOMAIN r.trie
      BY <1>2, WithdrawnTrie
    <3>2. \A q \in Prefix, b \in Peer :
              At(w, q, b) = IF q = p /\ b = a THEN Absent ELSE At(r, q, b)
      BY WithdrawnAt
    <3> HIDE DEF w
    <3> QED  BY <3>1, <3>2
  <2>2. /\ DOMAIN w = {"trie", "prefixes", "routes"}
        /\ w.prefixes = IF DOMAIN r.trie[p] = {a} THEN Less(r.prefixes) ELSE r.prefixes
        /\ w.routes = Less(r.routes)
    BY <1>2 DEF Withdrawn
  <2> HIDE DEF w
  <2>3. RoutesOf(w) = RoutesOf(r) \ {<<p, a>>}
    BY <2>1 DEF RoutesOf
  <2>4. <<p, a>> \in RoutesOf(r)
    BY <1>2, RibReplayAssumption DEF RoutesOf, At, RibOK, IsTrie
  <2>5. w.routes = Cardinality(RoutesOf(w))
    <3>1. Cardinality(RoutesOf(w)) = r.routes - 1
      BY <2>3, <2>4, RibFinite, FS_RemoveElement DEF RibOK
    <3>2. r.routes # 0
      BY <2>4, RibFinite, FS_EmptySet DEF RibOK
    <3> QED  BY <2>2, <3>1, <3>2, RibFinite DEF Less
  <2>6. w.prefixes = Cardinality(DOMAIN w.trie)
    <3>1. CASE DOMAIN r.trie[p] = {a}
      <4>1. Cardinality(DOMAIN w.trie) = r.prefixes - 1
        BY <1>2, <2>1, <3>1, RibFinite, FS_RemoveElement DEF RibOK
      <4>2. r.prefixes # 0
        BY <1>2, RibFinite, FS_EmptySet DEF RibOK
      <4> QED  BY <2>2, <3>1, <4>1, <4>2, RibFinite DEF Less
    <3>2. CASE DOMAIN r.trie[p] # {a}
      BY <3>2, <2>1, <2>2 DEF RibOK
    <3> QED  BY <3>1, <3>2
  <2> QED  BY <2>1, <2>2, <2>5, <2>6 DEF RibOK, w
<1> QED  BY <1>1, <1>2

\* One element.
LEMMA AppliedLemma ==
    ASSUME NEW r, RibOK(r), NEW s \in Session, NEW p \in Prefix,
           NEW route \in Route \cup {Absent}
    PROVE  /\ RibOK(Applied(r, s, p, route))
           /\ \A q \in Prefix, b \in Peer :
                  At(Applied(r, s, p, route), q, b) =
                      IF q = p /\ b = PeerAsn[s] THEN route ELSE At(r, q, b)
<1>1. PeerAsn[s] \in Peer
  BY DEF Peer
<1>2. CASE route = Absent
  <2>1. Applied(r, s, p, route) = Withdrawn(r, p, PeerAsn[s])
    BY <1>2 DEF Applied
  <2>2. RibOK(Withdrawn(r, p, PeerAsn[s]))
    BY <1>1, WithdrawnOK
  <2>3. \A q \in Prefix, b \in Peer :
            At(Withdrawn(r, p, PeerAsn[s]), q, b) =
                IF q = p /\ b = PeerAsn[s] THEN Absent ELSE At(r, q, b)
    BY <1>1, WithdrawnAt
  <2> QED  BY <1>2, <2>1, <2>2, <2>3
<1>3. CASE route # Absent
  <2>1. Applied(r, s, p, route) = Announced(r, p, PeerAsn[s], route) /\ route \in Route
    BY <1>3 DEF Applied
  <2>2. RibOK(Announced(r, p, PeerAsn[s], route))
    BY <1>1, <2>1, AnnouncedOK
  <2>3. \A q \in Prefix, b \in Peer :
            At(Announced(r, p, PeerAsn[s], route), q, b) =
                IF q = p /\ b = PeerAsn[s] THEN route ELSE At(r, q, b)
    BY <1>1, <2>1, AnnouncedAt
  <2> QED  BY <2>1, <2>2, <2>3
<1> QED  BY <1>2, <1>3

-----------------------------------------------------------------------------
(* The inductive invariant. *)

\* What the collector guarantees about its archive and its dump.
Archive ==
    /\ \A i \in 1..Len(log) :
          \/ \E j \in i+1..Len(log) : /\ log[j].session = log[i].session
                                      /\ log[j].prefix = log[i].prefix
          \/ log[i].route = table[log[i].session][log[i].prefix]
    /\ dump # Absent =>
          \A s \in Session, p \in Prefix : Changed(s, p) \/ dump[s][p] = table[s][p]

Fresh == stage = "window" => rib = EmptyRib /\ applied = 0

\* While the dump is read the Rib has the elements read.
Loaded ==
    stage = "dump" =>
        /\ dump # Absent /\ mode # "skip" /\ applied = 0 /\ todo \subseteq Elements
        /\ PeersDiffer => \A s \in Session, p \in Prefix :
              At(rib, p, PeerAsn[s]) = IF <<s, p>> \in todo THEN Absent ELSE dump[s][p]

\* An update of the session and the prefix is still to be applied.
Later(s, p) == \E i \in applied+1..Len(log) : log[i].session = s /\ log[i].prefix = p

\* What an uncapped updates run ends with.
Final(s, p) ==
    IF Changed(s, p) \/ (mode = "updates" /\ dump # Absent) THEN table[s][p] ELSE Absent

Replayed ==
    stage = "updates" =>
        /\ mode # "rib"
        /\ PeersDiffer => \A s \in Session, p \in Prefix :
              ~Later(s, p) => At(rib, p, PeerAsn[s]) = Final(s, p)

\* from_rib: the peer preferred so far beats every other peer looked at.
Considered ==
    Built =>
        /\ DOMAIN left = DOMAIN rib.trie
        /\ \A p \in DOMAIN left :
              /\ left[p] \subseteq DOMAIN rib.trie[p]
              /\ best[p] = Absent => left[p] = DOMAIN rib.trie[p]
              /\ best[p] # Absent =>
                    /\ best[p] \in DOMAIN rib.trie[p] \ left[p]
                    /\ \A peer \in (DOMAIN rib.trie[p] \ left[p]) \ {best[p]} :
                          Preferred(p, best[p], peer)
              /\ stage = "done" => left[p] = {}

\* TypeOK without the Rib, whose type RibOK gives.
Typed ==
    /\ table \in Table
    /\ log \in Seq([session : Session, prefix : Prefix, route : Route \cup {Absent}])
    /\ Len(log) <= MaxChanges
    /\ dump \in Table \cup {Absent}
    /\ mode \in {"rib", "updates", "skip"}
    /\ stage \in {"window", "dump", "updates", "collapse", "done", "failed"}
    /\ todo \subseteq Session \X Prefix
    /\ applied \in 0..Len(log) /\ applied <= Cap
    /\ DOMAIN left \subseteq Prefix /\ \A p \in DOMAIN left : left[p] \subseteq Peer
    /\ DOMAIN best = DOMAIN left /\ \A p \in DOMAIN best : best[p] \in Peer \cup {Absent}

Inv == /\ Typed /\ RibOK(rib) /\ Archive /\ Fresh /\ Loaded /\ Replayed
       /\ RebuiltIsTable /\ Considered

LEMMA InvType == Inv => TypeOK
BY RibFinite DEF Inv, Typed, TypeOK, RibOK

\* The Rib is the same, and so is what it says.
LEMMA SameRib == ASSUME RibOK(rib), UNCHANGED rib PROVE RibOK(rib)'
BY DEF RibOK, RoutesOf, At, IsTrie

LEMMA InitInv == Init => Inv
<1> SUFFICES ASSUME Init PROVE Inv
  OBVIOUS
<1>1. Typed
  BY RibReplayAssumption DEF Init, Typed, Nothing
<1>2. RibOK(rib) /\ Archive /\ Fresh
  BY EmptyRibOK DEF Init, Archive, Fresh
<1>3. Loaded /\ Replayed /\ RebuiltIsTable /\ Considered
  BY DEF Init, Loaded, Replayed, RebuiltIsTable, Considered, Built
<1> QED  BY <1>1, <1>2, <1>3 DEF Inv

-----------------------------------------------------------------------------
(* Each action keeps it. *)

LEMMA HearStep ==
    ASSUME Inv, NEW s \in Session, NEW p \in Prefix, NEW route \in Route \cup {Absent},
           Hear(s, p, route)
    PROVE  Inv'
<1> DEFINE U == [session : Session, prefix : Prefix, route : Route \cup {Absent}]
           u == [session |-> s, prefix |-> p, route |-> route]
           n == Len(log)
<1>1. /\ log \in Seq(U) /\ u \in U /\ n \in Nat /\ table \in Table
  BY DEF Inv, Typed
<1>2. /\ log' \in Seq(U) /\ Len(log') = n + 1 /\ log'[n + 1] = u
      /\ \A i \in 1..n : log'[i] = log[i]
  BY <1>1 DEF Hear
<1>3. /\ table' \in Table /\ table'[s][p] = route
      /\ \A t \in Session, q \in Prefix : ~(t = s /\ q = p) => table'[t][q] = table[t][q]
  BY <1>1 DEF Hear, Table
<1> HIDE DEF U
<1>4. Typed'
  <2>1. log' \in Seq([session : Session, prefix : Prefix, route : Route \cup {Absent}])
    BY <1>2 DEF U
  <2>2. Len(log') <= MaxChanges /\ applied \in 0..Len(log')
    BY <1>1, <1>2, RibReplayAssumption DEF Inv, Typed, Hear
  <2>3. Len(log) = n
    OBVIOUS
  <2> HIDE DEF n
  <2> QED  BY <1>3, <2>1, <2>2 DEF Inv, Typed, Hear
<1>5. RibOK(rib)'
  BY SameRib DEF Inv, Hear
<1>6. Archive'
  <2>1. ASSUME NEW i \in 1..Len(log')
        PROVE  \/ \E j \in i+1..Len(log') : /\ log'[j].session = log'[i].session
                                            /\ log'[j].prefix = log'[i].prefix
               \/ log'[i].route = table'[log'[i].session][log'[i].prefix]
    <3>1. CASE i = n + 1
      BY <3>1, <1>2, <1>3
    <3>2. CASE i \in 1..n /\ log[i].session = s /\ log[i].prefix = p
      <4>1. n + 1 \in i+1..Len(log')
        BY <3>2, <1>1, <1>2
      <4> QED  BY <3>2, <4>1, <1>2
    <3>3. CASE i \in 1..n /\ ~(log[i].session = s /\ log[i].prefix = p)
      <4>1. log[i].session \in Session /\ log[i].prefix \in Prefix
        <5>1. log[i] \in U
          BY <3>3, <1>1
        <5>2. \A x \in U : x.session \in Session /\ x.prefix \in Prefix
          BY DEF U
        <5> QED  BY <5>1, <5>2
      <4>2. \/ \E j \in i+1..n : /\ log[j].session = log[i].session
                                 /\ log[j].prefix = log[i].prefix
            \/ log[i].route = table[log[i].session][log[i].prefix]
        BY <3>3 DEF Inv, Archive
      <4>3. i+1..n \subseteq i+1..Len(log') /\ i+1..n \subseteq 1..n
        BY <3>3, <1>1, <1>2
      <4> QED  BY <3>3, <4>1, <4>2, <4>3, <1>2, <1>3
    <3> QED  BY <1>1, <1>2, <3>1, <3>2, <3>3
  <2>2. ASSUME dump' # Absent, NEW t \in Session, NEW q \in Prefix
        PROVE  Changed(t, q)' \/ dump'[t][q] = table'[t][q]
    <3>1. CASE t = s /\ q = p
      BY <3>1, <1>1, <1>2 DEF Changed
    <3>2. CASE ~(t = s /\ q = p) /\ Changed(t, q)
      BY <3>2, <1>1, <1>2 DEF Changed
    <3>3. CASE ~(t = s /\ q = p) /\ ~Changed(t, q)
      BY <3>3, <1>3, <2>2 DEF Inv, Archive, Hear
    <3> QED  BY <3>1, <3>2, <3>3
  <2> QED  BY <2>1, <2>2 DEF Archive
<1>7. Fresh' /\ Loaded' /\ Replayed' /\ RebuiltIsTable' /\ Considered'
  BY DEF Inv, Hear, Fresh, Loaded, Replayed, RebuiltIsTable, Considered, Built
<1> QED  BY <1>4, <1>5, <1>6, <1>7 DEF Inv

LEMMA DumpStep == ASSUME Inv, Dump PROVE Inv'
<1>1. Typed' /\ RibOK(rib)'
  BY SameRib DEF Inv, Typed, Dump
<1>2. Archive'
  BY DEF Inv, Archive, Dump, Changed
<1>3. Fresh' /\ Loaded' /\ Replayed' /\ RebuiltIsTable' /\ Considered'
  BY DEF Inv, Dump, Fresh, Loaded, Replayed, RebuiltIsTable, Considered, Built
<1> QED  BY <1>1, <1>2, <1>3 DEF Inv

LEMMA SameArchive == ASSUME Archive, UNCHANGED collector PROVE Archive'
BY DEF Archive, collector, Changed

LEMMA PlanStep == ASSUME Inv, Plan PROVE Inv'
<1>1. /\ stage = "window" /\ UNCHANGED <<collector, mode, applied, rib, left, best>>
      /\ rib = EmptyRib /\ applied = 0
  BY DEF Inv, Plan, Fresh
<1>2. RibOK(rib)' /\ Archive'
  BY <1>1, SameRib, SameArchive DEF Inv
<1>3. CASE mode # "skip" /\ dump # Absent
  <2>1. stage' = "dump" /\ todo' = Elements /\ Elements \subseteq Session \X Prefix
    BY <1>3 DEF Plan, Elements
  <2>2. Typed'
    BY <1>1, <2>1 DEF Inv, Typed, collector
  <2>3. Loaded'
    <3>1. \A s \in Session, p \in Prefix :
              At(rib', p, PeerAsn[s]) = IF <<s, p>> \in todo' THEN Absent ELSE dump'[s][p]
      BY <1>1, <2>1, EmptyRibOK DEF Elements, Peer, collector
    <3> QED  BY <1>1, <1>3, <2>1, <3>1 DEF Loaded, Elements, collector
  <2>4. Fresh' /\ Replayed' /\ RebuiltIsTable' /\ Considered'
    BY <2>1 DEF Fresh, Replayed, RebuiltIsTable, Considered, Built
  <2> QED  BY <1>2, <2>2, <2>3, <2>4 DEF Inv
<1>4. CASE ~(mode # "skip" /\ dump # Absent)
  <2>1. stage' = "updates" /\ mode # "rib" /\ todo' = todo
    BY <1>4 DEF Plan
  <2>2. Typed'
    BY <1>1, <2>1 DEF Inv, Typed, collector
  <2>3. Replayed'
    <3>1. mode' # "rib"
      BY <1>1, <2>1
    <3>2. ASSUME NEW s \in Session, NEW p \in Prefix, ~Later(s, p)'
          PROVE  At(rib', p, PeerAsn[s]) = Final(s, p)'
      <4>1. ~Changed(s, p)' /\ ~(mode' = "updates" /\ dump' # Absent)
        BY <1>1, <1>4, <3>2 DEF Later, Changed, collector
      <4> QED  BY <1>1, <4>1, EmptyRibOK DEF Final, Peer
    <3> QED  BY <3>1, <3>2 DEF Replayed
  <2>4. Fresh' /\ Loaded' /\ RebuiltIsTable' /\ Considered'
    BY <2>1 DEF Fresh, Loaded, RebuiltIsTable, Considered, Built
  <2> QED  BY <1>2, <2>2, <2>3, <2>4 DEF Inv
<1> QED  BY <1>3, <1>4

LEMMA LoadStep == ASSUME Inv, LoadElement PROVE Inv'
<1>1. PICK e \in todo : /\ rib' = Applied(rib, e[1], e[2], dump[e[1]][e[2]])
                        /\ todo' = todo \ {e}
  BY DEF LoadElement
<1>2. /\ stage = "dump" /\ UNCHANGED <<collector, mode, stage, applied, left, best>>
      /\ Loaded /\ dump # Absent /\ todo \subseteq Elements /\ dump \in Table
  BY DEF Inv, LoadElement, Loaded, Typed
<1>3. PICK s \in Session, p \in Prefix : e = <<s, p>>
  BY <1>1, <1>2 DEF Elements
<1>4. dump[s][p] \in Route /\ rib' = Applied(rib, s, p, dump[s][p])
  BY <1>1, <1>2, <1>3 DEF Elements, Table
<1>5. /\ RibOK(rib')
      /\ \A q \in Prefix, b \in Peer :
             At(rib', q, b) = IF q = p /\ b = PeerAsn[s] THEN dump[s][p] ELSE At(rib, q, b)
  <2>1. RibOK(rib)
    BY DEF Inv
  <2> QED  BY <1>4, <2>1, AppliedLemma
<1>6. RibOK(rib)'
  BY <1>5 DEF RibOK, RoutesOf, At, IsTrie
<1>7. Typed'
  BY <1>1, <1>2 DEF Inv, Typed, collector
<1>8. Loaded'
  <2>1. ASSUME PeersDiffer, NEW t \in Session, NEW q \in Prefix
        PROVE  At(rib', q, PeerAsn[t]) = IF <<t, q>> \in todo' THEN Absent ELSE dump[t][q]
    <3>1. PeerAsn[t] \in Peer /\ (PeerAsn[t] = PeerAsn[s] => t = s)
      BY <2>1 DEF Peer, PeersDiffer
    <3>2. At(rib, q, PeerAsn[t]) = IF <<t, q>> \in todo THEN Absent ELSE dump[t][q]
      BY <1>2, <2>1 DEF Loaded
    <3> QED  BY <1>1, <1>3, <1>5, <3>1, <3>2
  <2> QED  BY <1>1, <1>2, <2>1 DEF Loaded, Elements, PeersDiffer, collector
<1>9. Archive' /\ Fresh' /\ Replayed' /\ RebuiltIsTable' /\ Considered'
  BY <1>2, SameArchive DEF Inv, Fresh, Replayed, RebuiltIsTable, Considered, Built
<1> QED  BY <1>6, <1>7, <1>8, <1>9 DEF Inv

\* What from_rib starts with.
LEMMA CollapseStart ==
    ASSUME Typed, RibOK(rib), Collapse, UNCHANGED <<collector, mode, applied, todo, rib>>
    PROVE  Typed' /\ Considered'
<1>1. /\ DOMAIN rib.trie \subseteq Prefix
      /\ \A p \in DOMAIN rib.trie : DOMAIN rib.trie[p] \subseteq Peer
  BY DEF RibOK, IsTrie
<1>2. Typed'
  BY <1>1 DEF Typed, Collapse, collector
<1>3. Considered'
  BY <1>1 DEF Considered, Collapse
<1> QED  BY <1>2, <1>3

LEMMA DumpLoadedStep == ASSUME Inv, DumpLoaded PROVE Inv'
<1>1. /\ stage = "dump" /\ todo = {} /\ UNCHANGED <<collector, mode, todo, applied, rib>>
      /\ Typed /\ RibOK(rib) /\ Archive /\ Loaded
      /\ dump # Absent /\ mode # "skip" /\ applied = 0
  BY DEF Inv, DumpLoaded, Loaded
<1>2. RibOK(rib)' /\ Archive'
  BY <1>1, SameRib, SameArchive
<1>3. ASSUME PeersDiffer, NEW s \in Session, NEW p \in Prefix
      PROVE  At(rib', p, PeerAsn[s]) = dump[s][p]
  BY <1>1, <1>3 DEF Loaded
<1>4. CASE Collapse
  <2>1. Collapse
    BY <1>4
  <2>2. Typed' /\ Considered'
    BY <1>1, <2>1, CollapseStart
  <2>3. RebuiltIsTable'
    <3>1. CASE mode = "rib"
      BY <1>1, <1>3, <3>1 DEF RebuiltIsTable, PeersDiffer, collector
    <3>2. CASE mode = "updates" /\ Len(log) = 0
      <4>1. \A s \in Session, p \in Prefix : ~Changed(s, p) /\ dump[s][p] = table[s][p]
        BY <1>1, <3>2 DEF Archive, Changed
      <4> QED  BY <1>1, <1>3, <3>2, <4>1 DEF RebuiltIsTable, Changed, PeersDiffer, collector
    <3>3. CASE mode = "updates" /\ Len(log) # 0
      BY <1>1, <3>3 DEF RebuiltIsTable, Uncapped, collector
    <3> QED  BY <1>1, <3>1, <3>2, <3>3 DEF Typed
  <2>4. Fresh' /\ Loaded' /\ Replayed'
    BY <2>1 DEF Collapse, Fresh, Loaded, Replayed
  <2> QED  BY <1>2, <2>2, <2>3, <2>4 DEF Inv
<1>5. CASE mode # "rib" /\ stage' = "updates" /\ UNCHANGED <<left, best>>
  <2>1. stage' = "updates" /\ UNCHANGED <<left, best>>
    BY <1>5
  <2>2. Typed'
    BY <1>1, <2>1 DEF Typed, collector
  <2>3. Replayed'
    <3>1. ASSUME PeersDiffer, NEW s \in Session, NEW p \in Prefix, ~Later(s, p)'
          PROVE  At(rib', p, PeerAsn[s]) = Final(s, p)'
      <4>1. ~Changed(s, p) /\ ~Changed(s, p)'
        BY <1>1, <3>1 DEF Later, Changed, collector
      <4>2. dump[s][p] = table[s][p]
        BY <1>1, <4>1 DEF Archive
      <4>3. mode' = "updates" /\ dump' # Absent
        BY <1>1, <1>5 DEF Typed, collector
      <4> QED  BY <1>1, <1>3, <3>1, <4>2, <4>3 DEF Final, collector
    <3> QED  BY <1>1, <1>5, <3>1 DEF Replayed, PeersDiffer
  <2>4. Fresh' /\ Loaded' /\ RebuiltIsTable' /\ Considered'
    BY <2>1 DEF Fresh, Loaded, RebuiltIsTable, Considered, Built
  <2> QED  BY <1>2, <2>2, <2>3, <2>4 DEF Inv
<1> QED  BY <1>4, <1>5 DEF DumpLoaded

LEMMA ApplyStep == ASSUME Inv, ApplyUpdate PROVE Inv'
<1> DEFINE k == applied + 1
<1>1. /\ stage = "updates" /\ More /\ UNCHANGED <<collector, mode, stage, todo, left, best>>
      /\ Typed /\ RibOK(rib) /\ Archive /\ Replayed
      /\ applied' = k
      /\ rib' = Applied(rib, log[k].session, log[k].prefix, log[k].route)
  BY DEF Inv, ApplyUpdate
<1>2. k \in 1..Len(log) /\ k <= Cap /\ applied \in Nat /\ Len(log) \in Nat
  BY <1>1, RibReplayAssumption DEF Typed, More
<1> HIDE DEF k
<1>3. PICK s \in Session, p \in Prefix, route \in Route \cup {Absent} :
          log[k].session = s /\ log[k].prefix = p /\ log[k].route = route
  <2> DEFINE U == [session : Session, prefix : Prefix, route : Route \cup {Absent}]
  <2>1. log \in Seq(U)
    BY <1>1 DEF Typed
  <2>2. \A x \in U : /\ x.session \in Session /\ x.prefix \in Prefix
                     /\ x.route \in Route \cup {Absent}
    OBVIOUS
  <2> HIDE DEF U
  <2>3. log[k] \in U
    BY <2>1, <1>2
  <2> QED  BY <2>2, <2>3
<1>4. /\ RibOK(rib')
      /\ \A q \in Prefix, b \in Peer :
             At(rib', q, b) = IF q = p /\ b = PeerAsn[s] THEN route ELSE At(rib, q, b)
  BY <1>1, <1>3, AppliedLemma
<1>5. RibOK(rib)'
  BY <1>4 DEF RibOK, RoutesOf, At, IsTrie
<1>6. Typed'
  BY <1>1, <1>2 DEF Typed, collector, k
<1>7. Archive'
  BY <1>1, SameArchive
<1>8. Replayed'
  <2>1. mode' # "rib"
    BY <1>1 DEF Replayed
  <2>2. ASSUME PeersDiffer, NEW t \in Session, NEW q \in Prefix, ~Later(t, q)'
        PROVE  At(rib', q, PeerAsn[t]) = Final(t, q)'
    <3>1. Final(t, q)' = Final(t, q)
      BY <1>1 DEF Final, Changed, collector
    <3>2. \A i \in k+1..Len(log) : ~(log[i].session = t /\ log[i].prefix = q)
      BY <1>1, <2>2 DEF Later, collector
    <3>3. CASE t = s /\ q = p
      <4>1. route = table[s][p]
        BY <1>1, <1>2, <1>3, <3>2, <3>3 DEF Archive
      <4>2. Changed(s, p)
        BY <1>2, <1>3 DEF Changed
      <4>3. PeerAsn[s] \in Peer
        BY DEF Peer
      <4> QED  BY <3>1, <3>3, <4>1, <4>2, <4>3, <1>4 DEF Final
    <3>4. CASE ~(t = s /\ q = p)
      <4>1. ~Later(t, q)
        <5>1. ASSUME NEW i \in applied+1..Len(log), log[i].session = t, log[i].prefix = q
              PROVE  FALSE
          <6>1. i = k \/ i \in k+1..Len(log)
            BY <1>2 DEF k
          <6> QED  BY <6>1, <5>1, <3>2, <3>4, <1>3
        <5> QED  BY <5>1 DEF Later
      <4>2. At(rib, q, PeerAsn[t]) = Final(t, q)
        BY <1>1, <2>2, <4>1 DEF Replayed
      <4>3. PeerAsn[t] \in Peer /\ (PeerAsn[t] = PeerAsn[s] => t = s)
        BY <2>2 DEF Peer, PeersDiffer
      <4> QED  BY <3>1, <3>4, <4>2, <4>3, <1>4
    <3> QED  BY <3>3, <3>4
  <2> QED  BY <2>1, <2>2 DEF Replayed, PeersDiffer
<1>9. Fresh' /\ Loaded' /\ RebuiltIsTable' /\ Considered'
  BY <1>1 DEF Fresh, Loaded, RebuiltIsTable, Considered, Built
<1> QED  BY <1>5, <1>6, <1>7, <1>8, <1>9 DEF Inv

LEMMA UpdatesAppliedStep == ASSUME Inv, UpdatesApplied PROVE Inv'
<1>1. /\ stage = "updates" /\ Collapse /\ UNCHANGED <<collector, mode, todo, applied, rib>>
      /\ Typed /\ RibOK(rib) /\ Archive /\ Replayed
  BY DEF Inv, UpdatesApplied
<1>2. RibOK(rib)' /\ Archive' /\ Typed' /\ Considered'
  BY <1>1, SameRib, SameArchive, CollapseStart
<1>3. RebuiltIsTable'
  <2>1. ASSUME applied = Len(log), PeersDiffer, NEW s \in Session, NEW p \in Prefix
        PROVE  At(rib', p, PeerAsn[s]) = Final(s, p)
    <3>1. ~Later(s, p)
      BY <1>1, <2>1 DEF Later, Typed
    <3> QED  BY <1>1, <2>1, <3>1 DEF Replayed
  <2>2. mode # "rib"
    BY <1>1 DEF Replayed
  <2> QED  BY <1>1, <2>1, <2>2
           DEF RebuiltIsTable, Final, Uncapped, Changed, PeersDiffer, collector
<1>4. Fresh' /\ Loaded' /\ Replayed'
  BY <1>1 DEF Collapse, Fresh, Loaded, Replayed
<1> QED  BY <1>2, <1>3, <1>4 DEF Inv

\* Preferred is a strict total order on the peers of a prefix.
LEMMA PreferredOrder ==
    ASSUME RibOK(rib), NEW p \in DOMAIN rib.trie, NEW a \in DOMAIN rib.trie[p],
           NEW b \in DOMAIN rib.trie[p], NEW c \in DOMAIN rib.trie[p]
    PROVE  /\ a # b => Preferred(p, a, b) \/ Preferred(p, b, a)
           /\ Preferred(p, a, b) => ~Preferred(p, b, a) /\ a # b
           /\ Preferred(p, a, b) /\ Preferred(p, b, c) => Preferred(p, a, c)
<1>1. \A x \in DOMAIN rib.trie[p] : rib.trie[p][x] \in Route /\ x \in Peer
  BY DEF RibOK, IsTrie
<1>2. \A x \in DOMAIN rib.trie[p] : Len(rib.trie[p][x].path) \in Nat /\ x \in Nat
  BY <1>1, RibReplayAssumption
<1> DEFINE len(x) == Len(rib.trie[p][x].path)
<1>3. len(a) \in Nat /\ len(b) \in Nat /\ len(c) \in Nat /\ a \in Nat /\ b \in Nat /\ c \in Nat
  BY <1>2
<1>4. \A x, y : Preferred(p, x, y) <=> (len(x) > len(y) \/ (len(x) = len(y) /\ x < y))
  BY DEF Preferred
<1> HIDE DEF len
<1> QED  BY <1>3, <1>4

LEMMA ConsiderStep == ASSUME Inv, NEW p \in DOMAIN left, Consider(p) PROVE Inv'
<1>1. /\ stage = "collapse" /\ UNCHANGED <<collector, mode, stage, todo, applied, rib>>
      /\ Typed /\ RibOK(rib) /\ Archive /\ Considered /\ RebuiltIsTable
  BY DEF Inv, Consider
<1>2. PICK peer \in left[p] :
          /\ left' = [left EXCEPT ![p] = @ \ {peer}]
          /\ best' = IF best[p] = Absent \/ Preferred(p, peer, best[p])
                     THEN [best EXCEPT ![p] = peer] ELSE best
  BY DEF Consider
<1>3. /\ DOMAIN left = DOMAIN rib.trie /\ DOMAIN best = DOMAIN left
      /\ p \in DOMAIN rib.trie /\ p \in Prefix /\ peer \in DOMAIN rib.trie[p]
      /\ DOMAIN rib.trie[p] \subseteq Peer /\ peer # Absent
  BY <1>1, RibReplayAssumption DEF Considered, Built, Typed, RibOK, IsTrie
<1>4. /\ DOMAIN left' = DOMAIN left /\ DOMAIN best' = DOMAIN best
      /\ left'[p] = left[p] \ {peer}
      /\ best'[p] = IF best[p] = Absent \/ Preferred(p, peer, best[p]) THEN peer ELSE best[p]
      /\ \A q \in DOMAIN left : q # p => left'[q] = left[q] /\ best'[q] = best[q]
  BY <1>2, <1>3
<1>5. RibOK(rib)' /\ Archive'
  BY <1>1, SameRib, SameArchive
<1>6. Typed'
  BY <1>1, <1>3, <1>4 DEF Typed, collector
<1>7. ASSUME NEW q \in DOMAIN left
      PROVE  /\ left'[q] \subseteq DOMAIN rib.trie[q]
             /\ best'[q] = Absent => left'[q] = DOMAIN rib.trie[q]
             /\ best'[q] # Absent =>
                   /\ best'[q] \in DOMAIN rib.trie[q] \ left'[q]
                   /\ \A other \in (DOMAIN rib.trie[q] \ left'[q]) \ {best'[q]} :
                         Preferred(q, best'[q], other)
  <2>1. CASE q # p
    BY <2>1, <1>1, <1>4 DEF Considered, Built
  <2>2. CASE q = p /\ best[p] = Absent
    <3>1. best'[p] = peer /\ left[p] = DOMAIN rib.trie[p]
      BY <2>2, <1>1, <1>3, <1>4 DEF Considered, Built
    <3> QED  BY <2>2, <3>1, <1>3, <1>4
  <2>3. CASE q = p /\ best[p] # Absent
    <3> DEFINE cur == best[p]
    <3>1. /\ left[p] \subseteq DOMAIN rib.trie[p]
          /\ cur \in DOMAIN rib.trie[p] \ left[p]
          /\ \A other \in (DOMAIN rib.trie[p] \ left[p]) \ {cur} : Preferred(p, cur, other)
      BY <2>3, <1>1, <1>3 DEF Considered, Built
    <3>2. cur # peer
      BY <3>1
    <3> HIDE DEF cur
    <3>3. CASE Preferred(p, peer, cur)
      <4>1. best'[p] = peer
        BY <3>3, <1>4 DEF cur
      <4>2. ASSUME NEW other \in (DOMAIN rib.trie[p] \ left'[p]) \ {peer}
            PROVE  Preferred(p, peer, other)
        <5>1. other = cur \/ other \in (DOMAIN rib.trie[p] \ left[p]) \ {cur}
          BY <1>4
        <5>2. other # cur => Preferred(p, cur, other)
          BY <3>1, <5>1
        <5> QED  BY <5>2, <3>1, <3>3, <1>1, <1>3, PreferredOrder
      <4> QED  BY <2>3, <4>1, <4>2, <3>1, <1>3, <1>4
    <3>4. CASE ~Preferred(p, peer, cur)
      <4>1. best'[p] = cur
        BY <3>4, <2>3, <1>4 DEF cur
      <4>2. Preferred(p, cur, peer)
        BY <3>1, <3>2, <3>4, <1>1, <1>3, PreferredOrder
      <4>3. cur # Absent
        BY <2>3 DEF cur
      <4> QED  BY <2>3, <4>1, <4>2, <4>3, <3>1, <3>2, <1>3, <1>4
    <3> QED  BY <3>3, <3>4
  <2> QED  BY <2>1, <2>2, <2>3
<1>8. Considered'
  <2>1. \A q, x, y : Preferred(q, x, y)' <=> (Preferred(q, x, y))
    BY <1>1 DEF Preferred
  <2>2. stage' # "done" /\ rib' = rib /\ DOMAIN left' = DOMAIN rib.trie
    BY <1>1, <1>3, <1>4
  <2> QED  BY <1>3, <1>7, <2>2, <1>1 DEF Considered, Preferred
<1>9. Fresh' /\ Loaded' /\ Replayed' /\ RebuiltIsTable'
  BY <1>1 DEF Fresh, Loaded, Replayed, RebuiltIsTable, Built, Uncapped, Changed,
              PeersDiffer, collector, At
<1> QED  BY <1>5, <1>6, <1>8, <1>9 DEF Inv

LEMMA FinishStep == ASSUME Inv, Finish PROVE Inv'
<1>1. /\ stage = "collapse" /\ stage' = "done" /\ \A p \in DOMAIN left : left[p] = {}
      /\ UNCHANGED <<collector, mode, todo, applied, rib, left, best>>
      /\ Typed /\ RibOK(rib) /\ Archive /\ Considered /\ RebuiltIsTable
  BY DEF Inv, Finish
<1>2. RibOK(rib)' /\ Archive'
  BY <1>1, SameRib, SameArchive
<1>3. Typed'
  BY <1>1 DEF Typed, collector
<1>4. Considered'
  BY <1>1 DEF Considered, Built, Preferred
<1>5. Fresh' /\ Loaded' /\ Replayed'
  BY <1>1 DEF Fresh, Loaded, Replayed
<1>6. RebuiltIsTable'
  BY <1>1 DEF RebuiltIsTable, Built, Uncapped, Changed, PeersDiffer, collector, At
<1> QED  BY <1>2, <1>3, <1>4, <1>5, <1>6 DEF Inv

LEMMA FailStep == ASSUME Inv, Fail PROVE Inv'
<1>1. /\ stage' = "failed" /\ UNCHANGED <<collector, mode, todo, applied, rib, left, best>>
      /\ Typed /\ RibOK(rib) /\ Archive
  BY DEF Inv, Fail
<1>2. RibOK(rib)' /\ Archive'
  BY <1>1, SameRib, SameArchive
<1>3. Typed'
  BY <1>1 DEF Typed, collector
<1>4. Fresh' /\ Loaded' /\ Replayed' /\ RebuiltIsTable' /\ Considered'
  BY <1>1 DEF Fresh, Loaded, Replayed, RebuiltIsTable, Considered, Built
<1> QED  BY <1>2, <1>3, <1>4 DEF Inv

LEMMA NextInv == ASSUME Inv, [Next]_vars PROVE Inv'
<1>1. CASE UNCHANGED vars
  <2>1. Typed' /\ RibOK(rib)' /\ Archive'
    BY <1>1, SameRib, SameArchive DEF Inv, vars, collector, Typed
  <2>2. Fresh' /\ Loaded' /\ Replayed'
    BY <1>1 DEF Inv, vars, collector, Fresh, Loaded, Replayed, Elements, Later, Final, Changed,
                PeersDiffer, At
  <2>3. RebuiltIsTable' /\ Considered'
    BY <1>1 DEF Inv, vars, collector, RebuiltIsTable, Considered, Built, Uncapped, Changed,
                PeersDiffer, At, Preferred
  <2> QED  BY <2>1, <2>2, <2>3 DEF Inv
<1>2. CASE Next
  BY <1>2, HearStep, DumpStep, PlanStep, LoadStep, DumpLoadedStep, ApplyStep,
     UpdatesAppliedStep, ConsiderStep, FinishStep, FailStep DEF Next
<1> QED  BY <1>1, <1>2

\* The inductive invariant holds of every behaviour.
THEOREM Invariant == Spec => []Inv
<1>1. Inv /\ [Next]_vars => Inv'
  BY NextInv
<1> QED  BY InitInv, <1>1, PTL DEF Spec

-----------------------------------------------------------------------------
(* What follows. *)

\* The state keeps its type, whatever the order of the elements and the cap.
THEOREM TypeCorrect == Spec => []TypeOK
BY Invariant, InvType, PTL

\* The counters of the Rib agree with its trie after any sequence of announcements
\* and withdrawals.
THEOREM CountersCorrect == Spec => []CountersAgree
<1>1. Inv => CountersAgree
  BY DEF Inv, RibOK, RoutesOf, CountersAgree
<1> QED  BY Invariant, <1>1, PTL

\* The reconstruction is the collector's table, however the window's updates and
\* dumps alternate.
THEOREM ReplayCorrect == Spec => []RebuiltIsTable
<1>1. Inv => RebuiltIsTable
  BY DEF Inv
<1> QED  BY Invariant, <1>1, PTL

\* The snapshot has the longest path of the lowest peer, whatever the map's order.
THEOREM LongestKept == Spec => []SnapshotIsLongest
<1>1. ASSUME Inv PROVE SnapshotIsLongest
  <2> SUFFICES ASSUME stage = "done", NEW p \in DOMAIN rib.trie
               PROVE  /\ best[p] \in DOMAIN rib.trie[p]
                      /\ \A peer \in DOMAIN rib.trie[p] \ {best[p]} :
                            Preferred(p, best[p], peer)
                      /\ p \in DOMAIN Snapshot <=> rib.trie[p][best[p]].origin # Absent
    <3>1. RibOK(rib)
      BY <1>1 DEF Inv
    <3>2. \A q \in DOMAIN rib.trie : \A x, y \in DOMAIN rib.trie[q] :
              Preferred(q, x, y) =>
                  \/ Len(rib.trie[q][y].path) < Len(rib.trie[q][x].path)
                  \/ Len(rib.trie[q][y].path) = Len(rib.trie[q][x].path) /\ x < y
      <4> SUFFICES ASSUME NEW q \in DOMAIN rib.trie, NEW x \in DOMAIN rib.trie[q],
                          NEW y \in DOMAIN rib.trie[q], Preferred(q, x, y)
                   PROVE  \/ Len(rib.trie[q][y].path) < Len(rib.trie[q][x].path)
                          \/ Len(rib.trie[q][y].path) = Len(rib.trie[q][x].path) /\ x < y
        OBVIOUS
      <4>1. rib.trie[q][x] \in Route /\ rib.trie[q][y] \in Route
        BY <3>1 DEF RibOK, IsTrie
      <4>2. Len(rib.trie[q][x].path) \in Nat /\ Len(rib.trie[q][y].path) \in Nat
        BY <4>1, RibReplayAssumption
      <4> QED  BY <4>2 DEF Preferred
    <3> QED  BY <3>2 DEF SnapshotIsLongest
  <2>1. RibOK(rib) /\ Considered /\ Built /\ Typed
    BY <1>1 DEF Inv, Built
  <2>2. DOMAIN rib.trie[p] # {} /\ p \in DOMAIN left /\ left[p] = {} /\ DOMAIN best = DOMAIN left
    BY <2>1 DEF RibOK, Considered, Typed
  <2>3. best[p] # Absent
    BY <2>1, <2>2 DEF Considered
  <2> QED  BY <2>1, <2>2, <2>3 DEF Considered, Snapshot
<1> QED  BY Invariant, <1>1, PTL
=============================================================================
