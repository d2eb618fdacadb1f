------------------------------ MODULE RibReplay ------------------------------
(***************************************************************************)
(* How a snapshot of the routing tables is made: build_snapshot            *)
(* (commands/snapshot.rs) picks the latest RIB dump of a collector's       *)
(* window and perhaps its update files (bgp-ingest), applies their         *)
(* elements to a Rib (bgp-rib), and collapses the routes of every prefix   *)
(* into one observation (RibSnapshot::from_rib, bgp-ma).                   *)
(*                                                                         *)
(* The collector (external) hears its BGP sessions announce and withdraw   *)
(* routes, archives every update and now and then dumps its tables.  The   *)
(* update files are one sequence, as the loops over files and elements     *)
(* make them; a route is its AS path and its origin.                       *)
(***************************************************************************)
EXTENDS Integers, FiniteSets, Sequences

CONSTANTS
    Session,     \* the BGP sessions of the collector
    PeerAsn,     \* session -> ASN of its peer
    Prefix,
    Route,       \* routes [path, origin]; origin is Absent when there is none
    Cap,         \* --max-updates; more than MaxChanges when it is not given
    MaxChanges,  \* bound: updates in the window
    Absent       \* no route, dump, peer or origin

VARIABLES
    table,       \* session -> prefix -> the route it announces now, or Absent
    log,         \* the updates archived in the window, in order
    dump,        \* the table at the latest dump of the window, or Absent
    mode,        \* --mode, and "skip" for --mode updates --skip-rib
    stage,
    todo,        \* elements of the dump still to be read
    applied,     \* updates_seen
    rib,         \* the Rib
    left,        \* prefix -> peers from_rib has still to look at
    best         \* prefix -> the peer from_rib prefers so far, or Absent

collector == <<table, log, dump>>
vars == <<table, log, dump, mode, stage, todo, applied, rib, left, best>>

Peer == {PeerAsn[s] : s \in Session}
Table == [Session -> [Prefix -> Route \cup {Absent}]]

ASSUME RibReplayAssumption ==
    /\ DOMAIN PeerAsn = Session /\ Peer \subseteq Nat
    /\ IsFiniteSet(Session) /\ IsFiniteSet(Prefix)
    /\ \A r \in Route : r = [path |-> r.path, origin |-> r.origin] /\ Len(r.path) \in Nat
    /\ Cap \in Nat /\ MaxChanges \in Nat
    /\ Absent \notin Route /\ Absent \notin Table /\ Absent \notin Peer

-----------------------------------------------------------------------------
(* The Rib: a trie from prefixes to the routes of their peers, and two      *)
(* counters kept beside it.                                                *)

Put(f, k, v) == [x \in DOMAIN f \cup {k} |-> IF x = k THEN v ELSE f[x]]
Drop(f, k) == [x \in DOMAIN f \ {k} |-> f[x]]
Nothing == [x \in {} |-> Absent]

EmptyRib == [trie |-> Nothing, prefixes |-> 0, routes |-> 0]

\* Mutant: entry(peer).or_insert(entry).
AnnouncedOnce(r, p, peer, route) ==
    LET known == p \in DOMAIN r.trie
        peers == IF known THEN r.trie[p] ELSE Nothing
        had == peer \in DOMAIN peers
    IN  IF had THEN r
        ELSE [trie     |-> Put(r.trie, p, Put(peers, peer, route)),
              prefixes |-> IF known THEN r.prefixes ELSE r.prefixes + 1,
              routes   |-> r.routes + 1]

\* Rib::announce.
Announced(r, p, peer, route) ==
    LET known == p \in DOMAIN r.trie
        peers == IF known THEN r.trie[p] ELSE Nothing
        had == peer \in DOMAIN peers
    IN  [trie     |-> Put(r.trie, p, Put(peers, peer, route)),
         prefixes |-> IF known THEN r.prefixes ELSE r.prefixes + 1,
         routes   |-> IF had THEN r.routes ELSE r.routes + 1]

\* saturating_sub(1).
Less(n) == IF n > 0 THEN n - 1 ELSE 0

\* Mutant: an emptied prefix stays in the trie.
WithdrawnKeepNode(r, p, peer) ==
    IF p \in DOMAIN r.trie /\ peer \in DOMAIN r.trie[p]
    THEN [trie |-> Put(r.trie, p, Drop(r.trie[p], peer)), prefixes |-> r.prefixes,
          routes |-> Less(r.routes)]
    ELSE r

\* Rib::withdraw.
Withdrawn(r, p, peer) ==
    IF p \in DOMAIN r.trie /\ peer \in DOMAIN r.trie[p]
    THEN IF DOMAIN r.trie[p] = {peer}
         THEN [trie |-> Drop(r.trie, p), prefixes |-> Less(r.prefixes),
               routes |-> Less(r.routes)]
         ELSE [trie |-> Put(r.trie, p, Drop(r.trie[p], peer)), prefixes |-> r.prefixes,
               routes |-> Less(r.routes)]
    ELSE r

\* apply_elem_rib_only.
Applied(r, s, p, route) ==
    IF route = Absent THEN Withdrawn(r, p, PeerAsn[s])
    ELSE Announced(r, p, PeerAsn[s], route)

\* The route the Rib has of a peer, or Absent.
At(r, p, peer) ==
    IF p \in DOMAIN r.trie /\ peer \in DOMAIN r.trie[p] THEN r.trie[p][peer] ELSE Absent

Init ==
    /\ table \in Table
    /\ log = <<>> /\ dump = Absent
    /\ mode \in {"rib", "updates", "skip"}
    /\ stage = "window"
    /\ todo = {} /\ applied = 0
    /\ rib = EmptyRib
    /\ left = Nothing /\ best = Nothing

-----------------------------------------------------------------------------
(* The collector during the window (external). *)

Hear(s, p, route) ==
    /\ stage = "window"
    /\ Len(log) < MaxChanges
    /\ table' = [table EXCEPT ![s][p] = route]
    /\ log' = Append(log, [session |-> s, prefix |-> p, route |-> route])
    /\ UNCHANGED <<dump, mode, stage, todo, applied, rib, left, best>>

\* Of several dumps the latest is the one select_rib_baseline takes.
Dump ==
    /\ stage = "window"
    /\ dump' = table
    /\ UNCHANGED <<table, log, mode, stage, todo, applied, rib, left, best>>

-----------------------------------------------------------------------------
(* build_snapshot. *)

Elements == {e \in Session \X Prefix : dump[e[1]][e[2]] # Absent}

\* The broker is asked for a dump and for update files; without a dump (one it fails to
\* list is no dump) updates mode goes on with updates only.
Plan ==
    /\ stage = "window"
    /\ IF mode # "skip" /\ dump # Absent
       THEN stage' = "dump" /\ todo' = Elements
       ELSE /\ mode # "rib" /\ log # <<>>
            /\ stage' = "updates"
            /\ UNCHANGED todo
    /\ UNCHANGED <<collector, mode, applied, rib, left, best>>

\* One element of the dump, in whatever order the dump has them.
LoadElement ==
    /\ stage = "dump"
    /\ \E e \in todo :
          /\ rib' = Applied(rib, e[1], e[2], dump[e[1]][e[2]])
          /\ todo' = todo \ {e}
    /\ UNCHANGED <<collector, mode, stage, applied, left, best>>

\* from_rib starts: every peer of every prefix is still to be looked at.
Collapse ==
    /\ stage' = "collapse"
    /\ left' = [p \in DOMAIN rib.trie |-> DOMAIN rib.trie[p]]
    /\ best' = [p \in DOMAIN rib.trie |-> Absent]

\* In updates mode the updates follow, unless the broker failed to list them
\* (unwrap_or_default).
DumpLoaded ==
    /\ stage = "dump"
    /\ todo = {}
    /\ \/ Collapse
       \/ mode # "rib" /\ stage' = "updates" /\ UNCHANGED <<left, best>>
    /\ UNCHANGED <<collector, mode, todo, applied, rib>>

\* Mutant: updates_seen > m.
MoreAndOne == applied < Len(log) /\ applied <= Cap

\* Updates are left, and the cap allows one more.
More == applied < Len(log) /\ applied < Cap

\* One update; those archived before the dump are applied to it as well.
ApplyUpdate ==
    /\ stage = "updates"
    /\ More
    /\ LET u == log[applied + 1] IN rib' = Applied(rib, u.session, u.prefix, u.route)
    /\ applied' = applied + 1
    /\ UNCHANGED <<collector, mode, stage, todo, left, best>>

UpdatesApplied ==
    /\ stage = "updates"
    /\ ~More
    /\ Collapse
    /\ UNCHANGED <<collector, mode, todo, applied, rib>>

\* The broker, a download or the lack of both ends build_snapshot with an error.
Fail ==
    /\ stage \in {"window", "dump", "updates"}
    /\ stage' = "failed"
    /\ UNCHANGED <<collector, mode, todo, applied, rib, left, best>>

\* Mutant: new_len >= cur_len alone.
PreferredLatest(p, new, cur) ==
    Len(rib.trie[p][new].path) >= Len(rib.trie[p][cur].path)

\* The longer AS path, then the lower peer ASN.
Preferred(p, new, cur) ==
    LET newLen == Len(rib.trie[p][new].path)
        curLen == Len(rib.trie[p][cur].path)
    IN  newLen > curLen \/ (newLen = curLen /\ new < cur)

\* from_rib looks at the next entry of a prefix, in the order of a HashMap.
Consider(p) ==
    /\ stage = "collapse"
    /\ \E peer \in left[p] :
          /\ left' = [left EXCEPT ![p] = @ \ {peer}]
          /\ best' = IF best[p] = Absent \/ Preferred(p, peer, best[p])
                     THEN [best EXCEPT ![p] = peer] ELSE best
    /\ UNCHANGED <<collector, mode, stage, todo, applied, rib>>

Finish ==
    /\ stage = "collapse"
    /\ \A p \in DOMAIN left : left[p] = {}
    /\ stage' = "done"
    /\ UNCHANGED <<collector, mode, todo, applied, rib, left, best>>

\* The snapshot: the preferred route of every prefix, unless it has no origin.
Snapshot ==
    [p \in {q \in DOMAIN best : rib.trie[q][best[q]].origin # Absent} |-> rib.trie[p][best[p]]]

Next ==
    \/ \E s \in Session, p \in Prefix, route \in Route \cup {Absent} : Hear(s, p, route)
    \/ Dump \/ Plan \/ LoadElement \/ DumpLoaded \/ ApplyUpdate \/ UpdatesApplied
    \/ \E p \in DOMAIN left : Consider(p)
    \/ Finish \/ Fail

Spec == Init /\ [][Next]_vars

-----------------------------------------------------------------------------
(* Properties. *)

IsTrie(t) ==
    /\ DOMAIN t \subseteq Prefix
    /\ \A p \in DOMAIN t : DOMAIN t[p] \subseteq Peer /\ t[p] \in [DOMAIN t[p] -> Route]

IsUpdate(u) ==
    u \in [session : Session, prefix : Prefix, route : Route \cup {Absent}]

\* Type correctness.
TypeOK ==
    /\ table \in Table
    /\ log \in Seq([session : Session, prefix : Prefix, route : Route \cup {Absent}])
    /\ Len(log) <= MaxChanges
    /\ dump \in Table \cup {Absent}
    /\ mode \in {"rib", "updates", "skip"}
    /\ stage \in {"window", "dump", "updates", "collapse", "done", "failed"}
    /\ todo \subseteq Session \X Prefix
    /\ applied \in 0..Len(log) /\ applied <= Cap
    /\ DOMAIN rib = {"trie", "prefixes", "routes"}
    /\ IsTrie(rib.trie) /\ rib.prefixes \in Nat /\ rib.routes \in Nat
    /\ DOMAIN left \subseteq Prefix /\ \A p \in DOMAIN left : left[p] \subseteq Peer
    /\ DOMAIN best = DOMAIN left /\ \A p \in DOMAIN best : best[p] \in Peer \cup {Absent}

\* The counters beside the trie never drift from it, and no prefix without a route
\* stays in it, over any sequence of announcements and withdrawals.
CountersAgree ==
    /\ rib.prefixes = Cardinality(DOMAIN rib.trie)
    /\ rib.routes = Cardinality({e \in Prefix \X Peer : At(rib, e[1], e[2]) # Absent})
    /\ \A p \in DOMAIN rib.trie : DOMAIN rib.trie[p] # {}

PeersDiffer == \A s, t \in Session : PeerAsn[s] = PeerAsn[t] => s = t

Built == stage \in {"collapse", "done"}

\* The program has read everything there was.
Uncapped == mode = "rib" \/ applied = Len(log)

Changed(s, p) == \E i \in 1..Len(log) : log[i].session = s /\ log[i].prefix = p

\* An uncapped reconstruction ends with the collector's table at the end of the
\* window, although it applies to the latest dump also the updates that preceded it
\* (plan_reconstruction, ingest_into_rib); updates alone give the routes that
\* changed; and --mode rib gives the dump.
RebuiltIsTable ==
    (Built /\ Uncapped /\ PeersDiffer) =>
        \A s \in Session, p \in Prefix :
            At(rib, p, PeerAsn[s]) =
                IF mode = "rib" THEN dump[s][p]
                ELSE IF Changed(s, p) \/ (mode = "updates" /\ dump # Absent) THEN table[s][p]
                ELSE Absent

\* The snapshot has the longest path of every prefix, of equally long ones that of
\* the lowest peer, whatever order the map of peers is read in (lib.rs:96).
SnapshotIsLongest ==
    stage = "done" => \A p \in DOMAIN rib.trie :
        /\ best[p] \in DOMAIN rib.trie[p]
        /\ \A peer \in DOMAIN rib.trie[p] \ {best[p]} :
              LET mine == Len(rib.trie[p][best[p]].path)
                  other == Len(rib.trie[p][peer].path)
              IN  other < mine \/ (other = mine /\ best[p] < peer)
        /\ p \in DOMAIN Snapshot <=> rib.trie[p][best[p]].origin # Absent
=============================================================================
