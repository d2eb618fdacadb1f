---------------------------- MODULE CyberAnalyze ----------------------------
(***************************************************************************)
(* The optional security analysis (run_analyze, commands/cyber.rs): it     *)
(* loads ROAs into a trie (bgp-rpki), replays a dump and the updates after *)
(* it, validates the origin of every announcement, walks the AS path of    *)
(* every announcement among the updates for a route leak (bgp-detect), and *)
(* collects the alerts.                                                    *)
(*                                                                         *)
(* A prefix is the sequence of its bits.  The relationships between ASNs   *)
(* are those of the Topology of the valley-free library (external).  The   *)
(* walk over a path is a step per hop, since its phase and its two flags   *)
(* are the state the verdict is read from; everything else of an element   *)
(* is one step.  What the Rib does with a route is RibReplay's subject:    *)
(* here it keeps the origin state of the last one.                         *)
(***************************************************************************)
EXTENDS Integers, Sequences, FiniteSets

CONSTANTS
    Asn,
    Providers, Customers, Peers,  \* ASN -> the ASNs of that relationship to it
    Net,         \* prefixes, as sequences of bits
    Roa,         \* ROAs [net, max, origin]
    Element,     \* elements [prefix, peer, path, origin, withdrawn]
    Cap,         \* --max-updates; more than MaxUpdates when it is not given
    MaxRoas,     \* bound: ROAs in the file
    MaxElements, \* bound: elements in the dump
    MaxUpdates,  \* bound: updates
    Absent       \* no element, no origin, no verdict yet

VARIABLES
    stage,
    roas,        \* history: the ROAs read
    trie,        \* net -> the ROAs of that very net
    rib,         \* (prefix, peer) -> [origin, rpki] of the route, or Absent
    loaded,      \* elements of the dump read
    heard,       \* history: the updates read, Len(heard) = updates_seen
    walk,        \* the announcement under way, or Absent
    alerts       \* alerts [update, rpki, verdict]; update is a place in heard

vars == <<stage, roas, trie, rib, loaded, heard, walk, alerts>>

Peer == {e.peer : e \in Element}
Key == Net \X Peer

\* check_as_path on its way: the place reached, its phase and its flags.
Phase == {"up", "peer", "down"}
Walk == [at : Nat, phase : Phase, incomplete : BOOLEAN, leak : BOOLEAN]

ASSUME CyberAnalyzeAssumption ==
    /\ DOMAIN Providers = Asn /\ DOMAIN Customers = Asn /\ DOMAIN Peers = Asn
    /\ \A r \in Roa : r = [net |-> r.net, max |-> r.max, origin |-> r.origin]
    /\ \A r \in Roa : r.net \in Net /\ r.max \in Nat
    /\ \A n \in Net : Len(n) \in Nat
    /\ \A e \in Element :
          /\ e.prefix \in Net /\ e.path \in Seq(Asn)
          /\ e.origin \in Asn \cup {Absent} /\ e.withdrawn \in BOOLEAN
    /\ Cap \in Nat /\ MaxRoas \in Nat /\ MaxElements \in Nat /\ MaxUpdates \in Nat
    /\ Absent \notin Asn /\ Absent \notin Walk

Init ==
    /\ stage = "roas" /\ roas = {}
    /\ trie = [n \in {} |-> {}]
    /\ rib = [k \in Key |-> Absent]
    /\ loaded = 0 /\ heard = <<>>
    /\ walk = Absent /\ alerts = <<>>

-----------------------------------------------------------------------------
(* Route origin validation. *)

\* Mutant: a second ROA of a net replaces the first.
InsertedLast(t, r) ==
    [n \in DOMAIN t \cup {r.net} |-> IF n = r.net THEN {r} ELSE t[n]]

\* RoasTrie::insert.
Inserted(t, r) ==
    [n \in DOMAIN t \cup {r.net} |->
        IF n # r.net THEN t[n] ELSE IF n \in DOMAIN t THEN t[n] \cup {r} ELSE {r}]

\* load_roas, one row.
LoadRoa(r) ==
    /\ stage = "roas"
    /\ Cardinality(roas) < MaxRoas
    /\ trie' = Inserted(trie, r)
    /\ roas' = roas \cup {r}
    /\ UNCHANGED <<stage, rib, loaded, heard, walk, alerts>>

Covers(larger, smaller) ==
    Len(larger) <= Len(smaller) /\ \A i \in 1..Len(larger) : larger[i] = smaller[i]

Matches(p) == {n \in DOMAIN trie : Covers(n, p)}

\* RoasTrie::validate; an announcement without an origin is unknown.
Validate(p, origin) ==
    IF origin = Absent \/ Matches(p) = {} THEN "unknown"
    ELSE IF \E n \in Matches(p) : \E r \in trie[n] :
                r.origin = origin /\ Len(p) >= Len(r.net) /\ Len(p) <= r.max /\ Covers(r.net, p)
         THEN "valid" ELSE "invalid"

-----------------------------------------------------------------------------
(* Elements. *)

Origin(e) ==
    IF e.origin # Absent THEN e.origin
    ELSE IF e.path = <<>> THEN Absent ELSE e.path[Len(e.path)]

\* The Rib after apply_elem_cyber.
RibAfter(e) ==
    [rib EXCEPT ![<<e.prefix, e.peer>>] =
        IF e.withdrawn THEN Absent
        ELSE [origin |-> Origin(e), rpki |-> Validate(e.prefix, Origin(e))]]

\* A dump is found, or the analysis goes on with updates alone.
Plan ==
    /\ stage = "roas"
    /\ stage' \in {"dump", "updates"}
    /\ UNCHANGED <<roas, trie, rib, loaded, heard, walk, alerts>>

\* An element of the dump gives no alert.
LoadElement(e) ==
    /\ stage = "dump" /\ ~e.withdrawn
    /\ loaded < MaxElements
    /\ loaded' = loaded + 1
    /\ rib' = RibAfter(e)
    /\ UNCHANGED <<stage, roas, trie, heard, walk, alerts>>

\* Without update files (also when the broker fails to list them) it is over.
DumpLoaded ==
    /\ stage = "dump"
    /\ stage' \in {"updates", "done"}
    /\ UNCHANGED <<roas, trie, rib, loaded, heard, walk, alerts>>

\* Mutant: updates_seen > m.
MoreAndOne == Len(heard) <= Cap

\* The cap, tested before every update.
More == Len(heard) < Cap

\* An update; an announcement is walked from its origin, the end of its path.
Update(e) ==
    /\ stage = "updates" /\ walk = Absent
    /\ More /\ Len(heard) < MaxUpdates
    /\ heard' = Append(heard, e)
    /\ rib' = RibAfter(e)
    /\ walk' = IF e.withdrawn THEN Absent
               ELSE [at |-> Len(e.path), phase |-> "up", incomplete |-> FALSE, leak |-> FALSE]
    /\ UNCHANGED <<stage, roas, trie, loaded, alerts>>

-----------------------------------------------------------------------------
(* The walk. *)

\* relationship.
Relationship(from, to) ==
    IF to \in Providers[from] THEN "up"
    ELSE IF to \in Customers[from] THEN "down"
    ELSE IF to \in Peers[from] THEN "peer" ELSE "none"

\* The hop of a path from place i + 1 to place i; prepending is no hop.
HopAt(path, i) == IF path[i + 1] = path[i] THEN "same" ELSE Relationship(path[i + 1], path[i])

\* Mutant: after an unknown hop the route may climb again.
SteppedAfresh(w, hop) ==
    IF hop = "same" THEN w
    ELSE IF hop = "none" THEN [w EXCEPT !.incomplete = TRUE, !.phase = "up"]
    ELSE IF w.phase = "up" THEN [w EXCEPT !.phase = hop]
    ELSE IF hop = "down" THEN [w EXCEPT !.phase = "down"]
    ELSE [w EXCEPT !.leak = TRUE]

\* One hop: uphill first, at most one peer, downhill then.
Stepped(w, hop) ==
    IF hop = "same" THEN w
    ELSE IF hop = "none" THEN [w EXCEPT !.incomplete = TRUE]
    ELSE IF w.phase = "up" THEN [w EXCEPT !.phase = hop]
    ELSE IF hop = "down" THEN [w EXCEPT !.phase = "down"]
    ELSE [w EXCEPT !.leak = TRUE]

Last == heard[Len(heard)]

Hop ==
    /\ walk # Absent /\ ~walk.leak /\ walk.at > 1
    /\ walk' = [Stepped(walk, HopAt(Last.path, walk.at - 1)) EXCEPT !.at = walk.at - 1]
    /\ UNCHANGED <<stage, roas, trie, rib, loaded, heard, alerts>>

TooShort(path) == \A i \in 1..Len(path) - 1 : path[i] = path[i + 1]

Verdict ==
    IF TooShort(Last.path) THEN "too_short"
    ELSE IF walk.leak THEN "leak_suspected"
    ELSE IF walk.incomplete THEN "incomplete" ELSE "valley_free"

\* check_as_path returns, and maybe_alert.
Judge ==
    /\ walk # Absent /\ (walk.leak \/ walk.at <= 1)
    /\ LET state == Validate(Last.prefix, Origin(Last))
       IN  alerts' = IF state = "invalid" \/ Verdict = "leak_suspected"
                     THEN Append(alerts, [update |-> Len(heard), rpki |-> state, verdict |-> Verdict])
                     ELSE alerts
    /\ walk' = Absent
    /\ UNCHANGED <<stage, roas, trie, rib, loaded, heard>>

Finish ==
    /\ stage = "updates" /\ walk = Absent
    /\ stage' = "done"
    /\ UNCHANGED <<roas, trie, rib, loaded, heard, walk, alerts>>

\* The ROA file, the broker or a download ends it with an error and no alert file.
Fail ==
    /\ stage \in {"roas", "dump", "updates"} /\ walk = Absent
    /\ stage' = "failed"
    /\ UNCHANGED <<roas, trie, rib, loaded, heard, walk, alerts>>

Next ==
    \/ \E r \in Roa : LoadRoa(r)
    \/ Plan
    \/ \E e \in Element : LoadElement(e) \/ Update(e)
    \/ DumpLoaded \/ Hop \/ Judge \/ Finish \/ Fail

Spec == Init /\ [][Next]_vars

-----------------------------------------------------------------------------
(* Properties. *)

RouteState == [origin : Asn \cup {Absent}, rpki : {"valid", "invalid", "unknown"}]
Alert == [update : Nat, rpki : {"valid", "invalid", "unknown"},
          verdict : {"too_short", "leak_suspected", "incomplete", "valley_free"}]

\* Type correctness; the cap is kept.
TypeOK ==
    /\ stage \in {"roas", "dump", "updates", "done", "failed"}
    /\ roas \subseteq Roa
    /\ DOMAIN trie \subseteq Net /\ \A n \in DOMAIN trie : trie[n] \subseteq Roa
    /\ rib \in [Key -> RouteState \cup {Absent}]
    /\ loaded \in 0..MaxElements
    /\ heard \in Seq(Element) /\ Len(heard) <= Cap /\ Len(heard) <= MaxUpdates
    /\ walk \in Walk \cup {Absent}
    /\ alerts \in Seq(Alert)

\* RFC 6811, over the ROAs as a set and without a trie.
Rov(p, origin) ==
    LET covering == {r \in roas : Covers(r.net, p)}
    IN  IF origin = Absent \/ covering = {} THEN "unknown"
        ELSE IF \E r \in covering : r.origin = origin /\ Len(p) <= r.max
             THEN "valid" ELSE "invalid"

\* Every route the Rib holds, from the dump or from an update, has the origin state
\* the ROAs give it: several ROAs of one net, or of nets inside one another, all count.
RovIsExact ==
    \A k \in Key : rib[k] # Absent => rib[k].rpki = Rov(k[1], rib[k].origin)

\* A path is a leak when somewhere it goes sideways or down and, nearer to the
\* observer, sideways or up, whatever unknown hops lie between.
Leak(path) ==
    \E i, j \in 1..Len(path) - 1 :
        j < i /\ HopAt(path, i) \in {"peer", "down"} /\ HopAt(path, j) \in {"peer", "up"}

Judged(i) == i < Len(heard) \/ walk = Absent

Alarming(e) == ~e.withdrawn /\ (Rov(e.prefix, Origin(e)) = "invalid" \/ Leak(e.path))

\* One alert for every judged update that deserves one, in the order of the updates,
\* and no other; and the verdict it carries is that of its path.
AlertsAreExact ==
    /\ {alerts[n].update : n \in 1..Len(alerts)} =
           {i \in 1..Len(heard) : Judged(i) /\ Alarming(heard[i])}
    /\ \A m, n \in 1..Len(alerts) : m < n => alerts[m].update < alerts[n].update
    /\ \A n \in 1..Len(alerts) :
          LET e == heard[alerts[n].update]
          IN  /\ alerts[n].verdict = "leak_suspected" <=> Leak(e.path)
              /\ alerts[n].verdict = "incomplete" =>
                    \E i \in 1..Len(e.path) - 1 : HopAt(e.path, i) = "none"
              /\ alerts[n].rpki = Rov(e.prefix, Origin(e))
=============================================================================
