---------------------------- MODULE OrgMapRefresh ----------------------------
(***************************************************************************)
(* The org-map refresh: scripts/run-refresh-org-map.sh around the command  *)
(* build-org-map, which pages through PeeringDB's /net and /org             *)
(* (crates/bgp-map/src/peeringdb.rs), commits the orgs it found and writes *)
(* the dated JSON copy `current` points to.                                *)
(*                                                                         *)
(* The crawl takes an hour and PeeringDB is live: nets are registered and  *)
(* removed between two pages.  A net is its ASN.  Of an org row, `named`   *)
(* says whether /org knew the org (else its name is a placeholder), and    *)
(* its domains are left out.                                               *)
(***************************************************************************)
EXTENDS WorkTables, Sequences

CONSTANTS
    Net,           \* ASNs
    OrgOf,         \* ASN -> the org it is registered to
    Glue,          \* the ASNs of the glue list
    PageSize,      \* nets per page of /net
    ChunkSize,     \* ids per request of /org
    MaxPages,      \* --max-net-pages, or Absent when it is not given
    MaxRetries,    \* MAX_RETRIES
    Retain,        \* BGP_ORG_MAP_RETAIN
    Day,           \* UTC days
    MaxEdits,      \* bound: registrations and removals at PeeringDB
    MaxCrawls,     \* bound: refreshes started
    Torn           \* the contents of a file whose last write failed

VARIABLES
    listing,       \* /net, in the order the API lists it
    edits,         \* registrations and removals so far
    stage,         \* what the refresh does next, or "idle"
    day,           \* DATE_UTC of the refresh
    skip, pages,   \* the next page's offset, and pages fetched
    nets,          \* nets fetched
    todo, known,   \* org ids still to ask /org about, and the orgs it knew
    retries,       \* bad answers to the current request
    orgs,          \* the orgs table of the work database
    files,         \* day -> its JSON file [map, mtime], or NoFile
    current,       \* the day of the file the link `current` names, or Absent
    crawls,        \* refreshes started
    seen, stayed,  \* history: nets listed at some time, and all the time, since Start
    removed        \* history: a net was removed since Start

registry == <<listing, edits, seen, stayed, removed>>
crawl == <<day, skip, pages, nets, todo, known, retries>>
outputs == <<files, current>>
vars == <<listing, edits, stage, day, skip, pages, nets, todo, known, retries, orgs,
          files, current, crawls, seen, stayed, removed>>

Org == {OrgOf[n] : n \in Net}
OrgBody == [named : BOOLEAN, asns : SUBSET Net]
OrgRow == [body : OrgBody, live : BOOLEAN]

ASSUME OrgMapRefreshAssumption ==
    /\ DOMAIN OrgOf = Net
    /\ IsFiniteSet(Net)
    /\ Glue \subseteq Net
    /\ PageSize \in Nat \ {0} /\ ChunkSize \in Nat \ {0} /\ MaxPages \in Nat \cup {Absent}
    /\ MaxRetries \in Nat /\ Retain \in Nat
    /\ Day \subseteq Nat /\ Absent \notin Nat /\ Absent \notin OrgRow
    /\ MaxEdits \in Nat /\ MaxCrawls \in Nat

\* No such file: whatever was there counts for nothing.
NoFile == [map |-> Torn, mtime |-> 0]
Exists(d) == files[d].mtime > 0

Listed == {listing[i] : i \in DOMAIN listing}

Stages == {"idle", "nets", "orgs", "copy", "link", "retain"}

Init ==
    /\ listing = <<>> /\ edits = 0
    /\ stage = "idle"
    /\ day \in Day /\ \A d \in Day : day <= d
    /\ skip = 0 /\ pages = 0 /\ nets = {} /\ todo = {} /\ known = {} /\ retries = 0
    /\ orgs = EmptyTable(Org)
    /\ files = [d \in Day |-> NoFile] /\ current = Absent
    /\ crawls = 0
    /\ seen = {} /\ stayed = {} /\ removed = FALSE

-----------------------------------------------------------------------------
(* PeeringDB (external). *)

\* A network is registered; the API lists it anywhere.
Register(n) ==
    /\ n \notin Listed
    /\ edits < MaxEdits
    /\ \E at \in 1 .. Len(listing) + 1 :
           listing' = [i \in 1 .. Len(listing) + 1 |->
                          IF i < at THEN listing[i]
                          ELSE IF i = at THEN n ELSE listing[i - 1]]
    /\ edits' = edits + 1
    /\ seen' = seen \cup {n}
    /\ UNCHANGED <<stage, crawl, orgs, outputs, crawls, stayed, removed>>

\* A network is removed; those after it move up.
Unregister(n) ==
    /\ edits < MaxEdits
    /\ \E at \in DOMAIN listing :
          /\ listing[at] = n
          /\ listing' = [i \in 1 .. Len(listing) - 1 |->
                            IF i < at THEN listing[i] ELSE listing[i + 1]]
    /\ edits' = edits + 1
    /\ stayed' = stayed \ {n}
    /\ removed' = TRUE
    /\ UNCHANGED <<stage, crawl, orgs, outputs, crawls, seen>>

-----------------------------------------------------------------------------
(* The crawl. *)

\* run-refresh-org-map.sh takes its lock, and build-org-map starts.
Start(d) ==
    /\ stage = "idle"
    /\ crawls < MaxCrawls
    /\ d \in Day /\ d >= day
    /\ crawls' = crawls + 1
    /\ stage' = IF MaxPages = 0 THEN "orgs" ELSE "nets"
    /\ day' = d
    /\ skip' = 0 /\ pages' = 0 /\ nets' = {} /\ todo' = {} /\ known' = {} /\ retries' = 0
    /\ seen' = Listed /\ stayed' = Listed /\ removed' = FALSE
    /\ UNCHANGED <<listing, edits, orgs, outputs>>

\* Mutant: resp.data.len() <= page_size.
LastPageAlways(offset) == TRUE

\* resp.data.len() < page_size: there is no page after this one.
LastPage(offset) == Len(listing) - offset < PageSize

\* --max-net-pages ends the crawl after n pages.
Capped(n) == MaxPages # Absent /\ n >= MaxPages

\* Mutant: skip is not advanced.
Stuck(offset) == offset

Advanced(offset) == offset + PageSize

\* One round of fetch_all_nets: the page at `skip`, of the listing as it is now.
FetchPage ==
    /\ stage = "nets"
    /\ LET page == {listing[i] : i \in {j \in DOMAIN listing : skip < j /\ j <= skip + PageSize}}
           fetched == nets \cup page
           done == LastPage(skip) \/ Capped(pages + 1)
       IN  /\ nets' = fetched
           /\ pages' = pages + 1
           /\ skip' = IF done THEN skip ELSE Advanced(skip)
           /\ todo' = IF done THEN {OrgOf[n] : n \in fetched} ELSE {}
           /\ stage' = IF done THEN "orgs" ELSE "nets"
    /\ retries' = 0
    /\ UNCHANGED <<registry, day, known, orgs, outputs, crawls>>

\* One round of fetch_orgs_by_ids: /org answers with those of the ids it knows.
FetchOrgs ==
    /\ stage = "orgs"
    /\ todo # {}
    /\ \E chunk \in SUBSET todo :
          /\ Cardinality(chunk) <= ChunkSize
          /\ Cardinality(chunk) = ChunkSize \/ chunk = todo
          /\ \E answer \in SUBSET chunk : known' = known \cup answer
          /\ todo' = todo \ chunk
    /\ retries' = 0
    /\ UNCHANGED <<registry, stage, day, skip, pages, nets, orgs, outputs, crawls>>

\* Mutant: a count that starts over with the longest wait.
RetriedAfresh(n) == (n + 1) % MaxRetries

Retried(n) == n + 1

\* A 429 or a 5xx: wait and ask again, MaxRetries times; then bail.
BadAnswer ==
    /\ stage = "nets" \/ (stage = "orgs" /\ todo # {})
    /\ IF retries < MaxRetries
       THEN retries' = Retried(retries) /\ UNCHANGED stage
       ELSE stage' = "idle" /\ UNCHANGED retries
    /\ UNCHANGED <<registry, day, skip, pages, nets, todo, known, orgs, outputs, crawls>>

\* Mutant: glue kept as subjects.
SubjectsAll == nets

\* The fetched ASNs that is_subject accepts (prefix_count = None).
Subjects == nets \ Glue

\* build_org_map_from_peeringdb: the orgs with a subject, their subjects and name.
Crawled ==
    [o \in {OrgOf[n] : n \in Subjects} |->
        [named |-> o \in known, asns |-> {n \in Subjects : OrgOf[n] = o}]]

\* WorkDb::commit_org_map.
CommitOrgMap ==
    /\ stage = "orgs" /\ todo = {}
    /\ IF DOMAIN Crawled = {}
       THEN stage' = "idle" /\ UNCHANGED orgs        \* bail
       ELSE stage' = "copy" /\ orgs' = Sync(orgs, Crawled, Org)
    /\ UNCHANGED <<registry, crawl, outputs, crawls>>

-----------------------------------------------------------------------------
(* The copy. *)

\* write_org_map_json to a temporary name, then mv over the day's file.  The last
\* buffer is written when the BufWriter drops, which hides a failure.
Publish ==
    /\ stage = "copy"
    /\ \E map \in {Crawled, Torn} :
           files' = [files EXCEPT ![day] = [map |-> map, mtime |-> crawls]]
    /\ stage' = "link"
    /\ UNCHANGED <<registry, crawl, orgs, current, crawls>>

\* ln -sfn to current.tmp, then mv over `current`.
Link ==
    /\ stage = "link"
    /\ current' = day
    /\ stage' = "retain"
    /\ UNCHANGED <<registry, crawl, orgs, files, crawls>>

Newer(d) == {e \in Day : files[e].mtime > files[d].mtime}

\* Mutant: ls -1tr, the oldest first.
ExpiredFromOldest ==
    {d \in Day : Exists(d) /\ Newer(d) = {} /\ Cardinality({e \in Day : Exists(e)}) > Retain}

\* The file in place Retain + 1 of ls -1t, which the loop removes next.
Expired == {d \in Day : Exists(d) /\ Cardinality(Newer(d)) = Retain}

\* One rm of the retention loop, or the end of the script.
RetainNewest ==
    /\ stage = "retain"
    /\ \/ \E d \in Expired : files' = [files EXCEPT ![d] = NoFile] /\ UNCHANGED stage
       \/ Expired = {} /\ stage' = "idle" /\ UNCHANGED files
    /\ UNCHANGED <<registry, crawl, orgs, current, crawls>>

\* A network error, any other Err, a kill or the unit's timeout: set -e ends the
\* script where it is.
Abort ==
    /\ stage # "idle"
    /\ stage' = "idle"
    /\ UNCHANGED <<registry, crawl, orgs, outputs, crawls>>

Step == FetchPage \/ FetchOrgs \/ BadAnswer \/ CommitOrgMap \/ Publish \/ Link \/ RetainNewest

Next ==
    \/ \E n \in Net : Register(n) \/ Unregister(n)
    \/ \E d \in Day : Start(d)
    \/ Step \/ Abort

Spec == Init /\ [][Next]_vars

\* A request is answered or times out (120 s), and a live process runs on.
FairSpec == Spec /\ WF_vars(Step)

-----------------------------------------------------------------------------
(* Properties. *)

\* A map of some orgs, or what a failed write left of one.
IsMap(m) == m = Torn \/ (DOMAIN m \subseteq Org /\ m \in [DOMAIN m -> OrgBody])

IsFile(f) == DOMAIN f = {"map", "mtime"} /\ f.mtime \in 0..crawls /\ IsMap(f.map)

\* Type correctness.
TypeOK ==
    /\ listing \in Seq(Net) /\ edits \in 0..MaxEdits
    /\ stage \in Stages /\ day \in Day
    /\ pages \in Nat /\ skip \in Nat
    /\ nets \subseteq Net /\ todo \subseteq Org /\ known \subseteq Org
    /\ retries \in 0..MaxRetries
    /\ orgs \in [Org -> OrgRow \cup {Absent}]
    /\ DOMAIN files = Day
    /\ \A d \in Day : IsFile(files[d])
    /\ current \in Day \cup {Absent}
    /\ crawls \in 0..MaxCrawls
    /\ seen \subseteq Net /\ stayed \subseteq Net /\ removed \in BOOLEAN

\* The refresh has committed what it crawled.
Committed == stage \in {"copy", "link", "retain"}

\* The crawl ended with a short page, not at --max-net-pages.
Uncapped == ~Capped(pages)

\* The orgs a reader loads have the ASN n.
Attributed(n) ==
    /\ OrgOf[n] \in LiveKeys(orgs)
    /\ n \in orgs[OrgOf[n]].body.asns

\* After a commit the live orgs hold nothing from an earlier crawl and no glue: each
\* has an ASN, and each of its ASNs was listed by PeeringDB at some time in this
\* crawl (the soft delete and build_org_map_from_peeringdb together).
NothingStale ==
    Committed => \A o \in LiveKeys(orgs) :
        /\ orgs[o].body.asns # {}
        /\ \A n \in orgs[o].body.asns : OrgOf[n] = o /\ n \in seen \ Glue

\* When PeeringDB only grew during the crawl, no ASN that was listed all along was
\* missed, wherever new ones came in between two pages (fetch_all_nets: a page is
\* an offset into the listing of its moment).
NothingSkipped ==
    (Committed /\ Uncapped /\ ~removed) => \A n \in stayed \ Glue : Attributed(n)

\* The link `current` never dangles, whenever the script is stopped: unless
\* BGP_ORG_MAP_RETAIN is 0, which removes every map there is.
CurrentExists == (current # Absent /\ Retain # 0) => Exists(current)

\* At the end the file behind `current` is the map the daily job will load, or torn.
CopyIsSpine ==
    stage = "retain" => /\ current = day
                        /\ files[day].map \in {Torn, Live(orgs)}

\* A crawl asks for no more pages than the nets PeeringDB listed in its course fill, and
\* one: no page is asked for twice, although /net has no end mark but a short page and
\* grows and shrinks while it is read (fetch_all_nets).
PagesBounded == (pages - 1) * PageSize <= Cardinality(seen)

\* A refresh ends, also when PeeringDB answers 429 for ever ("give-up after 12
\* retries", DAILY_OPS.md:207).
RefreshEnds == stage # "idle" ~> stage = "idle"

\* From a doc: "deletes are visible, there is no cursor/race surface" (ORG_MAP.md:18):
\* an uncapped crawl misses no ASN that was listed all along.
NoRaceSurface == (Committed /\ Uncapped) => \A n \in stayed \ Glue : Attributed(n)
=============================================================================
