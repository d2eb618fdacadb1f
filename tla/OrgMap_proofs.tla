---------------------------- MODULE OrgMap_proofs ----------------------------
(***************************************************************************)
(* Proofs about the org map: how a refresh writes it (OrgMapRefresh), for  *)
(* every set of networks and days, every page size and every course of     *)
(* registrations; and what a command makes of it in memory (OrgIndex), for *)
(* any files, rows, overlays and watchlist.                                *)
(*                                                                         *)
(* Of the refresh the invariant is Inv: Ahead says where the networks not  *)
(* fetched yet stand in the listing, Paged that the offset has come no     *)
(* further than networks were seen, the other parts what the commit, the   *)
(* copy and the link have left.                                            *)
(*                                                                         *)
(* Of the index it is IndexInv.  LoadInv speaks of the records inserted so *)
(* far: an ASN's first id is the claim that counts (HeadOK), an org's      *)
(* record the last one inserted (KnownOK).  WatchOK is about the           *)
(* watchlist.  What a line does depends on what the lines before it did,   *)
(* so the domains they explain are a recursive function, which is followed *)
(* line by line (Tracks): a function that satisfies the recursion so far   *)
(* exists, and each one gives the domains the org has by now.              *)
(***************************************************************************)
EXTENDS OrgMapRefresh, OrgIndex, FiniteSetTheorems, TLAPS

-----------------------------------------------------------------------------
(* The refresh: what the invariant says. *)

\* What is listed was seen, and a refresh under way fetched only what it saw.
Seen ==
    /\ Listed \subseteq seen
    /\ stage # "idle" => nets \subseteq seen /\ crawls >= 1

\* The heart of NothingSkipped: as long as nothing was removed, an ASN that was
\* listed all along has been fetched or stands past the offset; once the last page
\* was short, it has been fetched.
Ahead ==
    /\ stage = "nets" => Uncapped
    /\ (stage = "nets" /\ ~removed) =>
          \A n \in stayed : \/ n \in nets
                            \/ \E i \in DOMAIN listing : skip < i /\ listing[i] = n
    /\ ((stage = "orgs" \/ Committed) /\ Uncapped /\ ~removed) => stayed \subseteq nets

\* PeeringDB lists a network once.
ListedOnce == \A i, j \in DOMAIN listing : listing[i] = listing[j] => i = j

\* Every page so far but the last was full when it was read.
Paged ==
    /\ stage = "nets" => skip = pages * PageSize /\ pages * PageSize <= Cardinality(seen)
    /\ PagesBounded

\* After the commit the live orgs are the crawled ones, with the crawled bodies.
Faithful == Committed => /\ LiveKeys(orgs) = DOMAIN Crawled
                         /\ \A o \in DOMAIN Crawled : orgs[o].body = Crawled[o]

\* The file written last is this refresh's, until a retention of 0 removes even that.
Copied ==
    /\ stage = "link" \/ (stage = "retain" /\ Retain # 0) =>
          Exists(day) /\ files[day].mtime = crawls
    /\ stage \in {"link", "retain"} => files[day].map \in {Torn, Crawled}
    /\ stage = "retain" => current = day

Inv == TypeOK /\ Seen /\ ListedOnce /\ Ahead /\ Paged /\ Faithful /\ Copied /\ CurrentExists

USE OrgMapRefreshAssumption

\* What a refresh crawled is a map of orgs, whatever it fetched.
LEMMA CrawledType ==
    ASSUME nets \subseteq Net
    PROVE  DOMAIN Crawled \subseteq Org /\ \A o \in DOMAIN Crawled : Crawled[o] \in OrgBody
  BY DEF Crawled, Subjects, Org, OrgBody

\* A refresh that moves on to other data leaves the crawled map alone.
LEMMA SameCrawled ==
    ASSUME UNCHANGED <<nets, known>>
    PROVE  Crawled' = Crawled
  BY DEF Crawled, Subjects

LEMMA FileType ==
    ASSUME NEW m, IsMap(m), NEW t \in 0..crawls
    PROVE  /\ IsFile([map |-> m, mtime |-> t])
           /\ [map |-> m, mtime |-> t].mtime = t /\ [map |-> m, mtime |-> t].map = m
  BY DEF IsFile

LEMMA NoFileType ==
    ASSUME crawls \in Nat
    PROVE  IsFile(NoFile) /\ NoFile.mtime = 0
<1>1. IsMap(Torn) /\ 0 \in 0..crawls
  BY DEF IsMap
<1> QED  BY <1>1 DEF IsFile, NoFile

LEMMA InitInv == Init => Inv
<1> SUFFICES ASSUME Init PROVE Inv
  OBVIOUS
<1>1. orgs \in [Org -> OrgRow \cup {Absent}]
  BY DEF Init, EmptyTable
<1>2. DOMAIN files = Day /\ \A d \in Day : IsFile(files[d])
  BY NoFileType DEF Init
<1>3. listing \in Seq(Net) /\ DOMAIN listing = {}
  BY DEF Init
<1>4. TypeOK
  <2>1. edits \in 0..MaxEdits /\ pages \in Nat /\ skip \in Nat
    BY DEF Init
  <2>2. retries \in 0..MaxRetries /\ crawls \in 0..MaxCrawls
    BY DEF Init
  <2>3. stage \in Stages /\ day \in Day /\ current \in Day \cup {Absent} /\ removed \in BOOLEAN
    BY DEF Init, Stages
  <2>4. nets \subseteq Net /\ todo \subseteq Org /\ known \subseteq Org
        /\ seen \subseteq Net /\ stayed \subseteq Net
    BY DEF Init
  <2> QED  BY <1>1, <1>2, <1>3, <2>1, <2>2, <2>3, <2>4 DEF TypeOK
<1>5. Seen /\ Ahead
  BY <1>3 DEF Init, Seen, Ahead, Committed, Listed
<1>6. Faithful /\ Copied /\ CurrentExists
  BY DEF Init, Faithful, Copied, CurrentExists, Committed
<1>7. ListedOnce
  BY <1>3 DEF ListedOnce
<1>8. Paged
  <2>1. stage = "idle" /\ pages = 0 /\ Cardinality(seen) = 0
    BY FS_EmptySet DEF Init
  <2>2. (0 - 1) * PageSize <= 0
    OBVIOUS
  <2> QED  BY <2>1, <2>2 DEF Paged, PagesBounded
<1> QED  BY <1>4, <1>5, <1>6, <1>7, <1>8 DEF Inv

-----------------------------------------------------------------------------
(* PeeringDB changes its listing. *)

\* An insertion keeps every listed ASN, none nearer to the start.
LEMMA RegisterListing ==
    ASSUME listing \in Seq(Net), ListedOnce, NEW n \in Net, Register(n)
    PROVE  /\ listing' \in Seq(Net) /\ ListedOnce'
           /\ Listed' = Listed \cup {n}
           /\ \A i \in DOMAIN listing : \E j \in DOMAIN listing' :
                 i <= j /\ listing'[j] = listing[i]
<1>1. PICK at \in 1 .. Len(listing) + 1 :
          listing' = [i \in 1 .. Len(listing) + 1 |->
                         IF i < at THEN listing[i]
                         ELSE IF i = at THEN n ELSE listing[i - 1]]
  BY DEF Register
<1>2. /\ Len(listing) \in Nat /\ DOMAIN listing = 1 .. Len(listing)
      /\ \A i \in 1 .. Len(listing) : listing[i] \in Net
  OBVIOUS
<1>3. DOMAIN listing' = 1 .. Len(listing) + 1
  BY <1>1
<1>4. \A i \in 1 .. Len(listing) + 1 : listing'[i] \in Net
  BY <1>1, <1>2
<1>5. listing' \in Seq(Net)
  BY <1>1, <1>2, <1>4
<1>6. ASSUME NEW i \in DOMAIN listing
      PROVE  \E j \in DOMAIN listing' : i <= j /\ listing'[j] = listing[i]
  <2>1. CASE i < at
    BY <1>1, <1>2, <2>1
  <2>2. CASE at <= i
    <3>1. i + 1 \in 1 .. Len(listing) + 1 /\ ~(i + 1 < at) /\ i + 1 # at /\ (i + 1) - 1 = i
      BY <1>2, <2>2
    <3>2. listing'[i + 1] = listing[i]
      BY <1>1, <3>1
    <3> QED  BY <1>2, <1>3, <3>1, <3>2
  <2> QED  BY <1>2, <2>1, <2>2
<1>7. Listed' \subseteq Listed \cup {n}
  <2>1. ASSUME NEW j \in 1 .. Len(listing) + 1
        PROVE  listing'[j] \in Listed \cup {n}
    <3>1. CASE j < at
      BY <1>1, <1>2, <3>1 DEF Listed
    <3>2. CASE j = at
      BY <1>1, <3>2
    <3>3. CASE j > at
      <4>1. j - 1 \in 1 .. Len(listing) /\ ~(j < at) /\ j # at
        BY <1>2, <3>3
      <4> QED  BY <1>1, <1>2, <4>1 DEF Listed
    <3> QED  BY <3>1, <3>2, <3>3
  <2> QED  BY <1>3, <2>1 DEF Listed
<1>8. n \in Listed'
  BY <1>1, <1>2, <1>3 DEF Listed
<1>9. Listed \subseteq Listed'
  BY <1>6 DEF Listed
<1>10. ListedOnce'
  <2>1. \A i \in DOMAIN listing : listing[i] # n
    BY DEF Register, Listed
  <2>2. ASSUME NEW i \in 1 .. Len(listing) + 1, i # at
        PROVE  LET k == IF i < at THEN i ELSE i - 1
               IN  k \in DOMAIN listing /\ listing'[i] = listing[k] /\ listing'[i] # n
    BY <1>1, <1>2, <2>1, <2>2
  <2>3. listing'[at] = n
    BY <1>1, <1>2
  <2>4. ASSUME NEW i \in 1 .. Len(listing) + 1, NEW j \in 1 .. Len(listing) + 1,
               listing'[i] = listing'[j]
        PROVE  i = j
    <3>1. CASE i = at \/ j = at
      BY <2>2, <2>3, <2>4, <3>1
    <3>2. CASE i # at /\ j # at
      <4> DEFINE k(h) == IF h < at THEN h ELSE h - 1
      <4>1. /\ k(i) \in DOMAIN listing /\ listing'[i] = listing[k(i)]
            /\ k(j) \in DOMAIN listing /\ listing'[j] = listing[k(j)]
        BY <2>2, <3>2
      <4>2. k(i) = k(j)
        BY <4>1, <2>4 DEF ListedOnce
      <4> QED  BY <1>2, <3>2, <4>2
    <3> QED  BY <3>1, <3>2
  <2> QED  BY <1>3, <2>4 DEF ListedOnce
<1> QED  BY <1>5, <1>6, <1>7, <1>8, <1>9, <1>10

LEMMA UnregisterListing ==
    ASSUME listing \in Seq(Net), ListedOnce, NEW n \in Net, Unregister(n)
    PROVE  listing' \in Seq(Net) /\ ListedOnce' /\ Listed' \subseteq Listed
<1>1. PICK at \in DOMAIN listing :
          listing' = [i \in 1 .. Len(listing) - 1 |->
                         IF i < at THEN listing[i] ELSE listing[i + 1]]
  BY DEF Unregister
<1>2. /\ Len(listing) \in Nat /\ DOMAIN listing = 1 .. Len(listing)
      /\ \A i \in 1 .. Len(listing) : listing[i] \in Net
  OBVIOUS
<1>3. Len(listing) - 1 \in Nat
  BY <1>2
<1>4. ASSUME NEW i \in 1 .. Len(listing) - 1
      PROVE  listing'[i] \in Net /\ listing'[i] \in Listed
  <2>1. /\ i \in 1 .. Len(listing) /\ i + 1 \in 1 .. Len(listing)
        /\ listing'[i] = IF i < at THEN listing[i] ELSE listing[i + 1]
    BY <1>1, <1>2
  <2> QED  BY <1>2, <2>1 DEF Listed
<1>5. listing' \in Seq(Net)
  BY <1>1, <1>3, <1>4
<1>6. ListedOnce'
  <2>1. ASSUME NEW i \in 1 .. Len(listing) - 1, NEW j \in 1 .. Len(listing) - 1,
               listing'[i] = listing'[j]
        PROVE  i = j
    <3> DEFINE k(h) == IF h < at THEN h ELSE h + 1
    <3>1. /\ k(i) \in DOMAIN listing /\ listing'[i] = listing[k(i)]
          /\ k(j) \in DOMAIN listing /\ listing'[j] = listing[k(j)]
      BY <1>1, <1>2
    <3>2. k(i) = k(j)
      BY <3>1, <2>1 DEF ListedOnce
    <3> QED  BY <1>2, <3>2
  <2> QED  BY <1>1, <2>1 DEF ListedOnce
<1> QED  BY <1>1, <1>4, <1>5, <1>6 DEF Listed

\* A listing is no longer than the networks seen are many.
LEMMA SeenSize ==
    ASSUME TypeOK, Seen, ListedOnce
    PROVE  Cardinality(seen) \in Nat /\ Len(listing) <= Cardinality(seen)
<1>1. IsFiniteSet(seen) /\ Cardinality(seen) \in Nat
  BY FS_Subset, FS_CardinalityType DEF TypeOK
<1>2. Len(listing) \in Nat /\ DOMAIN listing = 1 .. Len(listing)
      /\ \A i \in 1 .. Len(listing) : listing[i] \in seen
  BY DEF TypeOK, Seen, Listed
<1>3. listing \in Injection(1 .. Len(listing), seen)
  BY <1>2 DEF ListedOnce, Injection, IsInjective, TypeOK
<1>4. Cardinality(1 .. Len(listing)) <= Cardinality(seen)
  BY <1>1, <1>3, FS_Injection
<1>5. Cardinality(1 .. Len(listing)) = Len(listing)
  BY <1>2, FS_Interval
<1> QED  BY <1>1, <1>4, <1>5

LEMMA Rounds ==
    ASSUME NEW n \in Nat, NEW t \in Nat
    PROVE  n * t \in Nat /\ (n + 1) * t = n * t + t
OBVIOUS

-----------------------------------------------------------------------------
(* What a step leaves alone. *)

FilesOK == DOMAIN files = Day /\ \A d \in Day : IsFile(files[d])

LEMMA SameFiles ==
    ASSUME FilesOK, UNCHANGED <<files, crawls>>
    PROVE  FilesOK'
  BY DEF FilesOK, IsFile, IsMap

LEMMA SameOrgs ==
    ASSUME Faithful, UNCHANGED <<orgs, nets, known>>, Committed' => Committed
    PROVE  Faithful'
<1>1. Crawled' = Crawled
  BY SameCrawled
<1>2. LiveKeys(orgs)' = LiveKeys(orgs)
  BY DEF LiveKeys
<1> QED  BY <1>1, <1>2 DEF Faithful

LEMMA SameOutputs ==
    ASSUME Copied, CurrentExists, UNCHANGED <<files, current, crawls, day, nets, known>>,
           stage' \in {"link", "retain"} => stage' = stage
    PROVE  Copied' /\ CurrentExists'
<1>1. Crawled' = Crawled
  BY SameCrawled
<1> QED  BY <1>1 DEF Copied, CurrentExists, Exists

LEMMA SamePages ==
    ASSUME ListedOnce, Paged, UNCHANGED <<listing, seen, skip, pages>>,
           stage' = "nets" => stage = "nets"
    PROVE  ListedOnce' /\ Paged'
  BY DEF ListedOnce, Paged, PagesBounded

-----------------------------------------------------------------------------
(* Every action preserves the invariant. *)

LEMMA RegisterStep ==
    ASSUME Inv, NEW n \in Net, Register(n)
    PROVE  Inv'
<1> USE DEF Inv
<1>1. /\ listing \in Seq(Net) /\ listing' \in Seq(Net) /\ Listed' = Listed \cup {n} /\ ListedOnce'
      /\ \A i \in DOMAIN listing : \E j \in DOMAIN listing' :
            i <= j /\ listing'[j] = listing[i]
      /\ DOMAIN listing \subseteq Nat /\ DOMAIN listing' \subseteq Nat
  BY RegisterListing DEF TypeOK
<1>2. FilesOK'
  BY SameFiles DEF TypeOK, FilesOK, Register, outputs
<1>3. TypeOK'
  BY <1>1, <1>2 DEF TypeOK, FilesOK, Register, crawl, outputs
<1>4. Seen'
  BY <1>1 DEF Seen, Register, crawl
<1>5. Ahead'
  <2>1. ASSUME stage = "nets", ~removed, NEW m \in stayed, m \notin nets
        PROVE  \E j \in DOMAIN listing' : skip < j /\ listing'[j] = m
    <3>1. PICK i \in DOMAIN listing : skip < i /\ listing[i] = m
      BY <2>1 DEF Ahead
    <3>2. PICK j \in DOMAIN listing' : i <= j /\ listing'[j] = listing[i]
      BY <1>1
    <3>3. skip < j
      BY <1>1, <3>1, <3>2 DEF TypeOK
    <3> QED  BY <3>1, <3>2, <3>3
  <2> QED  BY <2>1 DEF Ahead, Register, crawl, Committed, Uncapped, Capped
<1>6. Faithful'
  BY SameOrgs DEF Register, crawl, Committed
<1>7. Copied' /\ CurrentExists'
  BY SameOutputs DEF Register, crawl, outputs
<1>8. Paged'
  <2>1. seen' = seen \cup {n} /\ UNCHANGED <<stage, skip, pages>>
    BY DEF Register, crawl
  <2>2. IsFiniteSet(seen') /\ Cardinality(seen) \in Nat /\ Cardinality(seen') \in Nat
    BY <1>3, FS_Subset, FS_CardinalityType DEF TypeOK
  <2>3. Cardinality(seen) <= Cardinality(seen')
    BY <2>1, <2>2, FS_Subset
  <2>4. pages * PageSize \in Int /\ (pages - 1) * PageSize \in Int
    BY DEF TypeOK
  <2> QED  BY <2>1, <2>2, <2>3, <2>4 DEF Paged, PagesBounded
<1> QED  BY <1>1, <1>3, <1>4, <1>5, <1>6, <1>7, <1>8

LEMMA UnregisterStep ==
    ASSUME Inv, NEW n \in Net, Unregister(n)
    PROVE  Inv'
<1> USE DEF Inv
<1>1. listing \in Seq(Net) /\ listing' \in Seq(Net) /\ Listed' \subseteq Listed /\ ListedOnce'
  BY UnregisterListing DEF TypeOK
<1>2. FilesOK'
  BY SameFiles DEF TypeOK, FilesOK, Unregister, outputs
<1>3. TypeOK'
  BY <1>1, <1>2 DEF TypeOK, FilesOK, Unregister, crawl, outputs
<1>4. Seen'
  BY <1>1 DEF Seen, Unregister, crawl
<1>5. Ahead'
  BY DEF Ahead, Unregister, crawl, Committed, Uncapped, Capped
<1>6. Faithful'
  BY SameOrgs DEF Unregister, crawl, Committed
<1>7. Copied' /\ CurrentExists'
  BY SameOutputs DEF Unregister, crawl, outputs
<1>8. Paged'
  BY DEF Unregister, crawl, Paged, PagesBounded
<1> QED  BY <1>1, <1>3, <1>4, <1>5, <1>6, <1>7, <1>8

LEMMA StartStep ==
    ASSUME Inv, NEW d \in Day, Start(d)
    PROVE  Inv'
<1> USE DEF Inv
<1>1. FilesOK'
  <2>1. crawls \in Nat /\ crawls' = crawls + 1
    BY DEF TypeOK, Start
  <2>2. \A e \in Day : files[e].mtime \in 0..crawls => files[e].mtime \in 0..crawls'
    BY <2>1
  <2> QED  BY <2>2 DEF TypeOK, FilesOK, IsFile, IsMap, Start, outputs
<1>2. Listed \subseteq Net
  BY DEF TypeOK, Listed
<1>3. crawls' \in 0..MaxCrawls /\ crawls' >= 1
  BY DEF TypeOK, Start
<1>4. TypeOK'
  <2>1. pages' \in Nat /\ skip' \in Nat /\ retries' \in 0..MaxRetries
    BY DEF Start
  <2>2. stage' \in Stages /\ day' \in Day /\ removed' \in BOOLEAN
    BY DEF Start, Stages
  <2>3. nets' \subseteq Net /\ todo' \subseteq Org /\ known' \subseteq Org
        /\ seen' \subseteq Net /\ stayed' \subseteq Net
    BY <1>2 DEF Start
  <2>4. UNCHANGED <<listing, edits, orgs, files, current>>
    BY DEF Start, outputs
  <2> QED  BY <1>1, <1>3, <2>1, <2>2, <2>3, <2>4 DEF TypeOK, FilesOK
<1>5. Seen'
  BY <1>3 DEF Seen, Start, Listed
<1>6. Ahead'
  <2>1. \A n \in Listed : \E i \in DOMAIN listing : 0 < i /\ listing[i] = n
    BY DEF Listed, TypeOK
  <2>2. pages' = 0 /\ stage' = (IF MaxPages = 0 THEN "orgs" ELSE "nets")
    BY DEF Start
  <2>3. Uncapped' <=> MaxPages # 0
    BY <2>2 DEF Uncapped, Capped
  <2> QED  BY <2>1, <2>2, <2>3 DEF Ahead, Start, Committed
<1>7. Faithful'
  BY DEF Faithful, Start, Committed
<1>8. Copied' /\ CurrentExists'
  BY DEF Copied, CurrentExists, Exists, Start, outputs
<1>9. ListedOnce' /\ Paged'
  <2>1. UNCHANGED listing /\ pages' = 0 /\ skip' = 0
    BY DEF Start
  <2>2. ListedOnce'
    BY <2>1 DEF ListedOnce
  <2>3. Cardinality(seen') \in Nat
    BY <1>4, FS_Subset, FS_CardinalityType DEF TypeOK
  <2>4. 0 * PageSize = 0 /\ (0 - 1) * PageSize <= 0
    OBVIOUS
  <2> QED  BY <2>1, <2>2, <2>3, <2>4 DEF Paged, PagesBounded
<1> QED  BY <1>4, <1>5, <1>6, <1>7, <1>8, <1>9

LEMMA FetchPageStep ==
    ASSUME Inv, FetchPage
    PROVE  Inv'
<1> USE DEF Inv
<1> DEFINE page == {listing[i] : i \in {j \in DOMAIN listing : skip < j /\ j <= skip + PageSize}}
           done == LastPage(skip) \/ Capped(pages + 1)
<1>1. /\ stage = "nets" /\ nets' = nets \cup page /\ pages' = pages + 1
      /\ skip' = (IF done THEN skip ELSE skip + PageSize)
      /\ todo' = (IF done THEN {OrgOf[n] : n \in nets'} ELSE {})
      /\ stage' = (IF done THEN "orgs" ELSE "nets") /\ retries' = 0
      /\ UNCHANGED <<listing, edits, seen, stayed, removed, day, known, orgs, files, current,
                     crawls>>
  BY DEF FetchPage, registry, outputs, Advanced
<1>2. /\ Len(listing) \in Nat /\ DOMAIN listing = 1 .. Len(listing)
      /\ \A i \in 1 .. Len(listing) : listing[i] \in Net
  BY DEF TypeOK
<1>3. page \subseteq Listed /\ page \subseteq Net
  BY <1>2 DEF Listed
<1>4. pages \in Nat /\ skip \in Nat
  BY DEF TypeOK
<1>5. FilesOK'
  BY <1>1, SameFiles DEF TypeOK, FilesOK
<1>6. TypeOK'
  <2>1. pages' \in Nat /\ skip' \in Nat /\ retries' \in 0..MaxRetries
    BY <1>1, <1>4
  <2>2. nets' \subseteq Net /\ todo' \subseteq Org /\ stage' \in Stages
    BY <1>1, <1>3 DEF TypeOK, Stages, Org
  <2> QED  BY <1>1, <1>5, <2>1, <2>2 DEF TypeOK, FilesOK
<1>7. Seen'
  BY <1>1, <1>3 DEF Seen, Listed
<1>8. Ahead'
  <2>1. ASSUME ~removed, NEW n \in stayed, n \notin nets'
        PROVE  \E i \in DOMAIN listing : skip + PageSize < i /\ listing[i] = n
    <3>1. PICK i \in DOMAIN listing : skip < i /\ listing[i] = n
      BY <1>1, <2>1 DEF Ahead
    <3>2. ~(i <= skip + PageSize)
      BY <1>1, <2>1, <3>1
    <3> QED  BY <1>2, <1>4, <3>1, <3>2
  <2>2. CASE done
    <3>1. stage' = "orgs"
      BY <1>1, <2>2
    <3>2. ASSUME Uncapped', ~removed, NEW n \in stayed
          PROVE  n \in nets'
      <4>1. SUFFICES ASSUME n \notin nets' PROVE FALSE
        OBVIOUS
      <4>2. PICK i \in DOMAIN listing : skip + PageSize < i
        BY <2>1, <3>2, <4>1
      <4>3. LastPage(skip)
        BY <1>1, <2>2, <3>2 DEF Uncapped
      <4> QED  BY <1>2, <1>4, <4>2, <4>3 DEF LastPage
    <3> QED  BY <1>1, <3>1, <3>2 DEF Ahead
  <2>3. CASE ~done
    <3>1. stage' = "nets" /\ skip' = skip + PageSize /\ Uncapped'
      BY <1>1, <2>3 DEF Uncapped
    <3> QED  BY <1>1, <2>1, <3>1 DEF Ahead, Committed
  <2> QED  BY <2>2, <2>3
<1>9. Faithful'
  BY <1>1 DEF Faithful, Committed
<1>10. Copied' /\ CurrentExists'
  BY <1>1 DEF Copied, CurrentExists, Exists
<1>11. ListedOnce' /\ Paged'
  <2>1. ListedOnce'
    BY <1>1 DEF ListedOnce
  <2>2. Len(listing) <= Cardinality(seen) /\ Cardinality(seen) \in Nat
    BY SeenSize
  <2>3. skip = pages * PageSize /\ pages * PageSize <= Cardinality(seen)
    BY <1>1 DEF Paged
  <2>4. pages * PageSize \in Nat /\ (pages + 1) * PageSize = pages * PageSize + PageSize
    BY <1>4, Rounds
  <2>5. (pages' - 1) * PageSize <= Cardinality(seen)
    BY <1>1, <1>4, <2>3
  <2>6. ASSUME stage' = "nets"
        PROVE  skip' = pages' * PageSize /\ pages' * PageSize <= Cardinality(seen)
    <3>1. ~LastPage(skip) /\ skip' = skip + PageSize
      BY <1>1, <2>6
    <3>2. skip + PageSize <= Len(listing)
      BY <1>2, <1>4, <3>1 DEF LastPage
    <3> QED  BY <1>1, <1>2, <1>4, <2>2, <2>3, <2>4, <3>1, <3>2
  <2> QED  BY <1>1, <2>1, <2>5, <2>6 DEF Paged, PagesBounded
<1> QED  BY <1>6, <1>7, <1>8, <1>9, <1>10, <1>11

LEMMA FetchOrgsStep ==
    ASSUME Inv, FetchOrgs
    PROVE  Inv'
<1> USE DEF Inv
<1>1. /\ todo' \subseteq todo
      /\ known' \subseteq known \cup todo
  BY DEF FetchOrgs
<1>2. /\ stage = "orgs" /\ retries' = 0
      /\ UNCHANGED <<listing, edits, seen, stayed, removed, stage, day, skip, pages, nets, orgs,
                     files, current, crawls>>
  BY DEF FetchOrgs, registry, outputs
<1>3. FilesOK'
  BY <1>2, SameFiles DEF TypeOK, FilesOK
<1>4. TypeOK'
  <2>1. known' \subseteq Org /\ todo' \subseteq Org /\ retries' \in 0..MaxRetries
    BY <1>1, <1>2 DEF TypeOK
  <2> QED  BY <1>2, <1>3, <2>1 DEF TypeOK, FilesOK
<1>5. Seen' /\ Ahead'
  BY <1>2 DEF Seen, Ahead, Listed, Committed, Uncapped, Capped
<1>6. Faithful' /\ Copied' /\ CurrentExists'
  BY <1>2 DEF Faithful, Copied, CurrentExists, Exists, Committed
<1>7. ListedOnce' /\ Paged'
  BY <1>2, SamePages
<1> QED  BY <1>4, <1>5, <1>6, <1>7

LEMMA BadAnswerStep ==
    ASSUME Inv, BadAnswer
    PROVE  Inv'
<1> USE DEF Inv
<1>1. /\ stage \in {"nets", "orgs"} /\ stage' \in {stage, "idle"}
      /\ retries' \in 0..MaxRetries
      /\ UNCHANGED <<listing, edits, seen, stayed, removed, day, skip, pages, nets, todo, known,
                     orgs, files, current, crawls>>
  BY DEF BadAnswer, registry, outputs, Retried, TypeOK
<1>2. FilesOK'
  BY <1>1, SameFiles DEF TypeOK, FilesOK
<1>3. TypeOK'
  BY <1>1, <1>2 DEF TypeOK, FilesOK, Stages
<1>4. Seen' /\ Ahead'
  BY <1>1 DEF Seen, Ahead, Listed, Committed, Uncapped, Capped
<1>5. Faithful' /\ Copied' /\ CurrentExists'
  BY <1>1 DEF Faithful, Copied, CurrentExists, Exists, Committed
<1>6. ListedOnce' /\ Paged'
  BY <1>1, SamePages
<1> QED  BY <1>3, <1>4, <1>5, <1>6

LEMMA AbortStep ==
    ASSUME Inv, Abort
    PROVE  Inv'
<1> USE DEF Inv
<1>1. /\ stage' = "idle"
      /\ UNCHANGED <<listing, edits, seen, stayed, removed, day, skip, pages, nets, todo, known,
                     retries, orgs, files, current, crawls>>
  BY DEF Abort, registry, crawl, outputs
<1>2. FilesOK'
  BY <1>1, SameFiles DEF TypeOK, FilesOK
<1>3. TypeOK'
  BY <1>1, <1>2 DEF TypeOK, FilesOK, Stages
<1>4. Seen' /\ Ahead'
  BY <1>1 DEF Seen, Ahead, Listed, Committed, Uncapped, Capped
<1>5. Faithful' /\ Copied' /\ CurrentExists'
  BY <1>1 DEF Faithful, Copied, CurrentExists, Exists, Committed
<1>6. ListedOnce' /\ Paged'
  BY <1>1, SamePages
<1> QED  BY <1>3, <1>4, <1>5, <1>6

\* A commit of a crawl leaves its orgs live, with the crawled bodies, and no other.
LEMMA CommitTable ==
    ASSUME NEW t \in [Org -> OrgRow \cup {Absent}], Absent \notin OrgRow,
           NEW new, DOMAIN new \subseteq Org, \A o \in DOMAIN new : new[o] \in OrgBody,
           NEW o \in Org
    PROVE  LET row == Sync(t, new, Org)[o]
           IN  /\ row \in OrgRow \cup {Absent}
               /\ o \in DOMAIN new => row = [body |-> new[o], live |-> TRUE]
               /\ o \notin DOMAIN new => row = Absent \/ row.live = FALSE
<1> DEFINE row == Sync(t, new, Org)[o]
<1>1. row = IF o \in Upserted(t, new) THEN [body |-> new[o], live |-> TRUE]
            ELSE IF o \in Retracted(t, new, Org) THEN [body |-> t[o].body, live |-> FALSE]
            ELSE t[o]
  BY DEF Sync
<1>2. t[o] = Absent \/ (t[o] \in OrgRow /\ t[o].body \in OrgBody /\ t[o].live \in BOOLEAN
                        /\ t[o] = [body |-> t[o].body, live |-> t[o].live])
  BY DEF OrgRow
<1> HIDE DEF row
<1>3. CASE o \in DOMAIN new
  <2>1. o \notin Retracted(t, new, Org)
    BY <1>3 DEF Retracted
  <2>2. o \notin Upserted(t, new) =>
           t[o] # Absent /\ t[o].body = new[o] /\ t[o].live
    BY <1>3 DEF Upserted
  <2>3. o \notin Upserted(t, new) => t[o].live = TRUE
    BY <1>2, <2>2
  <2>4. row = [body |-> new[o], live |-> TRUE]
    BY <1>1, <1>2, <2>1, <2>2, <2>3
  <2> QED  BY <1>3, <2>4 DEF row, OrgRow
<1>4. CASE o \notin DOMAIN new
  <2>1. o \notin Upserted(t, new)
    BY <1>4 DEF Upserted
  <2>2. o \in Retracted(t, new, Org) <=> t[o] # Absent /\ t[o].live
    BY <1>4 DEF Retracted
  <2>3. CASE o \in Retracted(t, new, Org)
    <3>1. row = [body |-> t[o].body, live |-> FALSE]
      BY <1>1, <2>1, <2>3
    <3>2. row \in OrgRow /\ row.live = FALSE
      BY <1>2, <2>2, <2>3, <3>1 DEF OrgRow
    <3> QED  BY <1>4, <3>2 DEF row
  <2>4. CASE o \notin Retracted(t, new, Org)
    <3>1. row = t[o] /\ (row = Absent \/ ~t[o].live)
      BY <1>1, <2>1, <2>2, <2>4
    <3>2. row = Absent \/ row.live = FALSE
      BY <1>2, <3>1
    <3> QED  BY <1>4, <3>1, <3>2 DEF row
  <2> QED  BY <2>3, <2>4
<1> QED  BY <1>3, <1>4

LEMMA CommitStep ==
    ASSUME Inv, CommitOrgMap
    PROVE  Inv'
<1> USE DEF Inv
<1>1. /\ stage = "orgs" /\ stage' \in {"idle", "copy"}
      /\ stage' = "idle" => orgs' = orgs
      /\ stage' = "copy" => orgs' = Sync(orgs, Crawled, Org)
      /\ UNCHANGED <<listing, edits, seen, stayed, removed, day, skip, pages, nets, todo, known,
                     retries, files, current, crawls>>
  BY DEF CommitOrgMap, registry, crawl, outputs
<1>2. DOMAIN orgs = Org /\ DOMAIN Sync(orgs, Crawled, Org) = Org
  BY DEF TypeOK, Sync
<1>3. \A o \in Org :
          LET row == Sync(orgs, Crawled, Org)[o]
          IN  /\ row \in OrgRow \cup {Absent}
              /\ o \in DOMAIN Crawled => row = [body |-> Crawled[o], live |-> TRUE]
              /\ o \notin DOMAIN Crawled => row = Absent \/ row.live = FALSE
  <2>1. DOMAIN Crawled \subseteq Org /\ \A o \in DOMAIN Crawled : Crawled[o] \in OrgBody
    BY CrawledType DEF TypeOK
  <2>2. orgs \in [Org -> OrgRow \cup {Absent}] /\ Absent \notin OrgRow
    BY DEF TypeOK
  <2> QED  BY <2>1, <2>2, CommitTable, Zenon
<1>4. Crawled' = Crawled
  BY <1>1, SameCrawled
<1>5. FilesOK'
  BY <1>1, SameFiles DEF TypeOK, FilesOK
<1>6. TypeOK'
  <2>1. orgs' \in [Org -> OrgRow \cup {Absent}]
    <3>1. Sync(orgs, Crawled, Org) \in [Org -> OrgRow \cup {Absent}]
      BY <1>2, <1>3 DEF Sync
    <3> QED  BY <1>1, <3>1 DEF TypeOK
  <2> QED  BY <1>1, <1>5, <2>1 DEF TypeOK, FilesOK, Stages
<1>7. Seen' /\ Ahead'
  BY <1>1 DEF Seen, Ahead, Listed, Committed, Uncapped, Capped
<1>8. Faithful'
  <2>1. SUFFICES ASSUME stage' = "copy"
                 PROVE  /\ LiveKeys(orgs') = DOMAIN Crawled
                        /\ \A o \in DOMAIN Crawled : orgs'[o].body = Crawled[o]
    BY <1>1, <1>4 DEF Faithful, Committed, LiveKeys
  <2>2. DOMAIN orgs' = Org /\ DOMAIN Crawled \subseteq Org
    BY <1>6, CrawledType DEF TypeOK
  <2>3. ASSUME NEW o \in DOMAIN Crawled
        PROVE  orgs'[o] # Absent /\ orgs'[o].live /\ orgs'[o].body = Crawled[o]
    <3>1. orgs'[o] = [body |-> Crawled[o], live |-> TRUE]
      BY <1>1, <1>3, <2>1, CrawledType DEF TypeOK
    <3>2. [body |-> Crawled[o], live |-> TRUE] \in OrgRow
      BY CrawledType DEF OrgRow, TypeOK
    <3>3. orgs'[o] # Absent
      BY <3>1, <3>2
    <3>4. orgs'[o].live
      BY <3>1
    <3>5. orgs'[o].body = Crawled[o]
      BY <3>1
    <3> QED  BY <3>3, <3>4, <3>5
  <2>4. ASSUME NEW o \in Org \ DOMAIN Crawled
        PROVE  ~(orgs'[o] # Absent /\ orgs'[o].live)
    BY <1>1, <1>3, <2>1
  <2>5. \A o \in DOMAIN orgs' : (orgs'[o] # Absent /\ orgs'[o].live) <=> o \in DOMAIN Crawled
    BY <2>2, <2>3, <2>4
  <2>6. LiveKeys(orgs') = DOMAIN Crawled
    BY <2>2, <2>5 DEF LiveKeys
  <2> QED  BY <2>3, <2>6
<1>9. Copied' /\ CurrentExists'
  BY <1>1 DEF Copied, CurrentExists, Exists
<1>10. ListedOnce' /\ Paged'
  BY <1>1, SamePages
<1> QED  BY <1>6, <1>7, <1>8, <1>9, <1>10

LEMMA PublishStep ==
    ASSUME Inv, Publish
    PROVE  Inv'
<1> USE DEF Inv
<1>1. PICK map \in {Crawled, Torn} :
          files' = [files EXCEPT ![day] = [map |-> map, mtime |-> crawls]]
  BY DEF Publish
<1>2. /\ stage = "copy" /\ stage' = "link"
      /\ UNCHANGED <<listing, edits, seen, stayed, removed, day, skip, pages, nets, todo, known,
                     retries, orgs, current, crawls>>
  BY DEF Publish, registry, crawl
<1>3. crawls \in Nat /\ crawls >= 1 /\ day \in Day /\ DOMAIN files = Day
  BY <1>2 DEF TypeOK, Seen
<1>4. IsMap(map)
  <2>1. IsMap(Torn)
    BY DEF IsMap
  <2>2. IsMap(Crawled)
    <3>1. Crawled \in [DOMAIN Crawled -> OrgBody]
      BY CrawledType DEF Crawled, TypeOK
    <3> QED  BY <3>1, CrawledType DEF IsMap, TypeOK
  <2> QED  BY <2>1, <2>2
<1>5. /\ files'[day].mtime = crawls /\ files'[day].map = map
      /\ IsFile(files'[day])
      /\ \A d \in Day \ {day} : files'[d] = files[d]
      /\ DOMAIN files' = Day
  BY <1>1, <1>3, <1>4, FileType
<1>6. FilesOK'
  <2>1. \A d \in Day : IsFile(files'[d])
    BY <1>5 DEF TypeOK
  <2> QED  BY <1>2, <1>5, <2>1 DEF FilesOK, IsFile, IsMap
<1>7. TypeOK'
  BY <1>2, <1>6 DEF TypeOK, FilesOK, Stages
<1>8. Seen' /\ Ahead'
  BY <1>2 DEF Seen, Ahead, Listed, Committed, Uncapped, Capped
<1>9. Faithful'
  BY <1>2, SameOrgs DEF Committed
<1>10. Copied'
  <2>1. Crawled' = Crawled
    BY <1>2, SameCrawled
  <2> QED  BY <1>2, <1>3, <1>5, <2>1 DEF Copied, Exists
<1>11. CurrentExists'
  <2>1. ASSUME current # Absent, Retain # 0 PROVE files'[current].mtime > 0
    <3>1. current \in Day /\ files[current].mtime > 0
      BY <2>1 DEF TypeOK, CurrentExists, Exists
    <3>2. CASE current = day
      BY <1>3, <1>5, <3>2
    <3>3. CASE current # day
      <4>1. files'[current] = files[current]
        BY <1>5, <3>1, <3>3
      <4> QED  BY <3>1, <4>1
    <3> QED  BY <3>2, <3>3
  <2> QED  BY <1>2, <2>1 DEF CurrentExists, Exists
<1>12. ListedOnce' /\ Paged'
  BY <1>2, SamePages
<1> QED  BY <1>7, <1>8, <1>9, <1>10, <1>11, <1>12

LEMMA LinkStep ==
    ASSUME Inv, Link
    PROVE  Inv'
<1> USE DEF Inv
<1>1. /\ stage = "link" /\ stage' = "retain" /\ current' = day
      /\ UNCHANGED <<listing, edits, seen, stayed, removed, day, skip, pages, nets, todo, known,
                     retries, orgs, files, crawls>>
  BY DEF Link, registry, crawl
<1>2. FilesOK'
  BY <1>1, SameFiles DEF TypeOK, FilesOK
<1>3. TypeOK'
  BY <1>1, <1>2 DEF TypeOK, FilesOK, Stages
<1>4. Seen' /\ Ahead'
  BY <1>1 DEF Seen, Ahead, Listed, Committed, Uncapped, Capped
<1>5. Faithful'
  BY <1>1, SameOrgs DEF Committed
<1>6. Copied' /\ CurrentExists'
  <2>1. Crawled' = Crawled
    BY <1>1, SameCrawled
  <2> QED  BY <1>1, <2>1 DEF Copied, CurrentExists, Exists
<1>7. ListedOnce' /\ Paged'
  BY <1>1, SamePages
<1> QED  BY <1>3, <1>4, <1>5, <1>6, <1>7

\* The newest file is never the one in place Retain + 1, unless none is to stay.
LEMMA NewestKept ==
    ASSUME Inv, stage = "retain", Retain # 0
    PROVE  day \notin Expired
<1> USE DEF Inv
<1>1. files[day].mtime = crawls /\ \A e \in Day : files[e].mtime \in 0..crawls
  BY DEF Copied, TypeOK, IsFile
<1>2. Newer(day) = {}
  <2>1. crawls \in Nat
    BY DEF TypeOK
  <2>2. \A e \in Day : ~(files[e].mtime > files[day].mtime)
    BY <1>1, <2>1
  <2> QED  BY <2>2 DEF Newer
<1>3. Cardinality(Newer(day)) = 0
  BY <1>2, FS_EmptySet
<1> QED  BY <1>3 DEF Expired

LEMMA RetainStep ==
    ASSUME Inv, RetainNewest
    PROVE  Inv'
<1> USE DEF Inv
<1>1. /\ stage = "retain" /\ stage' \in {"retain", "idle"}
      /\ UNCHANGED <<listing, edits, seen, stayed, removed, day, skip, pages, nets, todo, known,
                     retries, orgs, current, crawls>>
  BY DEF RetainNewest, registry, crawl
<1>2. /\ DOMAIN files' = Day
      /\ \A d \in Day : files'[d] = files[d] \/ (files'[d] = NoFile /\ (d # day \/ Retain = 0))
      /\ Retain # 0 => files'[day] = files[day]
  <2>1. DOMAIN files = Day /\ day \in Day /\ Expired \subseteq Day
    BY DEF TypeOK, Expired
  <2>2. CASE \E d \in Expired : files' = [files EXCEPT ![d] = NoFile]
    BY <1>1, <2>1, <2>2, NewestKept
  <2>3. CASE UNCHANGED files
    BY <2>1, <2>3
  <2> QED  BY <2>2, <2>3 DEF RetainNewest
<1>3. FilesOK'
  <2>1. \A d \in Day : IsFile(files'[d])
    <3>1. IsFile(NoFile)
      BY NoFileType DEF TypeOK
    <3>2. \A d \in Day : IsFile(files[d])
      BY DEF TypeOK
    <3>3. ASSUME NEW d \in Day PROVE IsFile(files'[d])
      <4>1. CASE files'[d] = files[d]
        BY <3>2, <4>1
      <4>2. CASE files'[d] = NoFile
        BY <3>1, <4>2
      <4> QED  BY <1>2, <4>1, <4>2
    <3> QED  BY <3>3
  <2> QED  BY <1>1, <1>2, <2>1 DEF FilesOK, IsFile, IsMap
<1>4. TypeOK'
  BY <1>1, <1>3 DEF TypeOK, FilesOK, Stages
<1>5. Seen' /\ Ahead'
  BY <1>1 DEF Seen, Ahead, Listed, Committed, Uncapped, Capped
<1>6. Faithful'
  BY <1>1, SameOrgs DEF Committed
<1>7. Copied' /\ CurrentExists'
  <2>1. Crawled' = Crawled
    BY <1>1, SameCrawled
  <2>2. current = day /\ day \in Day
    BY <1>1 DEF Copied, TypeOK
  <2>3. files'[day].map \in {Torn, Crawled}
    BY <1>1, <1>2, <2>2 DEF Copied, NoFile
  <2>4. Retain # 0 => files'[day] = files[day] /\ Exists(day) /\ files[day].mtime = crawls
    BY <1>1, <1>2 DEF Copied
  <2> QED  BY <1>1, <2>1, <2>2, <2>3, <2>4 DEF Copied, CurrentExists, Exists
<1>8. ListedOnce' /\ Paged'
  BY <1>1, SamePages
<1> QED  BY <1>4, <1>5, <1>6, <1>7, <1>8

LEMMA StutterStep == Inv /\ UNCHANGED vars => Inv'
<1> SUFFICES ASSUME Inv, UNCHANGED vars PROVE Inv'
  OBVIOUS
<1> USE DEF Inv
<1>1. UNCHANGED <<listing, edits, stage, seen, stayed, removed, day, skip, pages, nets, todo,
                  known, retries, orgs, files, current, crawls>>
  BY DEF vars
<1>2. FilesOK'
  BY <1>1, SameFiles DEF TypeOK, FilesOK
<1>3. TypeOK'
  BY <1>1, <1>2 DEF TypeOK, FilesOK
<1>4. Seen' /\ Ahead'
  BY <1>1 DEF Seen, Ahead, Listed, Committed, Uncapped, Capped
<1>5. Faithful'
  BY <1>1, SameOrgs DEF Committed
<1>6. Copied' /\ CurrentExists'
  BY <1>1, SameOutputs
<1>7. ListedOnce' /\ Paged'
  BY <1>1, SamePages
<1> QED  BY <1>3, <1>4, <1>5, <1>6, <1>7

-----------------------------------------------------------------------------
(* The theorems. *)

LEMMA Invariant == Spec => []Inv
<1>1. Inv /\ [Next]_vars => Inv'
  <2> SUFFICES ASSUME Inv, [Next]_vars PROVE Inv'
    OBVIOUS
  <2>1. CASE \E n \in Net : Register(n) \/ Unregister(n)
    BY <2>1, RegisterStep, UnregisterStep
  <2>2. CASE \E d \in Day : Start(d)
    BY <2>2, StartStep
  <2>3. CASE Step
    BY <2>3, FetchPageStep, FetchOrgsStep, BadAnswerStep, CommitStep, PublishStep, LinkStep,
       RetainStep DEF Step
  <2>4. CASE Abort
    BY <2>4, AbortStep
  <2>5. CASE UNCHANGED vars
    BY <2>5, StutterStep
  <2> QED  BY <2>1, <2>2, <2>3, <2>4, <2>5 DEF Next
<1> QED  BY <1>1, InitInv, PTL DEF Spec

\* Every reachable state of a refresh, its files and the orgs table is well typed.
THEOREM TypeCorrect == Spec => []TypeOK
<1>1. Inv => TypeOK
  BY DEF Inv
<1> QED  BY <1>1, Invariant, PTL

\* A commit leaves live orgs of this crawl only, and none of glue alone: the soft
\* delete retracts whatever the crawl did not bring.
THEOREM NoStaleOrg == Spec => []NothingStale
<1>1. Inv => NothingStale
  <2> SUFFICES ASSUME Inv, Committed, NEW o \in LiveKeys(orgs)
               PROVE  /\ orgs[o].body.asns # {}
                      /\ \A n \in orgs[o].body.asns : OrgOf[n] = o /\ n \in seen \ Glue
    BY DEF NothingStale
  <2>1. o \in DOMAIN Crawled /\ orgs[o].body = Crawled[o]
    BY DEF Inv, Faithful
  <2>2. Crawled[o].asns = {n \in Subjects : OrgOf[n] = o} /\ \E n \in Subjects : OrgOf[n] = o
    BY <2>1 DEF Crawled
  <2>3. Subjects \subseteq seen \ Glue
    BY DEF Inv, Seen, Committed, Subjects
  <2> QED  BY <2>1, <2>2, <2>3
<1> QED  BY <1>1, Invariant, PTL

\* Offsets into a listing that only grows skip nothing: whatever its size, the page
\* size and the places where new networks come in.
THEOREM NoneSkipped == Spec => []NothingSkipped
<1>1. Inv => NothingSkipped
  <2> SUFFICES ASSUME Inv, Committed, Uncapped, ~removed, NEW n \in stayed \ Glue
               PROVE  Attributed(n)
    BY DEF NothingSkipped
  <2>1. n \in Subjects
    BY DEF Inv, Ahead, Subjects
  <2>2. OrgOf[n] \in DOMAIN Crawled /\ n \in Crawled[OrgOf[n]].asns
    BY <2>1 DEF Crawled
  <2> QED  BY <2>2 DEF Inv, Faithful, Attributed
<1> QED  BY <1>1, Invariant, PTL

\* The link `current` names an existing file wherever the script is stopped, as long as
\* the retention keeps any.
THEOREM LinkNeverDangles == Spec => []CurrentExists
<1>1. Inv => CurrentExists
  BY DEF Inv
<1> QED  BY <1>1, Invariant, PTL

\* The file behind `current` is the committed org map, or a torn one.
THEOREM CopyCorrect == Spec => []CopyIsSpine
<1>1. Inv => CopyIsSpine
  <2> SUFFICES ASSUME Inv, stage = "retain"
               PROVE  current = day /\ files[day].map \in {Torn, Live(orgs)}
    BY DEF CopyIsSpine
  <2>1. Live(orgs) = Crawled
    <3>1. Crawled = [o \in DOMAIN Crawled |-> Crawled[o]]
      BY DEF Crawled
    <3> QED  BY <3>1 DEF Live, Inv, Faithful, Committed
  <2> QED  BY <2>1 DEF Inv, Copied
<1> QED  BY <1>1, Invariant, PTL

\* A crawl asks for each page once, whatever is registered or removed meanwhile: the
\* pages before the last are as many as the nets listed in its course can fill.
THEOREM PagesAreBounded == Spec => []PagesBounded
<1>1. Inv => PagesBounded
  BY DEF Inv, Paged
<1> QED  BY <1>1, Invariant, PTL

-----------------------------------------------------------------------------
(* The index: loading. *)

HIDE OrgMapRefreshAssumption

\* The places of file f whose records have been inserted.
Inserted(f) ==
    IF f < file THEN Merged(f) ELSE IF f = file THEN Merged(f) \ rest ELSE {}

\* How far the loading is; a file in its own order is read from its start.
PlaceOK ==
    /\ input \in Inputs
    /\ file \in 1..Len(input.files) /\ rest \subseteq Merged(file)
    /\ (file = 1 /\ ~input.rows) => \A i \in Inserted(1), j \in rest : i < j
    /\ line \in 0..Len(input.lines) /\ (line > 0 => Loaded)

\* The ASNs inserted are those with an org, and that is an org of the first file naming them.
FirstClaim(a, f, i) ==
    /\ \A g \in DOMAIN input.files : g < f => Claims(g, a) = {}
    /\ i \in Claims(f, a)
    /\ (f = 1 /\ ~input.rows) => \A k \in Claims(f, a) : i <= k

HeadOf(a) ==
    /\ asnToOrgs[a] \in Seq(OrgId)
    /\ asnToOrgs[a] = << >> <=>
          \A f \in DOMAIN input.files : Claims(f, a) \cap Inserted(f) = {}
    /\ asnToOrgs[a] # << >> =>
          \E f \in DOMAIN input.files : \E i \in Inserted(f) :
              FirstClaim(a, f, i) /\ Head(asnToOrgs[a]) = input.files[f][i].org

HeadOK == DOMAIN asnToOrgs = Asn /\ \A a \in Asn : HeadOf(a)

\* The record inserted last of an org.
Latest(o, f, i) ==
    /\ i \in Inserted(f) /\ input.files[f][i].org = o
    /\ \A g \in DOMAIN input.files : \A j \in Inserted(g) :
          input.files[g][j].org = o => g < f \/ (g = f /\ j <= i)

KnownOK ==
    /\ \A o \in DOMAIN orgById : orgById[o] \in Record
    /\ \A f \in DOMAIN input.files : \A i \in Inserted(f) : input.files[f][i].org \in DOMAIN orgById
    /\ \A o \in DOMAIN orgById : \E f \in DOMAIN input.files : \E i \in Inserted(f) :
          Latest(o, f, i) /\ (line = 0 => orgById[o] = input.files[f][i])

LoadInv == PlaceOK /\ HeadOK /\ KnownOK

\* What the assumption says of an input, in the form the proofs need.
LEMMA InputFacts ==
    ASSUME input \in Inputs
    PROVE  /\ Len(input.files) \in Nat \ {0} /\ DOMAIN input.files = 1..Len(input.files)
           /\ Len(input.lines) \in Nat /\ input.rows \in BOOLEAN
           /\ \A f \in DOMAIN input.files :
                 /\ Len(input.files[f]) \in Nat
                 /\ DOMAIN input.files[f] = 1..Len(input.files[f])
                 /\ \A i \in DOMAIN input.files[f] :
                       /\ input.files[f][i] \in Record
                       /\ input.files[f][i].org \in OrgId
                       /\ input.files[f][i].asns \subseteq Asn
           /\ \A i \in DOMAIN input.lines : input.lines[i] \in Domain
           /\ input.rows => \A i, j \in DOMAIN input.files[1] :
                               input.files[1][i].org = input.files[1][j].org => i = j
<1>1. /\ input.rows \in BOOLEAN
      /\ input.files \in Seq(Seq(Record)) /\ input.files # << >>
      /\ input.lines \in Seq(Domain)
      /\ input.rows => \A i, j \in DOMAIN input.files[1] :
                          input.files[1][i].org = input.files[1][j].org => i = j
  BY InputsAssumption
<1>2. Len(input.files) \in Nat \ {0} /\ DOMAIN input.files = 1..Len(input.files)
  BY <1>1
<1>3. Len(input.lines) \in Nat /\ \A i \in DOMAIN input.lines : input.lines[i] \in Domain
  BY <1>1
<1>4. ASSUME NEW f \in DOMAIN input.files
      PROVE  /\ input.files[f] \in Seq(Record)
             /\ Len(input.files[f]) \in Nat
             /\ DOMAIN input.files[f] = 1..Len(input.files[f])
             /\ \A i \in DOMAIN input.files[f] : input.files[f][i] \in Record
  <2>1. input.files[f] \in Seq(Record)
    BY <1>1
  <2> QED  BY <2>1
<1>5. \A r \in Record : r.org \in OrgId /\ r.asns \subseteq Asn
  BY DEF Record
<1> QED  BY <1>1, <1>2, <1>3, <1>4, <1>5

\* Only the first file has an org twice, and only if its order is kept.
LEMMA MergedFacts ==
    ASSUME input \in Inputs, NEW f \in DOMAIN input.files
    PROVE  /\ Merged(f) \subseteq DOMAIN input.files[f] /\ Merged(f) \subseteq Int
           /\ (f # 1 \/ input.rows) => \A i, j \in Merged(f) :
                 input.files[f][i].org = input.files[f][j].org => i = j
           /\ f = 1 => Merged(f) = DOMAIN input.files[f]
<1>1. /\ DOMAIN input.files[f] = 1..Len(input.files[f])
      /\ input.rows => \A i, j \in DOMAIN input.files[1] :
                          input.files[1][i].org = input.files[1][j].org => i = j
  BY InputFacts
<1>2. Merged(f) \subseteq DOMAIN input.files[f]
  BY DEF Merged
<1>3. ASSUME f # 1, NEW i \in Merged(f), NEW j \in Merged(f),
             input.files[f][i].org = input.files[f][j].org
      PROVE  i = j
  <2>1. ~(j > i) /\ ~(i > j)
    BY <1>2, <1>3 DEF Merged
  <2> QED  BY <1>1, <1>2, <2>1
<1> QED  BY <1>1, <1>2, <1>3 DEF Merged

\* Before the first record nothing is known.
LEMMA InitLoad == IndexInit => LoadInv
<1> SUFFICES ASSUME IndexInit PROVE LoadInv
  OBVIOUS
<1>1. /\ input \in Inputs /\ file = 1 /\ rest = DOMAIN input.files[1] /\ line = 0
      /\ DOMAIN orgById = {}
      /\ DOMAIN asnToOrgs = Asn /\ \A a \in Asn : asnToOrgs[a] = << >>
  BY DEF IndexInit
<1>2. 1 \in DOMAIN input.files /\ Merged(1) = rest
  BY <1>1, InputFacts, MergedFacts
<1>3. \A f \in DOMAIN input.files : Inserted(f) = {}
  BY <1>1, <1>2, InputFacts DEF Inserted
<1>4. PlaceOK
  BY <1>1, <1>2, <1>3, InputFacts DEF PlaceOK
<1>5. HeadOK
  <2>1. \A a \in Asn : asnToOrgs[a] = << >> /\ << >> \in Seq(OrgId)
    BY <1>1
  <2>2. \A f \in DOMAIN input.files : \A a : Claims(f, a) \cap Inserted(f) = {}
    BY <1>3
  <2> QED  BY <1>1, <2>1, <2>2 DEF HeadOK, HeadOf
<1>6. KnownOK
  BY <1>1, <1>3 DEF KnownOK
<1> QED  BY <1>4, <1>5, <1>6 DEF LoadInv

\* A record inserted registers its org behind the others, and replaces the org's record.
LEMMA InsertStep ==
    ASSUME LoadInv, InsertNext
    PROVE  LoadInv'
<1> USE DEF LoadInv
<1>1. PICK i \in rest :
          /\ file = 1 /\ ~input.rows => \A j \in rest : i <= j
          /\ Insert(input.files[file][i])
          /\ rest' = rest \ {i}
  BY DEF InsertNext
<1>2. input' = input /\ file' = file /\ line' = line
  BY DEF InsertNext
<1> DEFINE r == input.files[file][i]
<1>3. /\ input \in Inputs /\ file \in DOMAIN input.files /\ rest \subseteq Merged(file)
      /\ i \in Merged(file) /\ i \in DOMAIN input.files[file] /\ i \in Int
      /\ r \in Record /\ r.org \in OrgId
      /\ line = 0
  <2>1. /\ input \in Inputs /\ file \in DOMAIN input.files /\ rest \subseteq Merged(file)
    BY InputFacts DEF PlaceOK
  <2>2. line = 0
    BY DEF PlaceOK, Loaded
  <2> QED  BY <1>1, <2>1, <2>2, MergedFacts, InputFacts
<1>4. \A f : Merged(f)' = Merged(f)
  BY <1>2 DEF Merged
<1>5. \A f, a : Claims(f, a)' = Claims(f, a)
  BY <1>2, <1>4 DEF Claims
<1>6. \A f : Inserted(f)' = IF f = file THEN Inserted(f) \cup {i} ELSE Inserted(f)
  BY <1>1, <1>2, <1>3, <1>4 DEF Inserted
<1>7. i \notin Inserted(file) /\ Inserted(file) = Merged(file) \ rest
  BY <1>1, <1>3, InputFacts DEF Inserted
<1>8. /\ \A f \in DOMAIN input.files : f < file => Inserted(f) = Merged(f)
      /\ \A f \in DOMAIN input.files : f > file => Inserted(f) = {}
  BY <1>3, InputFacts DEF Inserted
<1>9. (file = 1 /\ ~input.rows) =>
          (\A j \in Inserted(1) : j < i) /\ (\A j \in rest : i <= j)
  BY <1>1 DEF PlaceOK
<1>10. PlaceOK'
  <2>1. rest' \subseteq Merged(file)'
    <3>1. rest' \subseteq Merged(file)
      BY <1>1, <1>3
    <3> QED  BY <1>2, <1>4, <3>1
  <2>2. ASSUME file = 1, ~input.rows, NEW j \in Inserted(1)', NEW k \in rest'
        PROVE  j < k
    <3>1. (j \in Inserted(1) \/ j = i) /\ k \in rest /\ k # i
      BY <1>1, <1>6, <2>2
    <3>2. k \in Int
      BY <3>1, <1>3, MergedFacts
    <3>3. j \in Inserted(1) => j < k
      BY <2>2, <3>1 DEF PlaceOK
    <3> QED  BY <1>3, <1>9, <2>2, <3>1, <3>2, <3>3
  <2> QED  BY <1>2, <1>3, <1>4, <2>1, <2>2, InputFacts DEF PlaceOK
<1>11. /\ orgById' = [o \in DOMAIN orgById \cup {r.org} |-> IF o = r.org THEN r ELSE orgById[o]]
       /\ asnToOrgs' = [k \in DOMAIN asnToOrgs |->
                           IF k \in r.asns THEN Append(asnToOrgs[k], r.org) ELSE asnToOrgs[k]]
  BY <1>1 DEF Insert, Registered
<1> HIDE DEF r
<1>12. HeadOK'
  <2>1. \A a, f, j : FirstClaim(a, f, j)' = FirstClaim(a, f, j)
    BY <1>2, <1>5 DEF FirstClaim
  <2>2. ASSUME NEW a \in Asn, HeadOf(a), a \notin r.asns
        PROVE  HeadOf(a)'
    <3>1. asnToOrgs'[a] = asnToOrgs[a]
      BY <1>11, <2>2 DEF HeadOK
    <3>2. i \notin Claims(file, a)
      BY <2>2 DEF Claims, r
    <3>3. \A f : Claims(f, a)' \cap Inserted(f)' = Claims(f, a) \cap Inserted(f)
      BY <1>5, <1>6, <3>2
    <3>4. \A f : Inserted(f) \subseteq Inserted(f)'
      BY <1>6
    <3> QED  BY <1>2, <2>1, <2>2, <3>1, <3>3, <3>4 DEF HeadOf
  <2>3. ASSUME NEW a \in Asn, HeadOf(a), a \in r.asns, asnToOrgs[a] # << >>
        PROVE  HeadOf(a)'
    <3>1. asnToOrgs'[a] = Append(asnToOrgs[a], r.org) /\ asnToOrgs[a] \in Seq(OrgId)
      BY <1>11, <2>3 DEF HeadOK, HeadOf
    <3>2. /\ asnToOrgs'[a] \in Seq(OrgId) /\ asnToOrgs'[a] # << >>
          /\ Head(asnToOrgs'[a]) = Head(asnToOrgs[a])
      BY <1>3, <2>3, <3>1
    <3>3. \A f : Inserted(f) \subseteq Inserted(f)'
      BY <1>6
    <3> QED  BY <1>2, <1>5, <2>1, <2>3, <3>2, <3>3 DEF HeadOf
  <2>4. ASSUME NEW a \in Asn, HeadOf(a), a \in r.asns, asnToOrgs[a] = << >>
        PROVE  HeadOf(a)'
    <3>1. asnToOrgs'[a] = <<r.org>>
      BY <1>11, <2>4 DEF HeadOK
    <3>2. asnToOrgs'[a] \in Seq(OrgId) /\ asnToOrgs'[a] # << >> /\ Head(asnToOrgs'[a]) = r.org
      BY <1>3, <3>1
    <3>3. i \in Claims(file, a) /\ i \in Inserted(file)'
      BY <1>2, <1>3, <1>6, <2>4 DEF Claims, r
    <3>4. \A f \in DOMAIN input.files : Claims(f, a) \cap Inserted(f) = {}
      BY <2>4 DEF HeadOf
    <3>5. \A g \in DOMAIN input.files : g < file => Claims(g, a) = {}
      BY <1>8, <3>4 DEF Claims
    <3>6. (file = 1 /\ ~input.rows) => \A k \in Claims(file, a) : i <= k
      BY <1>3, <1>7, <1>9, <3>4 DEF Claims
    <3>7. FirstClaim(a, file, i)'
      BY <1>2, <2>1, <3>3, <3>5, <3>6 DEF FirstClaim
    <3>8. i \in Claims(file, a)' \cap Inserted(file)' /\ file \in DOMAIN input.files'
      BY <1>2, <1>3, <1>5, <3>3
    <3> QED  BY <1>2, <1>3, <3>2, <3>7, <3>8 DEF HeadOf, r
  <2> QED  BY <1>11, <2>2, <2>3, <2>4 DEF HeadOK
<1>13. KnownOK'
  <2>1. DOMAIN orgById' = DOMAIN orgById \cup {r.org} /\ orgById'[r.org] = r
        /\ \A o \in DOMAIN orgById : o # r.org => orgById'[o] = orgById[o]
    BY <1>11
  <2>2. \A o \in DOMAIN orgById' : orgById'[o] \in Record
    BY <1>3, <2>1 DEF KnownOK
  <2>3. \A f \in DOMAIN input'.files : \A j \in Inserted(f)' :
            input'.files[f][j].org \in DOMAIN orgById'
    BY <1>2, <1>6, <2>1 DEF KnownOK, r
  <2>4. Latest(r.org, file, i)'
    <3>1. i \in Inserted(file)' /\ input.files[file][i].org = r.org
      BY <1>2, <1>3, <1>6 DEF r
    <3>2. ASSUME NEW g \in DOMAIN input.files, NEW j \in Inserted(g)',
                 input.files[g][j].org = r.org
          PROVE  g < file \/ (g = file /\ j <= i)
      <4>1. (g = file /\ j = i) \/ j \in Inserted(g)
        BY <1>6, <3>2
      <4>2. CASE g > file
        BY <1>3, <1>8, <4>1, <4>2, InputFacts
      <4>3. CASE g = file /\ j \in Inserted(g)
        <5>1. j \in Merged(file) /\ j # i
          BY <1>7, <4>3
        <5>2. CASE file # 1 \/ input.rows
          BY <1>3, <3>1, <3>2, <4>3, <5>1, <5>2, MergedFacts
        <5>3. CASE file = 1 /\ ~input.rows
          <6>1. j < i /\ j \in Int
            BY <1>3, <1>9, <4>3, <5>1, <5>3, MergedFacts
          <6> QED  BY <1>3, <4>3, <6>1
        <5> QED  BY <5>2, <5>3, <1>3, InputFacts
      <4> QED  BY <1>3, <4>1, <4>2, <4>3, InputFacts
    <3> QED  BY <1>2, <3>1, <3>2 DEF Latest, r
  <2>5. ASSUME NEW o \in DOMAIN orgById, o # r.org, NEW f, NEW j, Latest(o, f, j)
        PROVE  Latest(o, f, j)'
    <3>1. \A g \in DOMAIN input.files : \A k \in Inserted(g)' :
              input.files[g][k].org = o => k \in Inserted(g)
      BY <1>6, <2>5 DEF r
    <3>2. j \in Inserted(f)'
      BY <1>6, <2>5 DEF Latest
    <3> QED  BY <1>2, <2>5, <3>1, <3>2 DEF Latest
  <2>6. ASSUME NEW o \in DOMAIN orgById'
        PROVE  \E f \in DOMAIN input'.files : \E j \in Inserted(f)' :
                  Latest(o, f, j)' /\ (line' = 0 => orgById'[o] = input'.files[f][j])
    <3>1. CASE o = r.org
      BY <1>2, <1>3, <1>6, <2>1, <2>4, <3>1 DEF r
    <3>2. CASE o # r.org
      <4>1. PICK f \in DOMAIN input.files : \E j \in Inserted(f) :
                Latest(o, f, j) /\ orgById[o] = input.files[f][j]
        BY <1>3, <2>1, <2>6, <3>2 DEF KnownOK
      <4>2. PICK j \in Inserted(f) : Latest(o, f, j) /\ orgById[o] = input.files[f][j]
        BY <4>1
      <4> QED  BY <1>2, <1>6, <2>1, <2>5, <2>6, <3>2, <4>2
    <3> QED  BY <3>1, <3>2
  <2> QED  BY <2>2, <2>3, <2>6 DEF KnownOK
<1> QED  BY <1>10, <1>12, <1>13

\* When the next overlay is opened, the one before has been merged whole.
LEMMA NextFileStep ==
    ASSUME LoadInv, NextFile
    PROVE  LoadInv'
<1> USE DEF LoadInv
<1>1. /\ rest = {} /\ file < Len(input.files)
      /\ file' = file + 1 /\ rest' = Distinct(input.files[file + 1])
      /\ UNCHANGED <<input, line, orgById, asnToOrgs>>
  BY DEF NextFile, index
<1>2. /\ input \in Inputs /\ file \in DOMAIN input.files /\ file + 1 \in DOMAIN input.files
      /\ file \in Nat /\ line = 0
  <2>1. input \in Inputs /\ file \in 1..Len(input.files) /\ line \in 0..Len(input.lines)
    BY DEF PlaceOK
  <2>2. line = 0
    BY <1>1, <2>1, InputFacts DEF PlaceOK, Loaded
  <2> QED  BY <1>1, <2>1, <2>2, InputFacts
<1>3. rest' = Merged(file + 1)
  <2>1. file + 1 # 1 /\ DOMAIN input.files[file + 1] = 1..Len(input.files[file + 1])
        /\ Len(input.files[file + 1]) \in Nat
    BY <1>2, InputFacts
  <2>2. \A i, j \in DOMAIN input.files[file + 1] :
            j > i <=> j \in i + 1..Len(input.files[file + 1])
    BY <2>1
  <2>3. \A i : i + 1..Len(input.files[file + 1]) \subseteq Int
    OBVIOUS
  <2>4. \A i \in DOMAIN input.files[file + 1] :
            i + 1..Len(input.files[file + 1]) \subseteq DOMAIN input.files[file + 1]
    BY <2>1
  <2> QED  BY <1>1, <2>1, <2>2, <2>4 DEF Merged, Distinct
<1>4. /\ \A f : Merged(f)' = Merged(f)
      /\ \A f, a : Claims(f, a)' = Claims(f, a)
  BY <1>1 DEF Merged, Claims
<1>5. \A f \in DOMAIN input.files : Inserted(f)' = Inserted(f)
  <2> SUFFICES ASSUME NEW f \in DOMAIN input.files PROVE Inserted(f)' = Inserted(f)
    OBVIOUS
  <2>1. f \in Nat
    BY <1>2, InputFacts
  <2>2. CASE f < file + 1
    BY <1>1, <1>2, <1>4, <2>1, <2>2 DEF Inserted
  <2>3. CASE f = file + 1
    <3>1. Inserted(f) = {}
      BY <1>2, <2>3 DEF Inserted
    <3>2. Merged(f)' \ rest' = {}
      BY <1>3, <1>4, <2>3
    <3>3. f = file' /\ ~(f < file')
      BY <1>1, <1>2, <2>1, <2>3
    <3>4. Inserted(f)' = {}
      BY <3>2, <3>3 DEF Inserted
    <3> QED  BY <3>1, <3>4
  <2>4. CASE f > file + 1
    BY <1>1, <1>2, <2>1, <2>4 DEF Inserted
  <2> QED  BY <1>2, <2>1, <2>2, <2>3, <2>4
<1>6. PlaceOK'
  <2>1. rest' \subseteq Merged(file)' /\ file' # 1 /\ file' \in 1..Len(input.files)
    BY <1>1, <1>2, <1>3, <1>4, InputFacts
  <2> QED  BY <1>1, <1>2, <2>1, InputFacts DEF PlaceOK
<1>7. HeadOK'
  <2>1. \A a, f, j : FirstClaim(a, f, j)' = FirstClaim(a, f, j)
    BY <1>1, <1>4 DEF FirstClaim
  <2>2. ASSUME NEW a \in Asn PROVE HeadOf(a)'
    <3>1. HeadOf(a)
      BY DEF HeadOK
    <3> QED  BY <1>1, <1>4, <1>5, <2>1, <3>1 DEF HeadOf
  <2> QED  BY <1>1, <2>2 DEF HeadOK
<1>8. KnownOK'
  <2>1. \A o, j : \A f \in DOMAIN input.files : Latest(o, f, j)' = Latest(o, f, j)
    BY <1>1, <1>5 DEF Latest
  <2> QED  BY <1>1, <1>5, <2>1 DEF KnownOK
<1> QED  BY <1>6, <1>7, <1>8

\* A watchlist line inserts no record.
LEMMA EnrichLoad ==
    ASSUME LoadInv, EnrichLine
    PROVE  LoadInv'
<1> USE DEF LoadInv
<1>1. /\ Loaded /\ line < Len(input.lines) /\ line' = line + 1
      /\ UNCHANGED <<input, file, rest, asnToOrgs>>
  BY DEF EnrichLine
<1>2. input \in Inputs /\ line \in Nat /\ line + 1 \in DOMAIN input.lines
      /\ input.lines[line + 1] \in Domain
  <2>1. input \in Inputs /\ line \in 0..Len(input.lines) /\ Len(input.lines) \in Nat
    BY InputFacts DEF PlaceOK
  <2>2. line + 1 \in DOMAIN input.lines
    BY <1>1, <2>1, InputsAssumption
  <2> QED  BY <2>1, <2>2, InputFacts
<1>3. /\ \A f : Merged(f)' = Merged(f)
      /\ \A f, a : Claims(f, a)' = Claims(f, a)
  BY <1>1 DEF Merged, Claims
<1>4. \A f : Inserted(f)' = Inserted(f)
  BY <1>1, <1>3 DEF Inserted
<1>5. PlaceOK'
  <2>1. Loaded'
    BY <1>1 DEF Loaded
  <2>2. line' \in 0..Len(input.lines)
    BY <1>1, <1>2, InputFacts
  <2>3. rest' \subseteq Merged(file)'
    BY <1>1, <1>3 DEF PlaceOK
  <2>4. (file' = 1 /\ ~input'.rows) => \A i \in Inserted(1)', j \in rest' : i < j
    BY <1>1, <1>4 DEF PlaceOK
  <2>5. input' \in Inputs /\ file' \in 1..Len(input'.files)
    BY <1>1 DEF PlaceOK
  <2> QED  BY <1>1, <2>1, <2>2, <2>3, <2>4, <2>5 DEF PlaceOK
<1>6. HeadOK'
  <2>1. \A a, f, j : FirstClaim(a, f, j)' = FirstClaim(a, f, j)
    BY <1>1, <1>3 DEF FirstClaim
  <2>2. ASSUME NEW a \in Asn PROVE HeadOf(a)'
    <3>1. HeadOf(a)
      BY DEF HeadOK
    <3> QED  BY <1>1, <1>3, <1>4, <2>1, <3>1 DEF HeadOf
  <2> QED  BY <1>1, <2>2 DEF HeadOK
<1>7. KnownOK'
  <2>1. \A o, f, j : Latest(o, f, j)' = Latest(o, f, j)
    BY <1>1, <1>4 DEF Latest
  <2>2. line' # 0
    BY <1>1, <1>2
  <2>3. DOMAIN orgById' = DOMAIN orgById
    BY DEF EnrichLine
  <2>4. ASSUME NEW o \in DOMAIN orgById PROVE orgById'[o] \in Record
    <3>1. orgById[o] \in Record
      BY DEF KnownOK
    <3>2. \/ orgById'[o] = orgById[o]
          \/ orgById'[o] = [orgById[o] EXCEPT !.domains = @ \cup {input.lines[line + 1]}]
      BY DEF EnrichLine
    <3> QED  BY <1>2, <3>1, <3>2 DEF Record
  <2> QED  BY <1>1, <1>4, <2>1, <2>2, <2>3, <2>4 DEF KnownOK
<1> QED  BY <1>5, <1>6, <1>7

\* The invariant of loading is inductive.
LEMMA LoadStep == LoadInv /\ [IndexNext]_indexVars => LoadInv'
<1> SUFFICES ASSUME LoadInv, [IndexNext]_indexVars PROVE LoadInv'
  OBVIOUS
<1>1. CASE UNCHANGED indexVars
  <2>1. UNCHANGED <<input, file, rest, line, orgById, asnToOrgs>>
    BY <1>1 DEF indexVars
  <2>2. /\ \A f : Merged(f)' = Merged(f)
        /\ \A f, a : Claims(f, a)' = Claims(f, a)
    BY <2>1 DEF Merged, Claims
  <2>3. \A f : Inserted(f)' = Inserted(f)
    BY <2>1, <2>2 DEF Inserted
  <2>4. /\ \A o, f, j : Latest(o, f, j)' = Latest(o, f, j)
        /\ \A a, f, j : FirstClaim(a, f, j)' = FirstClaim(a, f, j)
    BY <2>1, <2>2, <2>3 DEF Latest, FirstClaim
  <2>5. \A a : HeadOf(a)' = HeadOf(a)
    BY <2>1, <2>2, <2>3, <2>4 DEF HeadOf
  <2>6. PlaceOK'
    BY <2>1, <2>2, <2>3 DEF PlaceOK, LoadInv, Loaded
  <2>7. HeadOK' /\ KnownOK'
    BY <2>1, <2>3, <2>4, <2>5 DEF HeadOK, KnownOK, LoadInv
  <2> QED  BY <2>6, <2>7 DEF LoadInv
<1> QED  BY <1>1, InsertStep, NextFileStep, EnrichLoad DEF IndexNext

\* Once the files are loaded, all that is to be merged has been inserted.
LEMMA LoadedFacts ==
    ASSUME LoadInv, Loaded
    PROVE  /\ input \in Inputs
           /\ \A f \in DOMAIN input.files : Inserted(f) = Merged(f)
<1>1. input \in Inputs /\ file = Len(input.files) /\ rest = {}
  BY DEF LoadInv, PlaceOK, Loaded
<1>2. \A f \in DOMAIN input.files : f < file \/ f = file
  BY <1>1, InputFacts
<1> QED  BY <1>1, <1>2 DEF Inserted

\* The index is right for every ASN.
LEMMA LoadedHeads ==
    ASSUME LoadInv, Loaded
    PROVE  \A a \in Asn : OrgForAsn(a) \in Primaries(a)
<1> SUFFICES ASSUME NEW a \in Asn PROVE OrgForAsn(a) \in Primaries(a)
  OBVIOUS
<1>1. input \in Inputs /\ HeadOf(a)
      /\ \A f \in DOMAIN input.files : Inserted(f) = Merged(f) /\ Claims(f, a) \subseteq Merged(f)
  BY LoadedFacts DEF LoadInv, HeadOK, Claims
<1>2. CASE asnToOrgs[a] = << >>
  <2>1. Claimed(a) = {}
    BY <1>1, <1>2 DEF HeadOf, Claimed
  <2> QED  BY <1>2, <2>1 DEF OrgForAsn, Primaries
<1>3. CASE asnToOrgs[a] # << >>
  <2>1. PICK f \in DOMAIN input.files : \E i \in Inserted(f) :
            FirstClaim(a, f, i) /\ Head(asnToOrgs[a]) = input.files[f][i].org
    BY <1>1, <1>3 DEF HeadOf
  <2>2. PICK i \in Inserted(f) :
            FirstClaim(a, f, i) /\ Head(asnToOrgs[a]) = input.files[f][i].org
    BY <2>1
  <2>3. OrgForAsn(a) = input.files[f][i].org
    BY <1>3, <2>2 DEF OrgForAsn, LoadInv, KnownOK
  <2>4. f \in Claimed(a) /\ \A h \in Claimed(a) : f <= h
    BY <1>1, <2>2, InputFacts DEF FirstClaim, Claimed
  <2>5. Claimed(a) \subseteq Int
    BY <1>1, InputFacts DEF Claimed
  <2>6. (CHOOSE g \in Claimed(a) : \A h \in Claimed(a) : g <= h) = f
    <3> DEFINE m == CHOOSE g \in Claimed(a) : \A h \in Claimed(a) : g <= h
    <3>1. m \in Claimed(a) /\ \A h \in Claimed(a) : m <= h
      BY <2>4
    <3> QED  BY <2>4, <2>5, <3>1
  <2>7. i \in {j \in Claims(f, a) : (f = 1 /\ ~input.rows) => \A k \in Claims(f, a) : j <= k}
    BY <2>2 DEF FirstClaim
  <2> QED  BY <2>3, <2>4, <2>6, <2>7 DEF Primaries
<1> QED  BY <1>2, <1>3

\* For any rows, files, overlays and order of merging, an ASN belongs to an org of the first
\* file that names it (org_for_asn, insert, apply_org_overlay).
THEOREM AttributionCorrect == IndexSpec => []AttributionIsExplained
<1>1. LoadInv => AttributionIsExplained
  BY LoadedHeads DEF AttributionIsExplained
<1> QED  BY <1>1, InitLoad, LoadStep, PTL DEF IndexSpec

-----------------------------------------------------------------------------
(* The watchlist. *)

\* The recursion of Explained, over the first n lines.
Grown(g, o, n) ==
    g = [i \in 0..n |->
            IF i = 0 THEN LastRecord(o).domains
            ELSE g[i - 1] \cup {d \in {input.lines[i]} : About(o, d, g[i - 1])}]

Tracks(o, n, domains) ==
    /\ \E g : Grown(g, o, n)
    /\ \A g : Grown(g, o, n) => g[n] = domains

WatchOK == line > 0 => \A o \in DOMAIN orgById : Tracks(o, line, orgById[o].domains)

IndexInv == LoadInv /\ WatchOK

\* What CHOOSE takes for the greatest number is the greatest number.
LEMMA Greatest ==
    ASSUME NEW S, S \subseteq Int, NEW i \in S, \A j \in S : j <= i
    PROVE  (CHOOSE j \in S : \A k \in S : k <= j) = i
<1> DEFINE m == CHOOSE j \in S : \A k \in S : k <= j
<1>1. m \in S /\ \A k \in S : k <= m
  OBVIOUS
<1> HIDE DEF m
<1>2. m = i
  BY <1>1
<1> QED  BY <1>2 DEF m

\* Once the files are loaded, an org is known if a file has it, and its record is the last one.
LEMMA LoadedRecords ==
    ASSUME LoadInv, Loaded, NEW o
    PROVE  /\ Known(o) # {} <=> o \in DOMAIN orgById
           /\ (line = 0 /\ o \in DOMAIN orgById) => orgById[o] = LastRecord(o)
<1>1. input \in Inputs /\ KnownOK
      /\ \A f \in DOMAIN input.files : Inserted(f) = Merged(f) /\ Merged(f) \subseteq Int
  BY LoadedFacts, MergedFacts DEF LoadInv
<1>2. Known(o) \subseteq Int
  BY <1>1, InputFacts DEF Known
<1>3. Known(o) # {} <=> o \in DOMAIN orgById
  <2>1. Known(o) # {} => o \in DOMAIN orgById
    BY <1>1 DEF Known, KnownOK
  <2>2. ASSUME o \in DOMAIN orgById PROVE Known(o) # {}
    <3>1. PICK f \in DOMAIN input.files : \E i \in Inserted(f) : Latest(o, f, i)
      BY <1>1, <2>2 DEF KnownOK
    <3> QED  BY <1>1, <3>1 DEF Known, Latest
  <2> QED  BY <2>1, <2>2
<1>4. ASSUME line = 0, o \in DOMAIN orgById
      PROVE  orgById[o] = LastRecord(o)
  <2>1. PICK f \in DOMAIN input.files : \E i \in Inserted(f) :
            Latest(o, f, i) /\ orgById[o] = input.files[f][i]
    BY <1>1, <1>4 DEF KnownOK
  <2>2. PICK i \in Inserted(f) : Latest(o, f, i) /\ orgById[o] = input.files[f][i]
    BY <2>1
  <2>3. /\ i \in Merged(f) /\ input.files[f][i].org = o
        /\ \A g \in DOMAIN input.files : \A j \in Merged(g) :
              input.files[g][j].org = o => g < f \/ (g = f /\ j <= i)
    BY <1>1, <2>2 DEF Latest
  <2>4. f \in Known(o) /\ \A h \in Known(o) : h <= f
    BY <1>1, <2>3, InputFacts DEF Known
  <2>5. (CHOOSE g \in Known(o) : \A h \in Known(o) : h <= g) = f
    BY <1>2, <2>4, Greatest
  <2> DEFINE places == {j \in Merged(f) : input.files[f][j].org = o}
  <2>6. i \in places /\ places \subseteq Int /\ \A j \in places : j <= i
    <3>1. ~(f < f)
      BY <1>1, InputFacts
    <3> QED  BY <1>1, <2>3, <3>1
  <2>7. (CHOOSE j \in places : \A k \in places : k <= j) = i
    BY <2>6, Greatest
  <2>8. LastRecord(o) = input.files[f][i]
    BY <2>5, <2>7 DEF LastRecord
  <2> QED  BY <2>2, <2>8
<1> QED  BY <1>3, <1>4

\* Before the first line.
LEMMA TracksNone ==
    ASSUME NEW o
    PROVE  Tracks(o, 0, LastRecord(o).domains)
<1>1. Grown([i \in 0..0 |-> LastRecord(o).domains], o, 0)
  BY DEF Grown
<1>2. ASSUME NEW g, Grown(g, o, 0) PROVE g[0] = LastRecord(o).domains
  BY <1>2 DEF Grown
<1> QED  BY <1>1, <1>2 DEF Tracks

\* One line more: a solution of the longer recursion is one of the shorter, and the
\* shorter one extends.
LEMMA TracksNext ==
    ASSUME NEW o, NEW n \in Nat, NEW domains, Tracks(o, n, domains)
    PROVE  Tracks(o, n + 1,
                  domains \cup {d \in {input.lines[n + 1]} : About(o, d, domains)})
<1> DEFINE More(i, ds) == ds \cup {d \in {input.lines[i]} : About(o, d, ds)}
<1>1. \A g, m : Grown(g, o, m) <=>
          g = [i \in 0..m |-> IF i = 0 THEN LastRecord(o).domains ELSE More(i, g[i - 1])]
  BY DEF Grown
<1> SUFFICES Tracks(o, n + 1, More(n + 1, domains))
  OBVIOUS
<1> HIDE DEF More
<1>2. \E g : Grown(g, o, n + 1)
  <2>1. PICK g : Grown(g, o, n)
    BY DEF Tracks
  <2> DEFINE h == [i \in 0..n + 1 |-> IF i = n + 1 THEN More(n + 1, g[n]) ELSE g[i]]
             k == [i \in 0..n + 1 |->
                      IF i = 0 THEN LastRecord(o).domains ELSE More(i, h[i - 1])]
  <2>2. \A i \in 0..n : h[i] = g[i]
    OBVIOUS
  <2>3. \A i \in 0..n : g[i] = IF i = 0 THEN LastRecord(o).domains ELSE More(i, g[i - 1])
    BY <1>1, <2>1
  <2>4. ASSUME NEW i \in 0..n + 1 PROVE h[i] = k[i]
    <3>1. CASE i = n + 1
      <4>1. h[i] = More(n + 1, g[n]) /\ h[n] = g[n] /\ i - 1 = n /\ i # 0
        BY <2>2, <3>1
      <4> QED  BY <3>1, <4>1
    <3>2. CASE i # n + 1
      <4>1. i \in 0..n /\ (i # 0 => i - 1 \in 0..n)
        BY <3>2
      <4> QED  BY <2>2, <2>3, <4>1
    <3> QED  BY <3>1, <3>2
  <2>5. h = k
    BY <2>4
  <2> QED  BY <1>1, <2>5
<1>3. ASSUME NEW g, Grown(g, o, n + 1)
      PROVE  g[n + 1] = More(n + 1, domains)
  <2>1. g = [i \in 0..n + 1 |-> IF i = 0 THEN LastRecord(o).domains ELSE More(i, g[i - 1])]
    BY <1>1, <1>3
  <2> DEFINE h == [i \in 0..n |-> g[i]]
             k == [i \in 0..n |-> IF i = 0 THEN LastRecord(o).domains ELSE More(i, h[i - 1])]
  <2>2. ASSUME NEW i \in 0..n PROVE h[i] = k[i]
    <3>1. i \in 0..n + 1 /\ (i # 0 => i - 1 \in 0..n)
      OBVIOUS
    <3>2. g[i] = IF i = 0 THEN LastRecord(o).domains ELSE More(i, g[i - 1])
      BY <2>1, <3>1
    <3> QED  BY <3>1, <3>2
  <2>3. h = k
    BY <2>2
  <2>4. Grown(h, o, n)
    BY <1>1, <2>3
  <2>5. g[n] = domains
    BY <2>4 DEF Tracks
  <2>6. g[n + 1] = More(n + 1, g[n + 1 - 1]) /\ n + 1 - 1 = n
    <3>1. n + 1 \in 0..n + 1 /\ n + 1 # 0 /\ n + 1 - 1 = n
      OBVIOUS
    <3> QED  BY <2>1, <3>1
  <2> QED  BY <2>5, <2>6
<1> QED  BY <1>2, <1>3 DEF Tracks

\* At every moment past the loading, from the first line on.
LEMMA Tracked ==
    ASSUME IndexInv, Loaded, NEW o \in DOMAIN orgById
    PROVE  Tracks(o, line, orgById[o].domains)
<1>1. line \in Nat
  BY InputFacts DEF IndexInv, LoadInv, PlaceOK
<1>2. CASE line = 0
  BY <1>2, LoadedRecords, TracksNone DEF IndexInv
<1>3. CASE line > 0
  BY <1>3 DEF IndexInv, WatchOK
<1> QED  BY <1>1, <1>2, <1>3

\* A line gives its domain to the orgs it is about.
LEMMA EnrichStep ==
    ASSUME IndexInv, EnrichLine
    PROVE  WatchOK'
<1> USE DEF IndexInv
<1>1. /\ Loaded /\ line' = line + 1 /\ input' = input /\ line \in Nat
      /\ DOMAIN orgById' = DOMAIN orgById
  BY InputFacts DEF EnrichLine, LoadInv, PlaceOK
<1> DEFINE d == input.lines[line + 1]
<1>2. ASSUME NEW o \in DOMAIN orgById
      PROVE  orgById'[o].domains =
                 orgById[o].domains \cup {e \in {d} : About(o, e, orgById[o].domains)}
  <2>1. d \in OrgId /\ Known(d) # {} <=> d \in DOMAIN orgById
    <3>1. d \in DOMAIN orgById => d \in OrgId
      <4> SUFFICES ASSUME d \in DOMAIN orgById PROVE d \in OrgId
        OBVIOUS
      <4>1. PICK f \in DOMAIN input.files : \E i \in Inserted(f) : Latest(d, f, i)
        BY DEF LoadInv, KnownOK
      <4>2. PICK i \in Merged(f) : input.files[f][i].org = d
        BY <1>1, <4>1, LoadedFacts DEF Latest
      <4> QED  BY <4>2, <1>1, LoadedFacts, MergedFacts, InputFacts
    <3> QED  BY <1>1, <3>1, LoadedRecords
  <2>2. o \in Targets(d) <=> About(o, d, orgById[o].domains)
    BY <2>1 DEF Targets, About
  <2>3. orgById[o] \in Record
    BY DEF LoadInv, KnownOK
  <2>4. orgById'[o] = IF o \in Targets(d) /\ d \notin orgById[o].domains
                      THEN [orgById[o] EXCEPT !.domains = @ \cup {d}] ELSE orgById[o]
    BY DEF EnrichLine
  <2> HIDE DEF d
  <2>5. CASE o \in Targets(d) /\ d \notin orgById[o].domains
    <3>1. orgById'[o].domains = orgById[o].domains \cup {d}
      BY <2>3, <2>4, <2>5 DEF Record
    <3> QED  BY <2>2, <2>5, <3>1
  <2>6. CASE ~(o \in Targets(d) /\ d \notin orgById[o].domains)
    <3>1. orgById'[o].domains = orgById[o].domains
      BY <2>4, <2>6
    <3> QED  BY <2>2, <2>6, <3>1
  <2> QED  BY <2>5, <2>6
<1>3. ASSUME NEW o \in DOMAIN orgById
      PROVE  Tracks(o, line + 1, orgById'[o].domains)
  <2>1. Tracks(o, line, orgById[o].domains)
    BY <1>1, Tracked
  <2> QED  BY <1>1, <1>2, <2>1, TracksNext
<1>4. \A o, n, ds : Tracks(o, n, ds)' = Tracks(o, n, ds)
  BY <1>1 DEF Tracks, Grown, LastRecord, About, Known, Merged
<1> QED  BY <1>1, <1>3, <1>4 DEF WatchOK

\* The invariant is inductive.
LEMMA IndexStep == IndexInv /\ [IndexNext]_indexVars => IndexInv'
<1> SUFFICES ASSUME IndexInv, [IndexNext]_indexVars PROVE IndexInv'
  OBVIOUS
<1>1. LoadInv'
  BY LoadStep DEF IndexInv
<1>2. CASE InsertNext \/ NextFile
  <2>1. line' = line
    BY <1>2 DEF InsertNext, NextFile
  <2>2. ~Loaded
    BY <1>2 DEF InsertNext, NextFile, Loaded
  <2>3. ~(line > 0)
    BY <2>2 DEF IndexInv, LoadInv, PlaceOK
  <2> QED  BY <1>1, <2>1, <2>3 DEF IndexInv, WatchOK
<1>3. CASE EnrichLine
  BY <1>1, <1>3, EnrichStep DEF IndexInv
<1>4. CASE UNCHANGED indexVars
  <2>1. input' = input /\ line' = line /\ orgById' = orgById
    BY <1>4 DEF indexVars
  <2>2. \A o, n, ds : Tracks(o, n, ds)' = Tracks(o, n, ds)
    BY <2>1 DEF Tracks, Grown, LastRecord, About, Known, Merged
  <2> QED  BY <1>1, <2>1, <2>2 DEF IndexInv, WatchOK
<1> QED  BY <1>2, <1>3, <1>4 DEF IndexNext

\* The function the property chooses gives the domains the org has.
LEMMA ExplainedDomains ==
    ASSUME IndexInv, Loaded, NEW o \in DOMAIN orgById
    PROVE  Explained(o) = orgById[o].domains
<1>1. Tracks(o, line, orgById[o].domains)
  BY Tracked
<1>2. Explained(o) = (CHOOSE g : Grown(g, o, line))[line]
  BY DEF Explained, Grown
<1>3. Grown(CHOOSE g : Grown(g, o, line), o, line)
  BY <1>1 DEF Tracks
<1> QED  BY <1>1, <1>2, <1>3 DEF Tracks

\* For any watchlist after them, two ASNs are one family exactly when the domains their orgs got
\* from the files and the lines are registered together (same_family, enrich_domains_from_watchlist).
THEOREM FamilyCorrect == IndexSpec => []FamilyIsExplained
<1>1. IndexInit => IndexInv
  BY InitLoad DEF IndexInit, IndexInv, WatchOK
<1>2. IndexInv => FamilyIsExplained
  <2> SUFFICES ASSUME IndexInv, Loaded, NEW a \in Asn, NEW b \in Asn
               PROVE  SameFamily(a, b) <=>
                        \E o \in {OrgForAsn(a)} \ {None}, q \in {OrgForAsn(b)} \ {None} :
                            \E d \in Explained(o), e \in Explained(q) : Root[d] = Root[e]
    BY DEF FamilyIsExplained
  <2>1. \A x \in Asn : OrgForAsn(x) # None =>
            Explained(OrgForAsn(x)) = orgById[OrgForAsn(x)].domains
    <3>1. \A x \in Asn : OrgForAsn(x) # None => OrgForAsn(x) \in DOMAIN orgById
      BY DEF OrgForAsn
    <3> QED  BY <3>1, ExplainedDomains
  <2> QED  BY <2>1 DEF SameFamily, SharesFamily
<1> QED  BY <1>1, <1>2, IndexStep, PTL DEF IndexSpec
==============================================================================
