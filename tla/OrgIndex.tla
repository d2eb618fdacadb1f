------------------------------- MODULE OrgIndex -------------------------------
(***************************************************************************)
(* The org map in memory (OrgMap of crates/bgp-map): records by id, an     *)
(* index from ASNs and from domains to ids, and what builds it: the rows   *)
(* of the work database or a JSON file, then overlays, then a watchlist    *)
(* of domains.                                                             *)
(*                                                                         *)
(* A command names its inputs (files, lines) when it starts.  A file is a  *)
(* sequence of records; rows come in whatever order sqlite has them, and   *)
(* an overlay in that of the HashMap it was read into.  Sorted lists       *)
(* without repetition are sets, and so are the ids of a domain, whose      *)
(* order nothing reads; names, hints and external ids only ride along.     *)
(***************************************************************************)
EXTENDS Integers, Sequences, FiniteSets

CONSTANTS
    Asn, OrgId, Domain,
    Root,        \* registrable_domain: a domain -> the domain to register
    Named,       \* <<org, domain>>: the first label is in the org's id or name
    Contains,    \* <<domain, domain>>: the first has the second's label in it
    Inputs,      \* what commands may be given: [rows, files, lines]
    None         \* no org

\* A domain may be the id of an org.
ASSUME OrgIndexAssumption ==
    /\ Root \in [Domain -> Domain]
    /\ None \notin OrgId

Record == [org : OrgId, asns : SUBSET Asn, domains : SUBSET Domain]

ASSUME InputsAssumption ==
    \A input \in Inputs :
        /\ input.rows \in BOOLEAN
        /\ input.files \in Seq(Seq(Record)) /\ input.files # << >>
        /\ input.lines \in Seq(Domain)
        /\ input.rows =>  \* org_id is the primary key
              \A i, j \in DOMAIN input.files[1] :
                  input.files[1][i].org = input.files[1][j].org => i = j

VARIABLES
    input,       \* the command's inputs
    file,        \* the file being merged
    rest,        \* the places in it of the records not inserted yet
    line,        \* watchlist lines read
    orgById,     \* OrgMap::orgs: id -> record, for the ids known
    asnToOrgs,   \* OrgMap::asn_to_orgs: ASN -> ids, in order of registration
    domainToOrgs \* OrgMap::domain_to_orgs

index == <<orgById, asnToOrgs, domainToOrgs>>
indexVars == <<input, file, rest, line, orgById, asnToOrgs, domainToOrgs>>

-----------------------------------------------------------------------------
(* Reading the map. *)

\* org_for_asn: the record of the first id.
OrgForAsn(a) ==
    IF asnToOrgs[a] = << >> \/ Head(asnToOrgs[a]) \notin DOMAIN orgById THEN None
    ELSE Head(asnToOrgs[a])

\* Mutant: a domain in common, not a registrable one.
SharesDomain(ds, es) == ds \cap es # {}

\* shares_family.
SharesFamily(ds, es) == {Root[d] : d \in ds} \cap {Root[e] : e \in es} # {}

SameFamily(a, b) ==
    /\ None \notin {OrgForAsn(a), OrgForAsn(b)}
    /\ SharesFamily(orgById[OrgForAsn(a)].domains, orgById[OrgForAsn(b)].domains)

-----------------------------------------------------------------------------
(* Building it. *)

\* Mutant: the newest registration is put first.
RegisteredFirst(idx, keys, o) ==
    [k \in DOMAIN idx |-> IF k \in keys THEN <<o>> \o idx[k] ELSE idx[k]]

Registered(idx, keys, o) ==
    [k \in DOMAIN idx |-> IF k \in keys THEN Append(idx[k], o) ELSE idx[k]]

\* insert.  The ids registered for a record that is replaced stay.
Insert(r) ==
    /\ asnToOrgs' = Registered(asnToOrgs, r.asns, r.org)
    /\ domainToOrgs' = [d \in Domain |->
                           domainToOrgs[d] \cup (IF d \in r.domains THEN {r.org} ELSE {})]
    /\ orgById' = [o \in DOMAIN orgById \cup {r.org} |-> IF o = r.org THEN r ELSE orgById[o]]

\* Mutant: of an id, the overlay's first record is kept.
DistinctFirst(records) ==
    {i \in DOMAIN records : \A j \in 1..i - 1 : records[j].org # records[i].org}

\* What the overlay's own OrgMap holds: of an id, the last record.
Distinct(records) ==
    {i \in DOMAIN records : \A j \in i + 1..Len(records) : records[j].org # records[i].org}

IndexInit ==
    /\ input \in Inputs
    /\ file = 1 /\ rest = DOMAIN input.files[1] /\ line = 0
    /\ orgById = [o \in {} |-> None]
    /\ asnToOrgs = [a \in Asn |-> << >>]
    /\ domainToOrgs = [d \in Domain |-> {}]

\* load_live_org_map and from_json_str for the first file, apply_org_overlay for the others.
InsertNext ==
    /\ \E i \in rest :
        /\ file = 1 /\ ~input.rows => \A j \in rest : i <= j
        /\ Insert(input.files[file][i])
        /\ rest' = rest \ {i}
    /\ UNCHANGED <<input, file, line>>

\* from_json_file of the next overlay.
NextFile ==
    /\ rest = {} /\ file < Len(input.files)
    /\ file' = file + 1
    /\ rest' = Distinct(input.files[file + 1])
    /\ UNCHANGED <<input, line, index>>

Loaded == file = Len(input.files) /\ rest = {}

\* Mutant: an org whose id is the domain does not end the search.
TargetsAll(d) ==
    {o \in DOMAIN orgById :
        o = d \/ <<o, d>> \in Named \/ \E e \in orgById[o].domains : <<e, d>> \in Contains}

\* The orgs a watchlist line is about.
Targets(d) ==
    IF d \in DOMAIN orgById THEN {d}
    ELSE {o \in DOMAIN orgById :
             <<o, d>> \in Named \/ \E e \in orgById[o].domains : <<e, d>> \in Contains}

\* A line of enrich_domains_from_watchlist; of its targets, those that lack the domain.
EnrichLine ==
    /\ Loaded /\ line < Len(input.lines)
    /\ line' = line + 1
    /\ LET d == input.lines[line + 1]
           new == {o \in Targets(d) : d \notin orgById[o].domains}
       IN  /\ orgById' = [o \in DOMAIN orgById |->
                             IF o \in new THEN [orgById[o] EXCEPT !.domains = @ \cup {d}]
                             ELSE orgById[o]]
           /\ domainToOrgs' = [domainToOrgs EXCEPT ![d] = @ \cup new]
    /\ UNCHANGED <<input, file, rest, asnToOrgs>>

IndexNext == InsertNext \/ NextFile \/ EnrichLine
IndexSpec == IndexInit /\ [][IndexNext]_indexVars

-----------------------------------------------------------------------------
(* Properties. *)

\* The records of file f that are merged, by place: of an id, an overlay's last.
Merged(f) ==
    {i \in DOMAIN input.files[f] :
        \/ f = 1
        \/ ~\E j \in DOMAIN input.files[f] : j > i /\ input.files[f][j].org = input.files[f][i].org}

Claims(f, a) == {i \in Merged(f) : a \in input.files[f][i].asns}

Claimed(a) == {f \in DOMAIN input.files : Claims(f, a) # {}}

\* The orgs "first registration wins" allows: of the first file that names the ASN, its first
\* record where the file's order is kept, any where it is not.
Primaries(a) ==
    LET f == CHOOSE g \in Claimed(a) : \A h \in Claimed(a) : g <= h
        kept == f = 1 /\ ~input.rows
    IN  IF Claimed(a) = {} THEN {None}
        ELSE {input.files[f][i].org :
                 i \in {j \in Claims(f, a) : kept => \A k \in Claims(f, a) : j <= k}}

\* Once the files are loaded, an ASN belongs to an org of the first file that names it (the
\* first one there, unless a HashMap or sqlite has chosen the order): no overlay and no
\* watchlist takes an ASN over, and none loses the org it had when the org's record is
\* replaced (insert, org_for_asn, apply_org_overlay).
AttributionIsExplained == Loaded => \A a \in Asn : OrgForAsn(a) \in Primaries(a)

Known(o) == {f \in DOMAIN input.files : \E i \in Merged(f) : input.files[f][i].org = o}

\* The last record of the last file that has the org.
LastRecord(o) ==
    LET f == CHOOSE g \in Known(o) : \A h \in Known(o) : h <= g
        places == {i \in Merged(f) : input.files[f][i].org = o}
    IN  input.files[f][CHOOSE i \in places : \A j \in places : j <= i]

\* A line goes to the org it names, or else to every org whose id, name or domains of that
\* moment have its label.
About(o, d, domains) ==
    IF d \in OrgId /\ Known(d) # {} THEN o = d
    ELSE <<o, d>> \in Named \/ \E e \in domains : <<e, d>> \in Contains

\* The domains of an org after the watchlist lines read.
Explained(o) ==
    LET got[i \in 0..line] ==
            IF i = 0 THEN LastRecord(o).domains
            ELSE got[i - 1] \cup {d \in {input.lines[i]} : About(o, d, got[i - 1])}
    IN  got[line]

\* Two ASNs are one family, and their contacts are dropped, exactly when a domain that the files
\* or the watchlist give the org of one is registered together with one of the other's org,
\* whatever the order of loading (same_family, enrich_domains_from_watchlist).
FamilyIsExplained ==
    Loaded => \A a, b \in Asn :
        SameFamily(a, b) <=>
            \E o \in {OrgForAsn(a)} \ {None}, q \in {OrgForAsn(b)} \ {None} :
                \E d \in Explained(o), e \in Explained(q) : Root[d] = Root[e]
=============================================================================
