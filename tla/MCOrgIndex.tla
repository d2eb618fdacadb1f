----------------------------- MODULE MCOrgIndex -----------------------------
(* Small instances of OrgIndex for TLC. *)
EXTENDS OrgIndex

CONSTANTS orgA, orgB, shopA, adsA, siteB

MCRoot == [d \in Domain |-> IF d = adsA THEN shopA ELSE d]
\* siteB is the id of an org, too, and its label is in the name of orgA.
MCNamed == {<<orgA, siteB>>, <<orgB, shopA>>}
MCContains == {<<d, d>> : d \in Domain} \cup {<<adsA, shopA>>}

Records(domains) == [org : OrgId, asns : {{1}, {1, 2}, {3}}, domains : domains]

\* One record, or two of distinct orgs.
Tables(records) ==
    {<<r>> : r \in records} \cup {pair \in records \X records : pair[1].org # pair[2].org}

\* A file that has an org twice.
Repeats(records) ==
    {<<r, s, t>> \in records \X records \X records :
        r.org = t.org /\ r.org # s.org /\ r.domains = {} /\ s.domains = {adsA}}

MCRows == Records({{adsA}, {shopA}})
MCFile == Records({{}, {adsA}})
MCOverlays == Records({{}}) \X Records({{adsA}})

MCInputs ==
    [rows : {TRUE}, lines : {<< >>},
     files : {<<t, v>> : t \in Tables(MCRows), v \in MCOverlays}
             \cup {<<<<r>>, v, <<s>>>> : r \in MCRows, s \in Records({{}}), v \in MCOverlays}]
    \cup [rows : {FALSE}, files : {<<t>> : t \in Tables(MCFile) \cup Repeats(MCFile)},
          lines : {<<adsA, shopA, siteB>>, <<siteB, shopA, adsA>>}]
=============================================================================
