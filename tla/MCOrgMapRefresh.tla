--------------------------- MODULE MCOrgMapRefresh ---------------------------
(* Small instances of OrgMapRefresh for TLC. *)
EXTENDS OrgMapRefresh, TLC

CONSTANTS n1, n2, n3, n4, a, b

\* One org has two subjects, the other a subject and an ASN that may be glue.
MCOrgOf == [n \in Net |-> IF n \in {n1, n2} THEN a ELSE b]
=============================================================================
