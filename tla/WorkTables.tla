----------------------------- MODULE WorkTables -----------------------------
(***************************************************************************)
(* The SQL statements of bgp-state's WorkDb as functions from a table to   *)
(* the table they leave (crates/bgp-state/src/store.rs).                   *)
(*                                                                         *)
(* A table is a function from its primary keys to rows, with Absent where  *)
(* there is no row.  The two tables that are never hard-deleted from,      *)
(* network_contact and orgs, hold rows [body, live]: body stands for all   *)
(* the columns of the upsert's SET list, live for "deleted_at IS NULL".    *)
(* What a commit writes is a partial function `new` from keys to bodies:   *)
(* the signals of one day, or the orgs of one crawl.                       *)
(***************************************************************************)
EXTENDS Integers, FiniteSets

CONSTANT Absent                       \* "there is no such row"

\* The rows of a soft-deleting table that readers see.
LiveKeys(t) == {k \in DOMAIN t : t[k] # Absent /\ t[k].live}

Live(t) == [k \in LiveKeys(t) |-> t[k].body]

EmptyTable(K) == [k \in K |-> Absent]

\* Mutants: an upsert whose WHERE forgets deleted_at, and one without a WHERE.
UpsertedIgnoringDeleted(t, new) ==
    {k \in DOMAIN new : t[k] = Absent \/ t[k].body # new[k]}
UpsertedAlways(t, new) == DOMAIN new

\* INSERT ... ON CONFLICT DO UPDATE ... WHERE some column differs OR the row is
\* soft-deleted: the keys this statement really writes.
Upserted(t, new) ==
    {k \in DOMAIN new : \/ t[k] = Absent
                        \/ t[k].body # new[k]
                        \/ ~t[k].live}

\* Mutant: a commit that never retracts.
RetractedNone(t, new, scope) == {}

\* UPDATE ... SET deleted_at WHERE deleted_at IS NULL AND key NOT IN (the kept
\* keys), within the scope of the statement.
Retracted(t, new, scope) ==
    {k \in scope \ DOMAIN new : t[k] # Absent /\ t[k].live}

\* The rows one commit writes, each by exactly one of the two statements.
Touched(t, new, scope) == Upserted(t, new) \cup Retracted(t, new, scope)

Sync(t, new, scope) ==
    [k \in DOMAIN t |->
        IF k \in Upserted(t, new) THEN [body |-> new[k], live |-> TRUE]
        ELSE IF k \in Retracted(t, new, scope) THEN [body |-> t[k].body, live |-> FALSE]
        ELSE t[k]]
=============================================================================
